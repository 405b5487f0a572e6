------------------------ MODULE SDLCExecutionProofs ------------------------
(***************************************************************************)
(* Machine-checked proofs about SDLCExecution, for any number of runs and  *)
(* workers, any budget and any number of faults, decisions and changes.    *)
(*                                                                         *)
(* The last section is about three claims of the documentation that the    *)
(* code does not keep: each is proved under the one hypothesis that the    *)
(* code lacks.                                                             *)
(***************************************************************************)
EXTENDS SDLCExecution, FiniteSetTheorems, TLAPS

-----------------------------------------------------------------------------
(* The inductive invariant *)

AtWork(w) == worker[w].pc \in {"leased", "working", "submitted"}

\* A worker at work names a stored step, is never ahead of its fence, and no
\* two workers were handed the same fence of the same step.
LeasesDistinct ==
    /\ \A w \in Workers : worker[w].pc # "idle" => worker[w].run \in Runs
    /\ \A w \in Workers : ~AtWork(w) => worker[w].step = 0
    /\ \A w \in Workers : AtWork(w) =>
          /\ worker[w].step \in 1 .. StepNumber(worker[w].run)
          /\ worker[w].fence <= steps[worker[w].run][worker[w].step].fence
    /\ \A v, w \in Workers :
          /\ AtWork(v) /\ AtWork(w) /\ v # w
          /\ worker[v].run = worker[w].run /\ worker[v].step = worker[w].step
          => worker[v].fence # worker[w].fence

\* What a worker submits is a whole result.
SubmittedWhole ==
    \A w \in Workers :
        /\ worker[w].pc = "submitted" =>
              /\ worker[w].outcome \in Outcomes
              /\ worker[w].status \in {"ready", "blocked", "completed"}
              /\ worker[w].stage \in Stages
        /\ worker[w].tokens # 0 => worker[w].role \in {"sdlc_builder", "sdlc_diagnosis"}

\* The charge of an open model step has not been used up by an earlier one.
TokensReserved ==
    \A r \in Runs :
        /\ run[r].actual <= run[r].charged
        /\ InFlight(r) /\ run[r].stage \in ModelStages => run[r].actual + Charge <= run[r].charged
        /\ run[r].charged <= MaxTokens

\* A pending decision was read no later than now, from an inserted run.
DecisionsPast ==
    \A r \in Runs : request[r] # None =>
        request[r].version <= run[r].version /\ run[r].status \notin {"absent", "creating"}

Inv ==
    /\ TypeOK
    /\ SubmittedWhole
    /\ LeasesDistinct
    /\ StepHistorySound
    /\ ReconcilingHasOpenEffect
    /\ TokensReserved
    /\ DecisionsPast
    /\ VersionIdentifiesDecision

-----------------------------------------------------------------------------
(* Rows and records *)

\* ExecutionRole gives every stage a role, and only the model stages the
\* roles of model packages.
LEMMA RoleOfStage ==
    ASSUME NEW s \in Stages
    PROVE  /\ ExecutionRole(s) \in {ExecutionRole(t) : t \in Stages}
           /\ ExecutionRole(s) \in {"sdlc_builder", "sdlc_diagnosis"} <=> s \in ModelStages
BY DEF ExecutionRole, Stages, ModelStages

\* Replacing the newest step keeps the number of steps and every other step.
LEMMA SaveStep ==
    ASSUME TypeOK, NEW r \in Runs, StepNumber(r) > 0, NEW st \in StepRecord,
           saveExecutionStep(r, st)
    PROVE  /\ steps' \in [Runs -> Seq(StepRecord)]
           /\ \A q \in Runs : Len(steps'[q]) = Len(steps[q])
           /\ \A q \in Runs : q # r => steps'[q] = steps[q]
           /\ \A i \in 1 .. Len(steps[r]) : i # Len(steps[r]) => steps'[r][i] = steps[r][i]
           /\ steps'[r][Len(steps[r])] = st
<1>1. steps[r] \in Seq(StepRecord) /\ Len(steps[r]) \in 1 .. Len(steps[r])
  BY DEF TypeOK, StepNumber
<1>2. [steps[r] EXCEPT ![Len(steps[r])] = st] \in Seq(StepRecord)
  BY <1>1
<1>3. Len([steps[r] EXCEPT ![Len(steps[r])] = st]) = Len(steps[r])
  BY <1>1
<1>4. steps' = [steps EXCEPT ![r] = [steps[r] EXCEPT ![Len(steps[r])] = st]]
  BY DEF saveExecutionStep, StepNumber
<1>. QED
  BY <1>1, <1>2, <1>3, <1>4 DEF TypeOK

\* Appending a step keeps every step there was.
LEMMA AppendStep ==
    ASSUME TypeOK, NEW r \in Runs, NEW st \in StepRecord,
           steps' = [steps EXCEPT ![r] = Append(steps[r], st)]
    PROVE  /\ steps' \in [Runs -> Seq(StepRecord)]
           /\ \A q \in Runs : q # r => steps'[q] = steps[q]
           /\ Len(steps'[r]) = Len(steps[r]) + 1
           /\ \A i \in 1 .. Len(steps[r]) : steps'[r][i] = steps[r][i]
           /\ steps'[r][Len(steps[r]) + 1] = st
<1>1. steps[r] \in Seq(StepRecord) /\ steps'[r] = Append(steps[r], st)
  BY DEF TypeOK
<1>. QED
  BY <1>1 DEF TypeOK

\* Saving a run advances its version and no other run.
LEMMA SaveRun ==
    ASSUME TypeOK, NEW r \in Runs, NEW rec \in RunRecord, saveExecution(r, rec)
    PROVE  /\ run' \in [Runs -> RunRecord]
           /\ \A q \in Runs : q # r => run'[q] = run[q]
           /\ run'[r] = [rec EXCEPT !.version = run[r].version + 1]
<1>1. run[r].version + 1 \in Nat
  BY DEF TypeOK, RunRecord
<1>2. [rec EXCEPT !.version = run[r].version + 1] \in RunRecord
  BY <1>1 DEF RunRecord
<1>3. run' = [run EXCEPT ![r] = [rec EXCEPT !.version = run[r].version + 1]]
  BY DEF saveExecution
<1>. QED
  BY <1>2, <1>3 DEF TypeOK

\* The newest step of a run that has one is a step.
LEMMA CurrentStepType ==
    ASSUME TypeOK, NEW r \in Runs
    PROVE  /\ StepNumber(r) \in Nat
           /\ StepNumber(r) > 0 => CurrentStep(r) \in StepRecord
           /\ InFlight(r) => StepNumber(r) > 0 /\ CurrentStep(r) \in StepRecord
BY DEF TypeOK, StepNumber, CurrentStep, InFlight

\* A worker takes up a record and the others keep theirs.
LEMMA WorkerBecomes ==
    ASSUME TypeOK, NEW w \in Workers, NEW rec \in WorkerRecord, Becomes(w, rec)
    PROVE  /\ worker' \in [Workers -> WorkerRecord]
           /\ worker'[w] = rec
           /\ \A v \in Workers : v # w => worker'[v] = worker[v]
BY DEF TypeOK, Becomes

\* A worker between two calls of RunOne holds nothing.
LEMMA IdleWorkerType == IdleWorker \in WorkerRecord
BY BudgetAssumption DEF IdleWorker, WorkerRecord

\* A worker that gives up is idle.
LEMMA WorkerGivesUp ==
    ASSUME TypeOK, NEW w \in Workers, GivesUp(w)
    PROVE  /\ worker' \in [Workers -> WorkerRecord]
           /\ worker'[w] = IdleWorker
           /\ \A v \in Workers : v # w => worker'[v] = worker[v]
<1>1. Becomes(w, IdleWorker)
  BY DEF GivesUp
<1>. QED
  BY <1>1, IdleWorkerType, WorkerBecomes

\* The bounded counters of the environment count.
LEMMA EnvCounts ==
    ASSUME TypeOK
    PROVE  /\ Fault => env' \in [faults : Nat, controls : Nat, changes : Nat]
           /\ Change => env' \in [faults : Nat, controls : Nat, changes : Nat]
           /\ Decision => env' \in [faults : Nat, controls : Nat, changes : Nat]
<1>. DEFINE Counters == [faults : Nat, controls : Nat, changes : Nat]
<1>1. env \in Counters
  BY DEF TypeOK
<1>2. Fault => env' \in Counters
  BY <1>1 DEF Fault
<1>3. Change => env' \in Counters
  BY <1>1 DEF Change
<1>4. Decision => env' \in Counters
  BY <1>1 DEF Decision
<1>. QED
  BY <1>2, <1>3, <1>4

\* The records the actions store are rows of the right shape.
LEMMA StoredShapes ==
    ASSUME TypeOK, NEW r \in Runs
    PROVE  /\ run[r] \in RunRecord
           /\ \A st \in Statuses : [run[r] EXCEPT !.status = st] \in RunRecord
           /\ \A st \in StepRecord : Fenced(st) \in StepRecord /\ LeasedStep(st) \in StepRecord
           /\ \A st \in StepRecord : [st EXCEPT !.lease = "expired"] \in StepRecord
           /\ \A st \in StepRecord, c \in Contexts : Disclosed(st, c) \in StepRecord
           /\ LeasedStep(NewStep(run[r].stage)) \in StepRecord
<1>1. run[r] \in RunRecord
  BY DEF TypeOK
<1>2. \A st \in Statuses : [run[r] EXCEPT !.status = st] \in RunRecord
  BY <1>1 DEF RunRecord
<1>3. \A st \in StepRecord : Fenced(st) \in StepRecord /\ LeasedStep(st) \in StepRecord
  <2>. SUFFICES ASSUME NEW st \in StepRecord
                PROVE  Fenced(st) \in StepRecord /\ LeasedStep(st) \in StepRecord
    OBVIOUS
  <2>1. st.fence + 1 \in Nat
    BY DEF StepRecord
  <2>2. \A n \in Nat, l \in {"live", "expired"} :
           [st EXCEPT !.fence = n, !.lease = l] \in StepRecord
    BY DEF StepRecord
  <2>3. Fenced(st) = [st EXCEPT !.fence = st.fence + 1, !.lease = "expired"]
    BY DEF Fenced, StepRecord
  <2>4. LeasedStep(st) = [st EXCEPT !.fence = st.fence + 1, !.lease = "live"]
    BY DEF LeasedStep
  <2>. QED
    BY <2>1, <2>2, <2>3, <2>4
<1>4. \A st \in StepRecord : [st EXCEPT !.lease = "expired"] \in StepRecord
  BY DEF StepRecord
<1>5. \A st \in StepRecord, c \in Contexts : Disclosed(st, c) \in StepRecord
  BY DEF Disclosed, StepRecord
<1>6. NewStep(run[r].stage) \in StepRecord
  BY <1>1 DEF NewStep, StepRecord, RunRecord
<1>. QED
  BY <1>1, <1>2, <1>3, <1>4, <1>5, <1>6

\* So is the run a claim stores.
LEMMA ClaimedShape ==
    ASSUME TypeOK, NEW r \in Runs
    PROVE  Claimed(r) \in RunRecord
<1>1. run[r] \in RunRecord
  BY DEF TypeOK
<1>2. Charged(r) \in RunRecord
  <2>1. /\ run[r].modelCalls + 1 \in Nat /\ run[r].attempts + 1 \in Nat
        /\ run[r].charged + Charge \in Nat
    BY <1>1, BudgetAssumption DEF RunRecord
  <2>2. \A a, b, c \in Nat :
           [run[r] EXCEPT !.modelCalls = a, !.attempts = b, !.charged = c] \in RunRecord
    BY <1>1 DEF RunRecord
  <2>. QED
    BY <1>1, <2>1, <2>2 DEF Charged
<1>. QED
  BY <1>2 DEF Claimed, RunRecord, Statuses

\* The run a committed result leaves is a row of the right shape.
LEMMA CompletedShape ==
    ASSUME TypeOK, NEW r \in Runs, NEW w \in Workers,
           worker[w].status \in Statuses, worker[w].stage \in Stages
    PROVE  Completed(w, r) \in RunRecord
<1>1. run[r] \in RunRecord /\ worker[w] \in WorkerRecord
  BY DEF TypeOK
<1>2. worker[w].tokens \in Nat
  BY <1>1, BudgetAssumption DEF WorkerRecord
<1>. QED
  <2>1. run[r].actual + worker[w].tokens \in Nat /\ run[r].stage \in Stages
    BY <1>1, <1>2 DEF RunRecord
  <2>2. \A a \in Nat, b \in Stages, c \in Statuses :
           [run[r] EXCEPT !.actual = a, !.stage = b, !.status = c] \in RunRecord
    BY <1>1 DEF RunRecord
  <2>. QED
    BY <2>1, <2>2 DEF Completed, Statuses

-----------------------------------------------------------------------------
(* Type correctness *)

\* Before any run exists the invariant holds.
LEMMA InitInv == Init => Inv
<1>. SUFFICES ASSUME Init PROVE Inv
  OBVIOUS
<1>1. TypeOK
  <2>1. \A r \in Runs : FirstStage(Kind[r]) \in Stages
    BY DEF FirstStage, Stages
  <2>2. run \in [Runs -> RunRecord]
    BY <2>1 DEF Init, RunRecord, Statuses
  <2>3. worker \in [Workers -> WorkerRecord]
    BY IdleWorkerType DEF Init
  <2>. QED
    BY <2>2, <2>3 DEF Init, TypeOK
<1>2. \A r \in Runs : StepNumber(r) = 0 /\ ~InFlight(r)
  BY DEF Init, StepNumber, InFlight
<1>3. SubmittedWhole /\ LeasesDistinct
  BY DEF Init, SubmittedWhole, LeasesDistinct, AtWork, IdleWorker
<1>4. StepHistorySound
  BY <1>2 DEF StepHistorySound
<1>5. ReconcilingHasOpenEffect
  BY DEF Init, ReconcilingHasOpenEffect
<1>6. TokensReserved
  BY <1>2, BudgetAssumption DEF Init, TokensReserved
<1>7. DecisionsPast /\ VersionIdentifiesDecision
  BY DEF Init, DecisionsPast, VersionIdentifiesDecision
<1>. QED
  BY <1>1, <1>3, <1>4, <1>5, <1>6, <1>7 DEF Inv

\* Every transaction and every call of a worker keeps the shapes.
LEMMA NextType ==
    ASSUME TypeOK, SubmittedWhole, [Next]_vars
    PROVE  TypeOK'
<1>. USE DEF TypeOK
<1>1. CASE UNCHANGED vars
  BY <1>1 DEF vars
<1>2. ASSUME NEW r \in Runs, CountActiveRuns(r) PROVE TypeOK'
  <2>1. [run[r] EXCEPT !.status = "creating"] \in RunRecord
    BY StoredShapes DEF Statuses
  <2>2. run' = [run EXCEPT ![r] = [run[r] EXCEPT !.status = "creating"]]
    BY <1>2 DEF CountActiveRuns
  <2>. QED
    BY <1>2, <2>1, <2>2 DEF CountActiveRuns
<1>3. ASSUME NEW r \in Runs, InsertExecution(r) PROVE TypeOK'
  BY <1>3, StoredShapes, SaveRun DEF InsertExecution, Statuses
<1>4. ASSUME NEW r \in Runs, OwnerReads(r) PROVE TypeOK'
  <2>1. [version |-> run[r].version, status |-> run[r].status,
         stage |-> run[r].stage, step |-> StepNumber(r)] \in RequestRecord
    BY CurrentStepType, StoredShapes DEF RequestRecord, RunRecord
  <2>2. env' \in [faults : Nat, controls : Nat, changes : Nat]
    BY <1>4, EnvCounts DEF OwnerReads
  <2>. QED
    BY <1>4, <2>1, <2>2 DEF OwnerReads
<1>5. ASSUME NEW r \in Runs, NEW st \in {"paused", "cancelled"}, Halts(r, st) PROVE TypeOK'
  <2>1. /\ \/ saveExecution(r, [run[r] EXCEPT !.status = "reconciling"])
           \/ saveExecution(r, [run[r] EXCEPT !.status = st])
        /\ \/ UNCHANGED steps
           \/ InFlight(r) /\ saveExecutionStep(r, Fenced(CurrentStep(r)))
    <3>1. CASE EffectInFlight(r)
      BY <1>5, <3>1 DEF Halts
    <3>2. CASE ~EffectInFlight(r)
      BY <1>5, <3>2 DEF Halts
    <3>. QED
      BY <3>1, <3>2
  <2>2. run' \in [Runs -> RunRecord]
    BY <2>1, StoredShapes, SaveRun DEF Statuses
  <2>3. steps' \in [Runs -> Seq(StepRecord)]
    BY <2>1, StoredShapes, CurrentStepType, SaveStep
  <2>. QED
    BY <1>5, <2>2, <2>3 DEF Halts, Decides
<1>6. ASSUME NEW r \in Runs, Resume(r) PROVE TypeOK'
  <2>1. run' \in [Runs -> RunRecord]
    BY <1>6, StoredShapes, SaveRun DEF Resume, Statuses
  <2>. QED
    BY <1>6, <2>1 DEF Resume, Decides
<1>7. ASSUME NEW r \in Runs, Reconcile(r) PROVE TypeOK'
  <2>1. run' \in [Runs -> RunRecord]
    BY <1>7, StoredShapes, SaveRun DEF Reconcile, Statuses
  <2>2. steps' \in [Runs -> Seq(StepRecord)]
    BY <1>7, StoredShapes, CurrentStepType, SaveStep DEF Reconcile, EffectInFlight
  <2>. QED
    BY <1>7, <2>1, <2>2 DEF Reconcile, Decides
<1>8. ASSUME NEW r \in Runs, ControlRefused(r) PROVE TypeOK'
  BY <1>8 DEF ControlRefused
<1>9. ASSUME NEW r \in Runs, LeaseExpires(r) PROVE TypeOK'
  <2>1. steps' \in [Runs -> Seq(StepRecord)]
    BY <1>9, StoredShapes, CurrentStepType, SaveStep DEF LeaseExpires, Expire, Leased
  <2>. QED
    BY <1>9, <2>1, EnvCounts DEF LeaseExpires
<1>10. ASSUME NEW r \in Runs, DeadlinePasses(r) PROVE TypeOK'
  <2>1. steps' \in [Runs -> Seq(StepRecord)]
    BY <1>10, StoredShapes, CurrentStepType, SaveStep DEF DeadlinePasses, Expire, Leased
  <2>. QED
    BY <1>10, <2>1 DEF DeadlinePasses
<1>11. ASSUME NEW r \in Runs, HeadsChange(r) PROVE TypeOK'
  BY <1>11, EnvCounts DEF HeadsChange
<1>12. ASSUME NEW r \in Runs, OwnerRevoked(r) PROVE TypeOK'
  BY <1>12, EnvCounts DEF OwnerRevoked
<1>13. ASSUME NEW w \in Workers, NEW r \in Runs, BeginClaim(w, r) PROVE TypeOK'
  <2>1. run[r].stage \in Stages
    BY DEF RunRecord
  <2>2. [IdleWorker EXCEPT !.pc = "claiming", !.run = r, !.role = ExecutionRole(run[r].stage)]
           \in WorkerRecord
    BY <2>1, RoleOfStage, IdleWorkerType DEF WorkerRecord
  <2>. QED
    BY <1>13, <2>2, WorkerBecomes DEF BeginClaim
<1>14. ASSUME NEW w \in Workers, NEW r \in Runs, ClaimBlocked(w, r) PROVE TypeOK'
  BY <1>14, StoredShapes, SaveRun, WorkerGivesUp DEF ClaimBlocked, Statuses
<1>15. ASSUME NEW w \in Workers, NEW r \in Runs, ClaimGranted(w, r) PROVE TypeOK'
  <2>1. run' \in [Runs -> RunRecord]
    BY <1>15, ClaimedShape, SaveRun DEF ClaimGranted
  <2>2. steps' \in [Runs -> Seq(StepRecord)] /\ StepNumber(r)' > 0
    <3>1. CASE InFlight(r)
      <4>1. saveExecutionStep(r, LeasedStep(CurrentStep(r)))
        BY <1>15, <3>1 DEF ClaimGranted, ClaimedSteps, saveExecutionStep
      <4>. QED
        BY <3>1, <4>1, StoredShapes, CurrentStepType, SaveStep DEF StepNumber
    <3>2. CASE ~InFlight(r)
      <4>1. steps' = [steps EXCEPT ![r] = Append(steps[r], LeasedStep(NewStep(run[r].stage)))]
        BY <1>15, <3>2 DEF ClaimGranted, ClaimedSteps
      <4>. QED
        BY <4>1, StoredShapes, CurrentStepType, AppendStep DEF StepNumber
    <3>. QED
      BY <3>1, <3>2
  <2>3. StepNumber(r)' \in Nat /\ CurrentStep(r)'.fence \in Nat
    <3>1. steps'[r] \in Seq(StepRecord) /\ Len(steps'[r]) > 0
      BY <2>2 DEF StepNumber
    <3>2. steps'[r][Len(steps'[r])] \in StepRecord /\ Len(steps'[r]) \in Nat
      BY <3>1
    <3>. QED
      BY <3>2 DEF StepNumber, CurrentStep, StepRecord
  <2>4. [worker[w] EXCEPT !.pc = "leased", !.step = StepNumber(r)', !.fence = CurrentStep(r)'.fence]
           \in WorkerRecord
    <3>1. worker[w] \in WorkerRecord
      OBVIOUS
    <3>2. \A a, b \in Nat : [worker[w] EXCEPT !.pc = "leased", !.step = a, !.fence = b] \in WorkerRecord
      BY <3>1 DEF WorkerRecord
    <3>. QED
      BY <2>3, <3>2
  <2>. QED
    BY <1>15, <2>1, <2>2, <2>4, WorkerBecomes DEF ClaimGranted
<1>16. ASSUME NEW w \in Workers, NEW r \in Runs, ClaimRefused(w, r) PROVE TypeOK'
  BY <1>16, WorkerGivesUp DEF ClaimRefused
<1>17. ASSUME NEW w \in Workers, NEW r \in Runs, NEW c \in Contexts, BindContext(w, r, c) PROVE TypeOK'
  <2>1. steps' \in [Runs -> Seq(StepRecord)]
    <3>1. InFlight(r)
      BY <1>17 DEF BindContext, CheckExecutionLease
    <3>. QED
      BY <1>17, <3>1, StoredShapes, CurrentStepType, SaveStep DEF BindContext
  <2>2. [worker[w] EXCEPT !.pc = "working"] \in WorkerRecord
    <3>1. worker[w] \in WorkerRecord
      OBVIOUS
    <3>. QED
      BY <3>1 DEF WorkerRecord
  <2>. QED
    BY <1>17, <2>1, <2>2, WorkerBecomes DEF BindContext
<1>18. ASSUME NEW w \in Workers, NEW r \in Runs, NEW q \in Queries, ReserveSource(w, r, q) PROVE TypeOK'
  <2>1. InFlight(r)
    BY <1>18 DEF ReserveSource, CheckExecutionLease
  <2>2. [CurrentStep(r) EXCEPT !.reserved = @ \cup {q}] \in StepRecord
    BY <2>1, CurrentStepType DEF StepRecord
  <2>3. [run[r] EXCEPT !.queries = @ + 1, !.rows = @ + q.limit] \in RunRecord
    <3>1. q.limit \in Nat
      BY BudgetAssumption
    <3>2. run[r].queries + 1 \in Nat /\ run[r].rows + q.limit \in Nat
      BY <3>1 DEF RunRecord
    <3>3. \A a, b \in Nat : [run[r] EXCEPT !.queries = a, !.rows = b] \in RunRecord
      BY StoredShapes DEF RunRecord
    <3>. QED
      BY <3>2, <3>3
  <2>4. steps' \in [Runs -> Seq(StepRecord)]
    BY <1>18, <2>1, <2>2, CurrentStepType, SaveStep DEF ReserveSource
  <2>5. run' \in [Runs -> RunRecord]
    BY <1>18, <2>3, SaveRun DEF ReserveSource
  <2>. QED
    BY <1>18, <2>4, <2>5 DEF ReserveSource
<1>19. ASSUME NEW w \in Workers, NEW r \in Runs, NEW o \in Outcomes, NEW d \in Patches \cup {None},
              NEW t \in TokenCounts \cup {0}, SubmitResult(w, r, o, d, t)
       PROVE  TypeOK'
  <2>1. PICK verdict \in validateExecutionResult(r, o, d) :
           /\ Becomes(w, [worker[w] EXCEPT !.pc = "submitted", !.outcome = o, !.digest = d,
                                           !.tokens = t, !.status = verdict[1], !.stage = verdict[2]])
           /\ Fault \/ UNCHANGED env
    BY <1>19 DEF SubmitResult
  <2>2. verdict[1] \in Statuses /\ verdict[2] \in Stages
    BY DEF validateExecutionResult, validateDiagnosis, validateRecovery, Stay, RunRecord, Statuses,
           Stages, Outcomes
  <2>3. t \in 0 .. Charge
    BY BudgetAssumption
  <2>4. [worker[w] EXCEPT !.pc = "submitted", !.outcome = o, !.digest = d,
                          !.tokens = t, !.status = verdict[1], !.stage = verdict[2]] \in WorkerRecord
    <3>1. worker[w] \in WorkerRecord
      OBVIOUS
    <3>2. \A st \in Statuses, sg \in Stages, n \in 0 .. Charge :
             [worker[w] EXCEPT !.pc = "submitted", !.outcome = o, !.digest = d,
                               !.tokens = n, !.status = st, !.stage = sg] \in WorkerRecord
      BY <3>1 DEF WorkerRecord
    <3>. QED
      BY <2>2, <2>3, <3>2
  <2>. QED
    BY <1>19, <2>1, <2>4, WorkerBecomes, EnvCounts DEF SubmitResult
<1>20. ASSUME NEW w \in Workers, NEW r \in Runs, CommitResult(w, r) PROVE TypeOK'
  <2>1. worker[w].status \in Statuses /\ worker[w].stage \in Stages /\ worker[w].outcome \in Outcomes
    BY <1>20 DEF CommitResult, SubmittedWhole, Statuses
  <2>2. InFlight(r)
    BY <1>20 DEF CommitResult, Committable, CheckExecutionLease
  <2>3. [CurrentStep(r) EXCEPT !.outcome = worker[w].outcome, !.digest = worker[w].digest] \in StepRecord
    BY <2>1, <2>2, CurrentStepType DEF StepRecord, WorkerRecord
  <2>4. steps' \in [Runs -> Seq(StepRecord)]
    BY <1>20, <2>2, <2>3, CurrentStepType, SaveStep DEF CommitResult
  <2>5. run' \in [Runs -> RunRecord]
    BY <1>20, <2>1, CompletedShape, SaveRun DEF CommitResult
  <2>6. worker' \in [Workers -> WorkerRecord] /\ env' \in [faults : Nat, controls : Nat, changes : Nat]
    BY <1>20, WorkerGivesUp, EnvCounts DEF CommitResult
  <2>. QED
    BY <1>20, <2>4, <2>5, <2>6 DEF CommitResult
<1>21. ASSUME NEW w \in Workers, NEW r \in Runs, ResultNotTaken(w, r) \/ LeaseLost(w, r) PROVE TypeOK'
  BY <1>21, WorkerGivesUp DEF ResultNotTaken, LeaseLost
<1>22. ASSUME NEW w \in Workers, Crash(w) PROVE TypeOK'
  BY <1>22, WorkerGivesUp, EnvCounts DEF Crash
<1>. QED
  BY <1>1, <1>2, <1>3, <1>4, <1>5, <1>6, <1>7, <1>8, <1>9, <1>10, <1>11, <1>12, <1>13, <1>14,
     <1>15, <1>16, <1>17, <1>18, <1>19, <1>20, <1>21, <1>22
  DEF Next, RunStep, WorkerStep, Control, Pause, Cancel

-----------------------------------------------------------------------------
(* What a step does to the rows of a run *)

\* The steps keep their number, stages and outcomes; fences only grow and
\* no lease is given out.
StepsKept(q) ==
    /\ Len(steps'[q]) = Len(steps[q])
    /\ \A i \in 1 .. Len(steps[q]) :
          /\ steps'[q][i].stage = steps[q][i].stage
          /\ steps'[q][i].outcome = steps[q][i].outcome
          /\ steps[q][i].fence <= steps'[q][i].fence
          /\ steps'[q][i].lease = "live" => steps[q][i].lease = "live"

\* The run keeps its stage and its tokens; another status takes a version.
RunKept(q) ==
    /\ run'[q].stage = run[q].stage
    /\ run'[q].charged = run[q].charged /\ run'[q].actual = run[q].actual
    /\ run'[q].status = "reconciling" => run[q].status = "reconciling" \/ EffectInFlight(q)
    /\ \/ run'[q].version = run[q].version /\ run'[q].status = run[q].status
       \/ run'[q].version = run[q].version + 1 /\ run'[q].status \notin {"absent", "creating"}
       \/ /\ run'[q].version = run[q].version
          /\ run[q].status = "absent" /\ run'[q].status = "creating"

RowsKept(q) == RunKept(q) /\ StepsKept(q)

\* A row nobody writes is kept.
LEMMA UnchangedRunKept ==
    ASSUME NEW q \in Runs, run'[q] = run[q]
    PROVE  RunKept(q)
BY DEF RunKept

\* Steps nobody writes are kept.
LEMMA UnchangedStepsKept ==
    ASSUME TypeOK, NEW q \in Runs, steps'[q] = steps[q]
    PROVE  StepsKept(q)
<1>1. \A i \in 1 .. Len(steps[q]) : steps[q][i] \in StepRecord
  BY DEF TypeOK
<1>2. \A i \in 1 .. Len(steps[q]) : steps[q][i].fence \in Nat
  BY <1>1 DEF StepRecord
<1>. QED
  BY <1>2 DEF StepsKept

\* Saving the newest step with its stage, its outcome, no older fence and no
\* new lease.
LEMMA SaveStepKeeps ==
    ASSUME TypeOK, NEW r \in Runs, InFlight(r), NEW st \in StepRecord, saveExecutionStep(r, st),
           st.stage = CurrentStep(r).stage, st.outcome = CurrentStep(r).outcome,
           CurrentStep(r).fence <= st.fence, st.lease = "live" => CurrentStep(r).lease = "live"
    PROVE  \A q \in Runs : StepsKept(q)
<1>1. StepNumber(r) > 0
  BY DEF InFlight
<1>2. ASSUME NEW q \in Runs, q # r PROVE StepsKept(q)
  BY <1>1, <1>2, SaveStep, UnchangedStepsKept
<1>3. StepsKept(r)
  <2>1. \A i \in 1 .. Len(steps[r]) : steps[r][i] \in StepRecord
    BY DEF TypeOK
  <2>2. \A i \in 1 .. Len(steps[r]) : steps[r][i].fence \in Nat
    BY <2>1 DEF StepRecord
  <2>. QED
    BY <1>1, <2>2, SaveStep DEF StepsKept, CurrentStep, StepNumber
<1>. QED
  BY <1>2, <1>3

\* Saving the run with another status only.
LEMMA SaveStatusKeeps ==
    ASSUME TypeOK, NEW r \in Runs, NEW st \in Statuses \ {"absent", "creating"},
           saveExecution(r, [run[r] EXCEPT !.status = st]),
           st = "reconciling" => EffectInFlight(r)
    PROVE  \A q \in Runs : RunKept(q)
<1>1. [run[r] EXCEPT !.status = st] \in RunRecord /\ run[r] \in RunRecord
  BY StoredShapes
<1>2. ASSUME NEW q \in Runs, q # r PROVE RunKept(q)
  BY <1>1, <1>2, SaveRun, UnchangedRunKept
<1>3. run'[r] = [[run[r] EXCEPT !.status = st] EXCEPT !.version = run[r].version + 1]
  BY <1>1, SaveRun
<1>4. RunKept(r)
  BY <1>1, <1>3 DEF RunKept, RunRecord
<1>. QED
  BY <1>2, <1>4

\* Taking the step away from its worker (ControlExecution) keeps every result.
LEMMA FencedKeeps ==
    ASSUME TypeOK, NEW r \in Runs, InFlight(r), saveExecutionStep(r, Fenced(CurrentStep(r)))
    PROVE  \A q \in Runs : StepsKept(q)
<1>1. CurrentStep(r) \in StepRecord /\ Fenced(CurrentStep(r)) \in StepRecord
  BY CurrentStepType, StoredShapes
<1>2. /\ Fenced(CurrentStep(r)).stage = CurrentStep(r).stage
      /\ Fenced(CurrentStep(r)).outcome = CurrentStep(r).outcome
      /\ CurrentStep(r).fence <= Fenced(CurrentStep(r)).fence
      /\ Fenced(CurrentStep(r)).lease = "live" => CurrentStep(r).lease = "live"
  BY <1>1 DEF Fenced, StepRecord
<1>. QED
  BY <1>1, <1>2, SaveStepKeeps

\* The end of a lease keeps every result.
LEMMA ExpiredKeeps ==
    ASSUME TypeOK, NEW r \in Runs, InFlight(r),
           saveExecutionStep(r, [CurrentStep(r) EXCEPT !.lease = "expired"])
    PROVE  \A q \in Runs : StepsKept(q)
<1>1. CurrentStep(r) \in StepRecord /\ [CurrentStep(r) EXCEPT !.lease = "expired"] \in StepRecord
  BY CurrentStepType, StoredShapes
<1>. QED
  BY <1>1, SaveStepKeeps DEF StepRecord

\* So does binding a context (RecordExecutionArtifact).
LEMMA DisclosedKeeps ==
    ASSUME TypeOK, NEW r \in Runs, InFlight(r), NEW c \in Contexts,
           saveExecutionStep(r, Disclosed(CurrentStep(r), c))
    PROVE  \A q \in Runs : StepsKept(q)
<1>1. CurrentStep(r) \in StepRecord /\ Disclosed(CurrentStep(r), c) \in StepRecord
  BY CurrentStepType, StoredShapes
<1>2. /\ Disclosed(CurrentStep(r), c).stage = CurrentStep(r).stage
      /\ Disclosed(CurrentStep(r), c).outcome = CurrentStep(r).outcome
      /\ CurrentStep(r).fence <= Disclosed(CurrentStep(r), c).fence
      /\ Disclosed(CurrentStep(r), c).lease = "live" => CurrentStep(r).lease = "live"
  BY <1>1 DEF Disclosed, StepRecord
<1>. QED
  BY <1>1, <1>2, SaveStepKeeps

\* So does reserving a source query (ReserveExecutionSource).
LEMMA ReservedKeeps ==
    ASSUME TypeOK, NEW r \in Runs, InFlight(r), NEW k \in Queries,
           saveExecutionStep(r, [CurrentStep(r) EXCEPT !.reserved = @ \cup {k}])
    PROVE  \A q \in Runs : StepsKept(q)
<1>1. CurrentStep(r) \in StepRecord
  BY CurrentStepType
<1>2. [CurrentStep(r) EXCEPT !.reserved = @ \cup {k}] \in StepRecord
  BY <1>1 DEF StepRecord
<1>. QED
  BY <1>1, <1>2, SaveStepKeeps DEF StepRecord

\* Only a claim and a result touch more of a run's rows than that.
LEMMA StepKeepsRows ==
    ASSUME TypeOK, [Next]_vars, NEW q \in Runs,
           \A w \in Workers : ~ClaimGranted(w, q) /\ ~CommitResult(w, q)
    PROVE  RowsKept(q)
<1>. USE DEF RowsKept
<1>1. ASSUME UNCHANGED <<run, steps>> PROVE RowsKept(q)
  BY <1>1, UnchangedRunKept, UnchangedStepsKept
<1>2. CASE UNCHANGED vars
  BY <1>1, <1>2 DEF vars
<1>3. ASSUME NEW r \in Runs, CountActiveRuns(r) PROVE RowsKept(q)
  <2>1. run[r] \in RunRecord
    BY StoredShapes
  <2>2. /\ run' = [run EXCEPT ![r] = [run[r] EXCEPT !.status = "creating"]]
        /\ steps' = steps /\ run[r].status = "absent"
    BY <1>3 DEF CountActiveRuns
  <2>3. RunKept(r)
    <3>1. run'[r] = [run[r] EXCEPT !.status = "creating"]
      BY <2>2 DEF TypeOK
    <3>. QED
      BY <2>1, <2>2, <3>1 DEF RunKept, RunRecord
  <2>4. q # r => run'[q] = run[q]
    BY <2>2 DEF TypeOK
  <2>. QED
    BY <2>2, <2>3, <2>4, UnchangedRunKept, UnchangedStepsKept
<1>4. ASSUME NEW r \in Runs, InsertExecution(r) PROVE RowsKept(q)
  <2>1. saveExecution(r, [run[r] EXCEPT !.status = "ready"]) /\ steps' = steps
    BY <1>4 DEF InsertExecution
  <2>. QED
    BY <2>1, SaveStatusKeeps, UnchangedStepsKept DEF Statuses
<1>5. ASSUME NEW r \in Runs, NEW st \in {"paused", "cancelled"}, Halts(r, st) PROVE RowsKept(q)
  <2>1. CASE EffectInFlight(r)
    <3>1. saveExecution(r, [run[r] EXCEPT !.status = "reconciling"]) /\ steps' = steps
      BY <1>5, <2>1 DEF Halts
    <3>. QED
      BY <2>1, <3>1, SaveStatusKeeps, UnchangedStepsKept DEF Statuses
  <2>2. CASE ~EffectInFlight(r)
    <3>1. saveExecution(r, [run[r] EXCEPT !.status = st])
      BY <1>5, <2>2 DEF Halts
    <3>2. RunKept(q)
      BY <3>1, SaveStatusKeeps DEF Statuses
    <3>3. CASE InFlight(r)
      <4>1. saveExecutionStep(r, Fenced(CurrentStep(r)))
        BY <1>5, <2>2, <3>3 DEF Halts
      <4>. QED
        BY <3>2, <3>3, <4>1, FencedKeeps
    <3>4. CASE ~InFlight(r)
      BY <1>5, <2>2, <3>2, <3>4, UnchangedStepsKept DEF Halts
    <3>. QED
      BY <3>3, <3>4
  <2>. QED
    BY <2>1, <2>2
<1>6. ASSUME NEW r \in Runs, Resume(r) PROVE RowsKept(q)
  <2>1. saveExecution(r, [run[r] EXCEPT !.status = "ready"]) /\ steps' = steps
    BY <1>6 DEF Resume
  <2>. QED
    BY <2>1, SaveStatusKeeps, UnchangedStepsKept DEF Statuses
<1>7. ASSUME NEW r \in Runs, Reconcile(r) PROVE RowsKept(q)
  <2>1. /\ EffectInFlight(r) /\ InFlight(r)
        /\ saveExecution(r, [run[r] EXCEPT !.status = "reconciling"])
        /\ saveExecutionStep(r, Fenced(CurrentStep(r)))
    BY <1>7 DEF Reconcile, EffectInFlight
  <2>. QED
    BY <2>1, SaveStatusKeeps, FencedKeeps DEF Statuses
<1>8. ASSUME NEW r \in Runs, LeaseExpires(r) \/ DeadlinePasses(r) PROVE RowsKept(q)
  <2>1. run' = run
    BY <1>8 DEF LeaseExpires, DeadlinePasses
  <2>2. \/ steps' = steps
        \/ InFlight(r) /\ saveExecutionStep(r, [CurrentStep(r) EXCEPT !.lease = "expired"])
    BY <1>8 DEF LeaseExpires, DeadlinePasses, Expire, Leased
  <2>. QED
    BY <2>1, <2>2, UnchangedRunKept, UnchangedStepsKept, ExpiredKeeps
<1>9. ASSUME NEW r \in Runs, \/ OwnerReads(r) \/ ControlRefused(r)
                              \/ HeadsChange(r) \/ OwnerRevoked(r)
      PROVE  RowsKept(q)
  BY <1>1, <1>9 DEF OwnerReads, ControlRefused, HeadsChange, OwnerRevoked
<1>10. ASSUME NEW w \in Workers, NEW r \in Runs,
              \/ BeginClaim(w, r) \/ ClaimRefused(w, r) \/ ResultNotTaken(w, r) \/ LeaseLost(w, r)
       PROVE  RowsKept(q)
  BY <1>1, <1>10 DEF BeginClaim, ClaimRefused, ResultNotTaken, LeaseLost
<1>11. ASSUME NEW w \in Workers, NEW r \in Runs, ClaimBlocked(w, r) PROVE RowsKept(q)
  <2>1. saveExecution(r, [run[r] EXCEPT !.status = "blocked"]) /\ steps' = steps
    BY <1>11 DEF ClaimBlocked
  <2>. QED
    BY <2>1, SaveStatusKeeps, UnchangedStepsKept DEF Statuses
<1>12. ASSUME NEW w \in Workers, NEW r \in Runs, ClaimGranted(w, r) PROVE RowsKept(q)
  <2>1. q # r
    BY <1>12
  <2>2. saveExecution(r, Claimed(r)) /\ steps' = [steps EXCEPT ![r] = ClaimedSteps(r)]
    BY <1>12 DEF ClaimGranted
  <2>3. run'[q] = run[q] /\ steps'[q] = steps[q]
    BY <2>1, <2>2 DEF saveExecution, TypeOK
  <2>. QED
    BY <2>3, UnchangedRunKept, UnchangedStepsKept
<1>13. ASSUME NEW w \in Workers, NEW r \in Runs, NEW c \in Contexts, BindContext(w, r, c)
       PROVE  RowsKept(q)
  <2>1. InFlight(r) /\ run' = run /\ saveExecutionStep(r, Disclosed(CurrentStep(r), c))
    BY <1>13 DEF BindContext, CheckExecutionLease
  <2>. QED
    BY <2>1, UnchangedRunKept, DisclosedKeeps
<1>14. ASSUME NEW w \in Workers, NEW r \in Runs, NEW k \in Queries, ReserveSource(w, r, k)
       PROVE  RowsKept(q)
  <2>1. /\ InFlight(r) /\ saveExecutionStep(r, [CurrentStep(r) EXCEPT !.reserved = @ \cup {k}])
        /\ saveExecution(r, [run[r] EXCEPT !.queries = @ + 1, !.rows = @ + k.limit])
        /\ run[r].status \in {"running", "reconciling"}
    BY <1>14 DEF ReserveSource, CheckExecutionLease
  <2>2. StepsKept(q)
    BY <2>1, ReservedKeeps
  <2>3. run[r] \in RunRecord /\ run \in [Runs -> RunRecord]
    BY DEF TypeOK
  <2>4. q # r => run'[q] = run[q]
    BY <2>1, <2>3 DEF saveExecution
  <2>5. RunKept(r)
    BY <2>1, <2>3 DEF saveExecution, RunKept, RunRecord
  <2>. QED
    BY <2>2, <2>4, <2>5, UnchangedRunKept
<1>15. ASSUME NEW w \in Workers, NEW r \in Runs, NEW o \in Outcomes, NEW d \in Patches \cup {None},
              NEW t \in TokenCounts \cup {0}, SubmitResult(w, r, o, d, t)
       PROVE  RowsKept(q)
  BY <1>1, <1>15 DEF SubmitResult
<1>16. ASSUME NEW w \in Workers, NEW r \in Runs, CommitResult(w, r) PROVE RowsKept(q)
  <2>1. q # r
    BY <1>16
  <2>2. run'[q] = run[q] /\ steps'[q] = steps[q]
    BY <1>16, <2>1 DEF CommitResult, saveExecution, saveExecutionStep, TypeOK
  <2>. QED
    BY <2>2, UnchangedRunKept, UnchangedStepsKept
<1>17. ASSUME NEW w \in Workers, Crash(w) PROVE RowsKept(q)
  BY <1>1, <1>17 DEF Crash
<1>. QED
  BY <1>2, <1>3, <1>4, <1>5, <1>6, <1>7, <1>8, <1>9, <1>10, <1>11, <1>12, <1>13, <1>14, <1>15,
     <1>16, <1>17
  DEF Next, RunStep, WorkerStep, Control, Pause, Cancel

\* A claim advances the version, charges a model stage, and either leases the
\* open step under the next fence or opens a step of the run's stage.
LEMMA ClaimEffect ==
    ASSUME TypeOK, NEW w \in Workers, NEW r \in Runs, ClaimGranted(w, r)
    PROVE  /\ run[r].status \in ActiveStatuses /\ worker[w].pc = "claiming" /\ worker[w].run = r
           /\ run'[r].version = run[r].version + 1
           /\ run'[r].stage = run[r].stage /\ run'[r].actual = run[r].actual
           /\ run'[r].status \in {"running", "reconciling"}
           /\ run'[r].status = "reconciling" => run[r].status = "reconciling"
           /\ run[r].stage \in ModelStages =>
                 run'[r].charged = run[r].charged + Charge /\ run[r].charged + Charge <= MaxTokens
           /\ run[r].stage \notin ModelStages => run'[r].charged = run[r].charged
           /\ \A i \in 1 .. Len(steps[r]) :
                 /\ i < Len(steps[r]) \/ ~InFlight(r) => steps'[r][i] = steps[r][i]
                 /\ steps[r][i].fence <= steps'[r][i].fence
           /\ InFlight(r) =>
                 /\ Len(steps'[r]) = Len(steps[r]) /\ Len(steps[r]) > 0
                 /\ steps'[r][Len(steps[r])] = LeasedStep(steps[r][Len(steps[r])])
           /\ ~InFlight(r) =>
                 /\ Len(steps'[r]) = Len(steps[r]) + 1
                 /\ steps'[r][Len(steps[r]) + 1] = LeasedStep(NewStep(run[r].stage))
           /\ request' = request
<1>1. run[r] \in RunRecord /\ Claimed(r) \in RunRecord /\ saveExecution(r, Claimed(r))
  BY StoredShapes, ClaimedShape DEF ClaimGranted
<1>2. run'[r] = [Claimed(r) EXCEPT !.version = run[r].version + 1]
  BY <1>1, SaveRun
<1>3. /\ run'[r].version = run[r].version + 1 /\ run'[r].status = Claimed(r).status
      /\ run'[r].stage = Claimed(r).stage /\ run'[r].actual = Claimed(r).actual
      /\ run'[r].charged = Claimed(r).charged
  BY <1>1, <1>2 DEF RunRecord
<1>4. /\ Claimed(r).stage = run[r].stage /\ Claimed(r).actual = run[r].actual
      /\ Claimed(r).status = IF run[r].status = "reconciling" THEN run[r].status ELSE "running"
      /\ NeedsModel(r) => Claimed(r).charged = run[r].charged + Charge
      /\ ~NeedsModel(r) => Claimed(r).charged = run[r].charged
  <2>1. CASE NeedsModel(r)
    BY <1>1, <2>1 DEF Claimed, Charged, RunRecord
  <2>2. CASE ~NeedsModel(r)
    BY <1>1, <2>2 DEF Claimed, Charged, RunRecord
  <2>. QED
    BY <2>1, <2>2
<1>5. /\ run[r].status \in ActiveStatuses /\ worker[w].pc = "claiming" /\ worker[w].run = r
      /\ NeedsModel(r) => run[r].charged + Charge <= MaxTokens
  BY DEF ClaimGranted, Grantable, Claimable, ModelBudgetLeft
<1>6. /\ \A i \in 1 .. Len(steps[r]) :
            /\ i < Len(steps[r]) \/ ~InFlight(r) => steps'[r][i] = steps[r][i]
            /\ steps[r][i].fence <= steps'[r][i].fence
      /\ InFlight(r) =>
            /\ Len(steps'[r]) = Len(steps[r]) /\ Len(steps[r]) > 0
            /\ steps'[r][Len(steps[r])] = LeasedStep(steps[r][Len(steps[r])])
      /\ ~InFlight(r) =>
            /\ Len(steps'[r]) = Len(steps[r]) + 1
            /\ steps'[r][Len(steps[r]) + 1] = LeasedStep(NewStep(run[r].stage))
  <2>1. \A i \in 1 .. Len(steps[r]) : steps[r][i] \in StepRecord
    BY DEF TypeOK
  <2>2. \A i \in 1 .. Len(steps[r]) : steps[r][i].fence \in Nat
    BY <2>1 DEF StepRecord
  <2>3. CASE InFlight(r)
    <3>1. CurrentStep(r) \in StepRecord /\ StepNumber(r) > 0
      BY <2>3, CurrentStepType
    <3>2. saveExecutionStep(r, LeasedStep(CurrentStep(r)))
      BY <2>3 DEF ClaimGranted, ClaimedSteps, saveExecutionStep
    <3>3. LeasedStep(CurrentStep(r)).fence = CurrentStep(r).fence + 1
      BY <3>1 DEF LeasedStep, StepRecord
    <3>4. LeasedStep(CurrentStep(r)) \in StepRecord
      BY <3>1, StoredShapes
    <3>. QED
      BY <2>2, <2>3, <3>1, <3>2, <3>3, <3>4, SaveStep DEF CurrentStep, StepNumber
  <2>4. CASE ~InFlight(r)
    <3>1. steps' = [steps EXCEPT ![r] = Append(steps[r], LeasedStep(NewStep(run[r].stage)))]
      BY <2>4 DEF ClaimGranted, ClaimedSteps
    <3>2. LeasedStep(NewStep(run[r].stage)) \in StepRecord
      BY StoredShapes
    <3>3. /\ Len(steps'[r]) = Len(steps[r]) + 1
          /\ \A i \in 1 .. Len(steps[r]) : steps'[r][i] = steps[r][i]
          /\ steps'[r][Len(steps[r]) + 1] = LeasedStep(NewStep(run[r].stage))
      BY <3>1, <3>2, AppendStep
    <3>. QED
      BY <2>2, <2>4, <3>3
  <2>. QED
    BY <2>3, <2>4
<1>7. request' = request
  BY DEF ClaimGranted
<1>. QED
  BY <1>3, <1>4, <1>5, <1>6, <1>7 DEF NeedsModel

\* A result closes the newest step, advances the version and reports no more
\* tokens than one charge; a run that was reconciling ends or blocks.
LEMMA CommitEffect ==
    ASSUME TypeOK, SubmittedWhole, NEW w \in Workers, NEW r \in Runs, CommitResult(w, r)
    PROVE  /\ InFlight(r) /\ Len(steps'[r]) = Len(steps[r]) /\ Len(steps[r]) > 0
           /\ \A i \in 1 .. Len(steps[r]) :
                 /\ i < Len(steps[r]) => steps'[r][i] = steps[r][i]
                 /\ steps'[r][i].fence = steps[r][i].fence
           /\ steps'[r][Len(steps[r])].outcome # None
           /\ run'[r].version = run[r].version + 1
           /\ run'[r].charged = run[r].charged
           /\ run'[r].actual = run[r].actual + worker[w].tokens
           /\ worker[w].tokens # 0 => run[r].stage \in ModelStages
           /\ run'[r].status \in {"ready", "blocked", "completed", "cancelled"}
           /\ request' = request
<1>1. /\ worker[w].outcome \in Outcomes /\ worker[w].status \in {"ready", "blocked", "completed"}
      /\ worker[w].stage \in Stages /\ worker[w].run = r /\ CheckExecutionLease(w)
  BY DEF CommitResult, Committable, SubmittedWhole
<1>2. InFlight(r) /\ worker[w].role = ExecutionRole(run[r].stage)
  BY <1>1 DEF CheckExecutionLease
<1>3. CurrentStep(r) \in StepRecord /\ StepNumber(r) > 0
  BY <1>2, CurrentStepType
<1>. DEFINE st == [CurrentStep(r) EXCEPT !.outcome = worker[w].outcome, !.digest = worker[w].digest]
<1>4. st \in StepRecord /\ st.outcome # None /\ st.fence = CurrentStep(r).fence
  BY <1>1, <1>3, NameAssumption DEF StepRecord, TypeOK, WorkerRecord, Outcomes
<1>5. saveExecutionStep(r, st)
  BY DEF CommitResult
<1>6. /\ Len(steps'[r]) = Len(steps[r]) /\ Len(steps[r]) > 0
      /\ \A i \in 1 .. Len(steps[r]) :
            /\ i < Len(steps[r]) => steps'[r][i] = steps[r][i]
            /\ steps'[r][i].fence = steps[r][i].fence
      /\ steps'[r][Len(steps[r])].outcome # None
  <2>. HIDE DEF st
  <2>1. Len(steps[r]) \in Nat
    BY DEF TypeOK
  <2>. QED
    BY <1>3, <1>4, <1>5, <2>1, SaveStep DEF CurrentStep, StepNumber
<1>7. run[r] \in RunRecord /\ worker[w].tokens \in Nat
  BY BudgetAssumption DEF TypeOK, WorkerRecord
<1>8. run'[r] = [Completed(w, r) EXCEPT !.version = run[r].version + 1]
  BY <1>1, CompletedShape, SaveRun DEF CommitResult, Statuses
<1>9. /\ run'[r].version = run[r].version + 1 /\ run'[r].charged = run[r].charged
      /\ run'[r].actual = run[r].actual + worker[w].tokens
      /\ run'[r].status \in {"ready", "blocked", "completed", "cancelled"}
  <2>1. CASE run[r].status = "reconciling"
    BY <1>1, <1>7, <1>8, <2>1 DEF Completed, RunRecord
  <2>2. CASE run[r].status # "reconciling"
    BY <1>1, <1>7, <1>8, <2>2 DEF Completed, RunRecord
  <2>. QED
    BY <2>1, <2>2
<1>10. worker[w].tokens # 0 => run[r].stage \in ModelStages
  BY <1>2, <1>7, RoleOfStage DEF SubmittedWhole, RunRecord
<1>. QED
  BY <1>2, <1>6, <1>9, <1>10 DEF CommitResult

-----------------------------------------------------------------------------
(* The rows of a run stay sound *)

\* StepHistorySound, ReconcilingHasOpenEffect and TokensReserved of one run.
RunSound(q) ==
    /\ \A i \in 1 .. Len(steps[q]) : i < Len(steps[q]) => steps[q][i].outcome # None
    /\ InFlight(q) => CurrentStep(q).stage = run[q].stage
    /\ run[q].status = "reconciling" => InFlight(q) /\ CurrentStep(q).stage \in EffectStages
    /\ run[q].actual <= run[q].charged
    /\ InFlight(q) /\ run[q].stage \in ModelStages => run[q].actual + Charge <= run[q].charged
    /\ run[q].charged <= MaxTokens

\* The three invariants say that every run is sound.
LEMMA SoundRuns ==
    /\ (StepHistorySound /\ ReconcilingHasOpenEffect /\ TokensReserved)
          <=> \A q \in Runs : RunSound(q)
    /\ (StepHistorySound /\ ReconcilingHasOpenEffect /\ TokensReserved)'
          <=> \A q \in Runs : RunSound(q)'
<1>. USE DEF StepHistorySound, ReconcilingHasOpenEffect, TokensReserved, RunSound, StepNumber
<1>1. (StepHistorySound /\ ReconcilingHasOpenEffect /\ TokensReserved) <=> \A q \in Runs : RunSound(q)
  OBVIOUS
<1>2. (StepHistorySound /\ ReconcilingHasOpenEffect /\ TokensReserved)' <=> \A q \in Runs : RunSound(q)'
  OBVIOUS
<1>. QED
  BY <1>1, <1>2

\* A run whose rows are kept stays sound: a decision turns it to reconciling
\* only over the open step of an external write.
LEMMA KeptRunSound ==
    ASSUME TypeOK, NEW q \in Runs, RunSound(q), RowsKept(q)
    PROVE  RunSound(q)'
<1>1. Len(steps[q]) \in Nat
  BY DEF TypeOK
<1>2. InFlight(q)' <=> InFlight(q)
  BY <1>1 DEF InFlight, CurrentStep, StepNumber, RowsKept, StepsKept
<1>3. InFlight(q) => CurrentStep(q)'.stage = CurrentStep(q).stage
  BY <1>1 DEF InFlight, CurrentStep, StepNumber, RowsKept, StepsKept
<1>4. \A i \in 1 .. Len(steps'[q]) : i < Len(steps'[q]) => steps'[q][i].outcome # None
  BY <1>1 DEF RunSound, RowsKept, StepsKept
<1>. QED
  BY <1>2, <1>3, <1>4 DEF RunSound, RowsKept, RunKept, EffectInFlight

\* A claim opens a step only when none is open, and charges before it leases.
LEMMA ClaimRunSound ==
    ASSUME TypeOK, NEW w \in Workers, NEW q \in Runs, RunSound(q), ClaimGranted(w, q)
    PROVE  RunSound(q)'
<1>1. Len(steps[q]) \in Nat /\ run[q] \in RunRecord /\ run[q].stage \in Stages
  BY DEF TypeOK, RunRecord
<1>2. run[q].actual \in Nat /\ run[q].charged \in Nat /\ Charge \in Nat
  BY <1>1, BudgetAssumption DEF RunRecord
<1>3. /\ \A i \in 1 .. Len(steps'[q]) : i < Len(steps'[q]) => steps'[q][i].outcome # None
      /\ InFlight(q)' /\ CurrentStep(q)'.stage = run[q].stage
  <2>1. CASE InFlight(q)
    <3>1. CurrentStep(q) \in StepRecord /\ CurrentStep(q).outcome = None
      BY <2>1, CurrentStepType DEF InFlight
    <3>2. /\ LeasedStep(CurrentStep(q)).outcome = None
          /\ LeasedStep(CurrentStep(q)).stage = run[q].stage
      BY <2>1, <3>1 DEF LeasedStep, StepRecord, RunSound
    <3>3. /\ Len(steps'[q]) = Len(steps[q]) /\ Len(steps[q]) > 0
          /\ steps'[q][Len(steps[q])] = LeasedStep(CurrentStep(q))
          /\ \A i \in 1 .. Len(steps[q]) : i < Len(steps[q]) => steps'[q][i] = steps[q][i]
      BY <2>1, ClaimEffect DEF CurrentStep, StepNumber
    <3>4. \A i \in 1 .. Len(steps'[q]) : i < Len(steps'[q]) => steps'[q][i].outcome # None
      BY <3>3 DEF RunSound
    <3>5. InFlight(q)' /\ CurrentStep(q)'.stage = run[q].stage
      BY <3>2, <3>3 DEF InFlight, CurrentStep, StepNumber
    <3>. QED
      BY <3>4, <3>5
  <2>2. CASE ~InFlight(q)
    <3>1. \A i \in 1 .. Len(steps[q]) : steps[q][i].outcome # None
      BY <1>1, <2>2 DEF RunSound, InFlight, CurrentStep, StepNumber
    <3>2. /\ LeasedStep(NewStep(run[q].stage)).outcome = None
          /\ LeasedStep(NewStep(run[q].stage)).stage = run[q].stage
      BY DEF LeasedStep, NewStep
    <3>3. /\ Len(steps'[q]) = Len(steps[q]) + 1
          /\ steps'[q][Len(steps[q]) + 1] = LeasedStep(NewStep(run[q].stage))
          /\ \A i \in 1 .. Len(steps[q]) : steps'[q][i] = steps[q][i]
      BY <2>2, ClaimEffect
    <3>. QED
      BY <1>1, <3>1, <3>2, <3>3 DEF InFlight, CurrentStep, StepNumber
  <2>. QED
    BY <2>1, <2>2
<1>4. run'[q].status = "reconciling" => CurrentStep(q)'.stage \in EffectStages
  <2>1. run'[q].status = "reconciling" => run[q].status = "reconciling"
    BY ClaimEffect
  <2>. QED
    BY <1>3, <2>1 DEF RunSound
<1>5. /\ run'[q].actual <= run'[q].charged /\ run'[q].charged <= MaxTokens
      /\ run'[q].stage \in ModelStages => run'[q].actual + Charge <= run'[q].charged
  <2>1. CASE run[q].stage \in ModelStages
    <3>1. /\ run'[q].charged = run[q].charged + Charge /\ run[q].charged + Charge <= MaxTokens
          /\ run'[q].actual = run[q].actual
      BY <2>1, ClaimEffect
    <3>2. run[q].actual <= run[q].charged
      BY DEF RunSound
    <3>. QED
      BY <1>2, <3>1, <3>2
  <2>2. CASE run[q].stage \notin ModelStages
    BY <1>2, <2>2, ClaimEffect DEF RunSound
  <2>. QED
    BY <2>1, <2>2
<1>. QED
  BY <1>3, <1>4, <1>5, ClaimEffect DEF RunSound

\* A result uses at most the charge of the claim it answers.
LEMMA CommitRunSound ==
    ASSUME TypeOK, SubmittedWhole, NEW w \in Workers, NEW q \in Runs, RunSound(q), CommitResult(w, q)
    PROVE  RunSound(q)'
<1>1. /\ Len(steps[q]) \in Nat /\ run[q].actual \in Nat /\ run[q].charged \in Nat
      /\ worker[w].tokens \in 0 .. Charge /\ Charge \in Nat
  <2>1. run[q] \in RunRecord /\ worker[w] \in WorkerRecord /\ Len(steps[q]) \in Nat
    BY DEF TypeOK
  <2>2. run[q].actual \in Nat /\ run[q].charged \in Nat
    BY <2>1 DEF RunRecord
  <2>3. worker[w].tokens \in 0 .. Charge
    BY <2>1 DEF WorkerRecord
  <2>. QED
    BY <2>1, <2>2, <2>3, BudgetAssumption
<1>2. ~InFlight(q)'
  BY CommitEffect DEF InFlight, CurrentStep, StepNumber
<1>3. \A i \in 1 .. Len(steps'[q]) : i < Len(steps'[q]) => steps'[q][i].outcome # None
  BY <1>1, CommitEffect DEF RunSound
<1>4. run'[q].actual <= run'[q].charged /\ run'[q].charged <= MaxTokens
  <2>1. CASE worker[w].tokens = 0
    BY <1>1, <2>1, CommitEffect DEF RunSound
  <2>2. CASE worker[w].tokens # 0
    <3>1. run[q].actual + Charge <= run[q].charged
      BY <2>2, CommitEffect DEF RunSound
    <3>. QED
      BY <1>1, <3>1, CommitEffect DEF RunSound
  <2>. QED
    BY <2>1, <2>2
<1>. QED
  BY <1>2, <1>3, <1>4, CommitEffect DEF RunSound

\* Every step keeps every run sound.
LEMMA NextRunSound ==
    ASSUME TypeOK, SubmittedWhole, [Next]_vars, NEW q \in Runs, RunSound(q)
    PROVE  RunSound(q)'
<1>1. CASE \E w \in Workers : ClaimGranted(w, q)
  BY <1>1, ClaimRunSound
<1>2. CASE \E w \in Workers : CommitResult(w, q)
  BY <1>2, CommitRunSound
<1>3. CASE \A w \in Workers : ~ClaimGranted(w, q) /\ ~CommitResult(w, q)
  BY <1>3, StepKeepsRows, KeptRunSound
<1>. QED
  BY <1>1, <1>2, <1>3

-----------------------------------------------------------------------------
(* Decisions of owners *)

\* A pending decision stays, goes, or is read from rows that do not change.
LEMMA RequestStep ==
    ASSUME TypeOK, [Next]_vars, NEW q \in Runs
    PROVE  \/ request'[q] \in {request[q], None}
           \/ /\ request'[q] = [version |-> run[q].version, status |-> run[q].status,
                                stage |-> run[q].stage, step |-> StepNumber(q)]
              /\ run[q].status \notin {"absent", "creating"}
              /\ run' = run /\ steps' = steps
<1>. DEFINE Goal == \/ request'[q] \in {request[q], None}
                    \/ /\ request'[q] = [version |-> run[q].version, status |-> run[q].status,
                                         stage |-> run[q].stage, step |-> StepNumber(q)]
                       /\ run[q].status \notin {"absent", "creating"}
                       /\ run' = run /\ steps' = steps
<1>1. ASSUME request' = request PROVE Goal
  BY <1>1
<1>2. ASSUME NEW r \in Runs, request' = [request EXCEPT ![r] = None] PROVE Goal
  BY <1>2 DEF TypeOK
<1>3. ASSUME NEW r \in Runs, OwnerReads(r) PROVE Goal
  BY <1>3 DEF OwnerReads, TypeOK
<1>4. ASSUME NEW r \in Runs, Control(r) PROVE Goal
  BY <1>2, <1>4
  DEF Control, Pause, Cancel, Halts, Resume, Reconcile, ControlRefused, Decides
<1>5. ASSUME NEW r \in Runs, \/ CountActiveRuns(r) \/ InsertExecution(r) \/ LeaseExpires(r)
                             \/ DeadlinePasses(r) \/ HeadsChange(r) \/ OwnerRevoked(r)
      PROVE  Goal
  BY <1>1, <1>5
  DEF CountActiveRuns, InsertExecution, LeaseExpires, DeadlinePasses, HeadsChange, OwnerRevoked
<1>6. ASSUME NEW w \in Workers, NEW r \in Runs, WorkerStep(w, r) PROVE Goal
  BY <1>1, <1>6
  DEF WorkerStep, BeginClaim, ClaimBlocked, ClaimGranted, ClaimRefused, BindContext, ReserveSource,
      SubmitResult, CommitResult, ResultNotTaken, LeaseLost
<1>7. ASSUME NEW w \in Workers, Crash(w) PROVE Goal
  BY <1>1, <1>7 DEF Crash
<1>8. CASE UNCHANGED vars
  BY <1>1, <1>8 DEF vars
<1>. QED
  BY <1>3, <1>4, <1>5, <1>6, <1>7, <1>8 DEF Next, RunStep

\* The rows of a run change in status, stage or step only with its version.
LEMMA VersionStep ==
    ASSUME TypeOK, SubmittedWhole, [Next]_vars, NEW q \in Runs
    PROVE  \/ run'[q].version = run[q].version + 1 /\ run'[q].status \notin {"absent", "creating"}
           \/ /\ run'[q].version = run[q].version /\ run'[q].stage = run[q].stage
              /\ StepNumber(q)' = StepNumber(q)
              /\ \/ run'[q].status = run[q].status
                 \/ run[q].status = "absent"
<1>1. CASE \E w \in Workers : ClaimGranted(w, q)
  BY <1>1, ClaimEffect
<1>2. CASE \E w \in Workers : CommitResult(w, q)
  BY <1>2, CommitEffect
<1>3. CASE \A w \in Workers : ~ClaimGranted(w, q) /\ ~CommitResult(w, q)
  <2>1. RowsKept(q)
    BY <1>3, StepKeepsRows
  <2>. QED
    BY <2>1 DEF RowsKept, RunKept, StepsKept, StepNumber
<1>. QED
  BY <1>1, <1>2, <1>3

\* A decision read from a version stands for the state of that version.
LEMMA NextDecisions ==
    ASSUME TypeOK, SubmittedWhole, DecisionsPast, VersionIdentifiesDecision, [Next]_vars
    PROVE  DecisionsPast' /\ VersionIdentifiesDecision'
<1>. DEFINE Past(q) == request'[q].version <= run'[q].version
                       /\ run'[q].status \notin {"absent", "creating"}
            Identified(q) == request'[q].version = run'[q].version =>
                                /\ request'[q].status = run'[q].status
                                /\ request'[q].stage = run'[q].stage
                                /\ request'[q].step = StepNumber(q)'
<1>1. ASSUME NEW q \in Runs, request'[q] # None PROVE Past(q) /\ Identified(q)
  <2>1. run[q].version \in Nat
    BY DEF TypeOK, RunRecord
  <2>2. CASE request'[q] = request[q]
    <3>1. /\ request[q].version <= run[q].version
          /\ run[q].status \notin {"absent", "creating"}
      BY <1>1, <2>2 DEF DecisionsPast
    <3>2. request[q].version \in Nat
      BY <1>1, <2>2 DEF TypeOK, RequestRecord
    <3>3. request[q].version = run[q].version =>
             /\ request[q].status = run[q].status
             /\ request[q].stage = run[q].stage
             /\ request[q].step = StepNumber(q)
      BY <1>1, <2>2 DEF VersionIdentifiesDecision
    <3>4. CASE run'[q].version = run[q].version + 1 /\ run'[q].status \notin {"absent", "creating"}
      BY <2>1, <2>2, <3>1, <3>2, <3>4
    <3>5. CASE /\ run'[q].version = run[q].version /\ run'[q].stage = run[q].stage
               /\ StepNumber(q)' = StepNumber(q) /\ run'[q].status = run[q].status
      BY <2>2, <3>1, <3>3, <3>5
    <3>. QED
      BY <3>1, <3>4, <3>5, VersionStep
  <2>3. CASE /\ request'[q] = [version |-> run[q].version, status |-> run[q].status,
                               stage |-> run[q].stage, step |-> StepNumber(q)]
             /\ run[q].status \notin {"absent", "creating"}
             /\ run' = run /\ steps' = steps
    BY <2>1, <2>3 DEF StepNumber
  <2>. QED
    BY <1>1, <2>2, <2>3, RequestStep
<1>. QED
  BY <1>1 DEF DecisionsPast, VersionIdentifiesDecision

-----------------------------------------------------------------------------
(* Workers and their leases *)

\* No step is removed and no fence goes back.
LEMMA FencesGrow ==
    ASSUME TypeOK, SubmittedWhole, [Next]_vars, NEW q \in Runs
    PROVE  /\ Len(steps[q]) <= Len(steps'[q])
           /\ \A i \in 1 .. Len(steps[q]) : steps[q][i].fence <= steps'[q][i].fence
<1>1. Len(steps[q]) \in Nat /\ \A i \in 1 .. Len(steps[q]) : steps[q][i] \in StepRecord
  BY DEF TypeOK
<1>2. \A i \in 1 .. Len(steps[q]) : steps[q][i].fence \in Nat
  BY <1>1 DEF StepRecord
<1>3. CASE \E w \in Workers : ClaimGranted(w, q)
  <2>1. PICK w \in Workers : ClaimGranted(w, q)
    BY <1>3
  <2>2. \A i \in 1 .. Len(steps[q]) : steps[q][i].fence <= steps'[q][i].fence
    BY <2>1, ClaimEffect
  <2>3. Len(steps'[q]) = Len(steps[q]) \/ Len(steps'[q]) = Len(steps[q]) + 1
    BY <2>1, ClaimEffect
  <2>. QED
    BY <1>1, <2>2, <2>3
<1>4. CASE \E w \in Workers : CommitResult(w, q)
  <2>1. /\ Len(steps'[q]) = Len(steps[q])
        /\ \A i \in 1 .. Len(steps[q]) : steps'[q][i].fence = steps[q][i].fence
    BY <1>4, CommitEffect
  <2>. QED
    BY <1>1, <1>2, <2>1
<1>5. CASE \A w \in Workers : ~ClaimGranted(w, q) /\ ~CommitResult(w, q)
  <2>1. StepsKept(q)
    BY <1>5, StepKeepsRows DEF RowsKept
  <2>. QED
    BY <1>1, <2>1 DEF StepsKept
<1>. QED
  BY <1>3, <1>4, <1>5

\* Every step leaves a worker its lease, frees it, lets it ask for a run, or
\* is the claim that gives it one.
WorkerKept(v) ==
    \/ worker'[v] = worker[v]
    \/ worker'[v] = IdleWorker
    \/ \E r \in Runs, s \in Stages :
          worker'[v] = [IdleWorker EXCEPT !.pc = "claiming", !.run = r, !.role = ExecutionRole(s)]
    \/ worker[v].pc = "leased" /\ worker'[v] = [worker[v] EXCEPT !.pc = "working"]
    \/ /\ worker[v].pc = "working" /\ worker'[v].pc = "submitted"
       /\ worker'[v].run = worker[v].run /\ worker'[v].role = worker[v].role
       /\ worker'[v].step = worker[v].step /\ worker'[v].fence = worker[v].fence
       /\ worker'[v].outcome \in Outcomes /\ worker'[v].stage \in Stages
       /\ worker'[v].status \in {"ready", "blocked", "completed"}
       /\ worker'[v].tokens # 0 => worker[v].role \in {"sdlc_builder", "sdlc_diagnosis"}

\* A worker comes by a lease only through ClaimExecution.
LEMMA WorkerStepKeeps ==
    ASSUME TypeOK, [Next]_vars, NEW v \in Workers, \A r \in Runs : ~ClaimGranted(v, r)
    PROVE  WorkerKept(v)
<1>1. ASSUME worker' = worker PROVE WorkerKept(v)
  BY <1>1 DEF WorkerKept
<1>2. ASSUME NEW w \in Workers, GivesUp(w) PROVE WorkerKept(v)
  BY <1>2, WorkerGivesUp DEF WorkerKept
<1>3. ASSUME NEW w \in Workers, NEW rec, Becomes(w, rec), v # w PROVE WorkerKept(v)
  BY <1>3 DEF Becomes, TypeOK, WorkerKept
<1>4. ASSUME NEW r \in Runs, RunStep(r) PROVE WorkerKept(v)
  BY <1>1, <1>4
  DEF RunStep, CountActiveRuns, InsertExecution, OwnerReads, Control, Pause, Cancel, Halts, Resume,
      Reconcile, ControlRefused, Decides, LeaseExpires, DeadlinePasses, HeadsChange, OwnerRevoked
<1>5. ASSUME NEW w \in Workers, NEW r \in Runs,
             \/ ClaimBlocked(w, r) \/ ClaimRefused(w, r) \/ ResultNotTaken(w, r) \/ LeaseLost(w, r)
      PROVE  WorkerKept(v)
  BY <1>2, <1>5 DEF ClaimBlocked, ClaimRefused, ResultNotTaken, LeaseLost
<1>6. ASSUME NEW w \in Workers, NEW r \in Runs, BeginClaim(w, r) PROVE WorkerKept(v)
  <2>1. run[r].stage \in Stages
    BY DEF TypeOK, RunRecord
  <2>2. CASE v = w
    <3>1. worker'[v] = [IdleWorker EXCEPT !.pc = "claiming", !.run = r,
                                          !.role = ExecutionRole(run[r].stage)]
      BY <1>6, <2>2 DEF BeginClaim, Becomes, TypeOK
    <3>. QED
      BY <2>1, <3>1 DEF WorkerKept
  <2>. QED
    BY <1>3, <1>6, <2>2 DEF BeginClaim
<1>7. ASSUME NEW w \in Workers, NEW r \in Runs, ClaimGranted(w, r) PROVE WorkerKept(v)
  <2>1. v # w
    BY <1>7
  <2>. QED
    BY <1>3, <1>7, <2>1 DEF ClaimGranted
<1>8. ASSUME NEW w \in Workers, NEW r \in Runs, NEW c \in Contexts, BindContext(w, r, c)
      PROVE  WorkerKept(v)
  <2>1. CASE v = w
    <3>1. worker[v].pc = "leased" /\ worker'[v] = [worker[v] EXCEPT !.pc = "working"]
      BY <1>8, <2>1 DEF BindContext, Becomes, TypeOK
    <3>. QED
      BY <3>1 DEF WorkerKept
  <2>. QED
    BY <1>3, <1>8, <2>1 DEF BindContext
<1>9. ASSUME NEW w \in Workers, NEW r \in Runs, NEW q \in Queries, ReserveSource(w, r, q)
      PROVE  WorkerKept(v)
  BY <1>1, <1>9 DEF ReserveSource
<1>10. ASSUME NEW w \in Workers, NEW r \in Runs, NEW o \in Outcomes, NEW d \in Patches \cup {None},
              NEW t \in TokenCounts \cup {0}, SubmitResult(w, r, o, d, t)
       PROVE  WorkerKept(v)
  <2>1. PICK verdict \in validateExecutionResult(r, o, d) :
           Becomes(w, [worker[w] EXCEPT !.pc = "submitted", !.outcome = o, !.digest = d,
                                        !.tokens = t, !.status = verdict[1], !.stage = verdict[2]])
    BY <1>10 DEF SubmitResult
  <2>2. CASE v = w
    <3>1. run[r] \in RunRecord /\ run[r].stage \in Stages
      BY DEF TypeOK, RunRecord
    <3>2. verdict[1] \in {"ready", "blocked", "completed"} /\ verdict[2] \in Stages
      BY <3>1 DEF validateExecutionResult, validateDiagnosis, validateRecovery, Stay, Stages, Outcomes
    <3>4. t # 0 => worker[v].role \in {"sdlc_builder", "sdlc_diagnosis"}
      <4>1. /\ worker[v].role = ExecutionRole(run[r].stage)
            /\ t # 0 => run[r].stage \in ModelStages
        BY <1>10, <2>2 DEF SubmitResult, CheckExecutionLease, NeedsModel
      <4>. QED
        BY <3>1, <4>1, RoleOfStage
    <3>5. /\ worker[v].pc = "working"
          /\ worker'[v] = [worker[v] EXCEPT !.pc = "submitted", !.outcome = o, !.digest = d,
                                            !.tokens = t, !.status = verdict[1], !.stage = verdict[2]]
      BY <1>10, <2>1, <2>2 DEF SubmitResult, Becomes, TypeOK
    <3>6. worker[v] \in WorkerRecord
      BY DEF TypeOK
    <3>7. /\ worker'[v].pc = "submitted" /\ worker'[v].outcome = o /\ worker'[v].tokens = t
          /\ worker'[v].status = verdict[1] /\ worker'[v].stage = verdict[2]
          /\ worker'[v].run = worker[v].run /\ worker'[v].role = worker[v].role
          /\ worker'[v].step = worker[v].step /\ worker'[v].fence = worker[v].fence
      BY <3>5, <3>6 DEF WorkerRecord
    <3>. QED
      BY <3>2, <3>4, <3>5, <3>7 DEF WorkerKept
  <2>. QED
    BY <1>3, <2>1, <2>2
<1>11. ASSUME NEW w \in Workers, NEW r \in Runs, CommitResult(w, r) PROVE WorkerKept(v)
  BY <1>1, <1>2, <1>11 DEF CommitResult
<1>12. ASSUME NEW w \in Workers, Crash(w) PROVE WorkerKept(v)
  BY <1>2, <1>12 DEF Crash
<1>13. CASE UNCHANGED vars
  BY <1>1, <1>13 DEF vars
<1>. QED
  BY <1>4, <1>5, <1>6, <1>7, <1>8, <1>9, <1>10, <1>11, <1>12, <1>13 DEF Next, WorkerStep

\* The worker of a granted claim takes the newest step and its fence.
LEMMA ClaimingWorker ==
    ASSUME TypeOK, NEW w \in Workers, NEW r \in Runs, ClaimGranted(w, r)
    PROVE  /\ worker'[w].pc = "leased" /\ worker'[w].run = r
           /\ worker'[w].role = worker[w].role /\ worker'[w].tokens = worker[w].tokens
           /\ worker'[w].step = Len(steps'[r])
           /\ worker'[w].fence = steps'[r][Len(steps'[r])].fence
           /\ \A v \in Workers : v # w => worker'[v] = worker[v]
<1>1. worker \in [Workers -> WorkerRecord] /\ worker[w] \in WorkerRecord
  BY DEF TypeOK
<1>2. worker[w].run = r
  BY DEF ClaimGranted, Grantable, Claimable
<1>. DEFINE s == Len(steps'[r])
            f == steps'[r][Len(steps'[r])].fence
<1>3. worker' = [worker EXCEPT ![w] = [worker[w] EXCEPT !.pc = "leased", !.step = s, !.fence = f]]
  BY DEF ClaimGranted, Becomes, StepNumber, CurrentStep
<1>. HIDE DEF s, f
<1>4. /\ worker'[w] = [worker[w] EXCEPT !.pc = "leased", !.step = s, !.fence = f]
      /\ \A v \in Workers : v # w => worker'[v] = worker[v]
  BY <1>1, <1>3
<1>5. /\ worker'[w].pc = "leased" /\ worker'[w].run = r
      /\ worker'[w].role = worker[w].role /\ worker'[w].tokens = worker[w].tokens
      /\ worker'[w].step = s /\ worker'[w].fence = f
  BY <1>1, <1>2, <1>4 DEF WorkerRecord
<1>. QED
  BY <1>4, <1>5 DEF s, f

\* A submitted result is whole, and only a model role reports tokens.
LEMMA NextSubmittedWhole ==
    ASSUME TypeOK, SubmittedWhole, [Next]_vars
    PROVE  SubmittedWhole'
<1>. SUFFICES ASSUME NEW v \in Workers
              PROVE  /\ worker'[v].pc = "submitted" =>
                           /\ worker'[v].outcome \in Outcomes
                           /\ worker'[v].status \in {"ready", "blocked", "completed"}
                           /\ worker'[v].stage \in Stages
                     /\ worker'[v].tokens # 0 => worker'[v].role \in {"sdlc_builder", "sdlc_diagnosis"}
  BY DEF SubmittedWhole
<1>1. worker[v] \in WorkerRecord
  BY DEF TypeOK
<1>2. CASE \E r \in Runs : ClaimGranted(v, r)
  <2>1. PICK r \in Runs : ClaimGranted(v, r)
    BY <1>2
  <2>3. worker'[v].pc = "leased" /\ worker'[v].tokens = worker[v].tokens /\ worker'[v].role = worker[v].role
    BY <2>1, ClaimingWorker
  <2>. QED
    BY <2>3 DEF SubmittedWhole
<1>3. CASE WorkerKept(v)
  <2>1. CASE worker'[v] = worker[v]
    BY <2>1 DEF SubmittedWhole
  <2>2. CASE worker'[v] = IdleWorker
    BY <2>2 DEF IdleWorker
  <2>3. ASSUME NEW r \in Runs, NEW s \in Stages,
               worker'[v] = [IdleWorker EXCEPT !.pc = "claiming", !.run = r, !.role = ExecutionRole(s)]
        PROVE  worker'[v].pc = "claiming" /\ worker'[v].tokens = 0
    BY <2>3 DEF IdleWorker
  <2>4. CASE worker'[v] = [worker[v] EXCEPT !.pc = "working"]
    BY <1>1, <2>4 DEF SubmittedWhole, WorkerRecord
  <2>. QED
    BY <1>3, <2>1, <2>2, <2>3, <2>4 DEF WorkerKept
<1>. QED
  BY <1>2, <1>3, WorkerStepKeeps

\* A worker that claims nothing keeps a lease no newer than the stored one.
LEMMA KeptLease ==
    ASSUME TypeOK, SubmittedWhole, LeasesDistinct, [Next]_vars, NEW v \in Workers, WorkerKept(v)
    PROVE  /\ worker'[v].pc # "idle" => worker'[v].run \in Runs
           /\ ~AtWork(v)' => worker'[v].step = 0
           /\ AtWork(v)' =>
                 /\ AtWork(v) /\ worker'[v].run = worker[v].run
                 /\ worker'[v].step = worker[v].step /\ worker'[v].fence = worker[v].fence
                 /\ worker'[v].step \in 1 .. Len(steps'[worker'[v].run])
                 /\ worker'[v].fence <= steps'[worker'[v].run][worker'[v].step].fence
<1>1. worker[v] \in WorkerRecord
  BY DEF TypeOK
<1>2. /\ worker'[v].pc # "idle" => worker'[v].run \in Runs
      /\ ~AtWork(v)' => worker'[v].step = 0
      /\ AtWork(v)' =>
            /\ AtWork(v) /\ worker'[v].run = worker[v].run
            /\ worker'[v].step = worker[v].step /\ worker'[v].fence = worker[v].fence
  <2>1. CASE worker'[v] = worker[v]
    BY <2>1 DEF LeasesDistinct, AtWork
  <2>2. CASE worker'[v] = IdleWorker
    BY <2>2 DEF IdleWorker, AtWork
  <2>3. ASSUME NEW r \in Runs, NEW s \in Stages,
               worker'[v] = [IdleWorker EXCEPT !.pc = "claiming", !.run = r, !.role = ExecutionRole(s)]
        PROVE  worker'[v].pc = "claiming" /\ worker'[v].run = r /\ worker'[v].step = 0
    BY <2>3 DEF IdleWorker
  <2>4. CASE worker[v].pc = "leased" /\ worker'[v] = [worker[v] EXCEPT !.pc = "working"]
    BY <1>1, <2>4 DEF LeasesDistinct, AtWork, WorkerRecord
  <2>5. CASE /\ worker[v].pc = "working" /\ worker'[v].pc = "submitted"
             /\ worker'[v].run = worker[v].run
             /\ worker'[v].step = worker[v].step /\ worker'[v].fence = worker[v].fence
    BY <2>5 DEF LeasesDistinct, AtWork
  <2>. QED
    BY <2>1, <2>2, <2>3, <2>4, <2>5 DEF WorkerKept, AtWork
<1>3. ASSUME AtWork(v)'
      PROVE  /\ worker'[v].step \in 1 .. Len(steps'[worker'[v].run])
             /\ worker'[v].fence <= steps'[worker'[v].run][worker'[v].step].fence
  <2>1. PICK r \in Runs : r = worker[v].run
    BY <1>2, <1>3 DEF LeasesDistinct, AtWork
  <2>2. PICK i \in 1 .. Len(steps[r]) : i = worker[v].step /\ worker[v].fence <= steps[r][i].fence
    BY <1>2, <1>3, <2>1 DEF LeasesDistinct, StepNumber
  <2>3. /\ worker'[v].run = r /\ worker'[v].step = i /\ worker'[v].fence = worker[v].fence
        /\ worker[v].fence \in Nat
    BY <1>1, <1>2, <1>3, <2>1, <2>2 DEF WorkerRecord
  <2>4. steps[r] \in Seq(StepRecord) /\ steps'[r] \in Seq(StepRecord) /\ Len(steps[r]) <= Len(steps'[r])
    BY NextType, FencesGrow DEF TypeOK
  <2>5. steps[r][i] \in StepRecord /\ steps'[r][i] \in StepRecord /\ i \in 1 .. Len(steps'[r])
    BY <2>4
  <2>6. steps[r][i].fence \in Nat /\ steps'[r][i].fence \in Nat
    BY <2>5 DEF StepRecord
  <2>7. steps[r][i].fence <= steps'[r][i].fence
    BY FencesGrow
  <2>. QED
    BY <2>2, <2>3, <2>5, <2>6, <2>7
<1>. QED
  BY <1>2, <1>3

\* The claimed lease is of the newest step, under its new fence; nobody held
\* that fence of that step before.
LEMMA ClaimedLease ==
    ASSUME TypeOK, LeasesDistinct, NEW w \in Workers, NEW r \in Runs, ClaimGranted(w, r)
    PROVE  /\ worker'[w].pc = "leased" /\ worker'[w].run = r
           /\ worker'[w].step = Len(steps'[r]) /\ Len(steps'[r]) \in 1 .. Len(steps'[r])
           /\ worker'[w].fence = steps'[r][Len(steps'[r])].fence
           /\ steps'[r][Len(steps'[r])].fence \in Nat
           /\ \A v \in Workers : AtWork(v) /\ worker[v].run = r /\ worker[v].step = Len(steps'[r]) =>
                 worker[v].fence # steps'[r][Len(steps'[r])].fence
<1>1. worker[w] \in WorkerRecord /\ Len(steps[r]) \in Nat /\ steps[r] \in Seq(StepRecord)
  BY DEF TypeOK
<1>3. /\ worker'[w].pc = "leased" /\ worker'[w].run = r /\ worker'[w].step = Len(steps'[r])
      /\ worker'[w].fence = steps'[r][Len(steps'[r])].fence
  BY ClaimingWorker
<1>4. /\ Len(steps'[r]) \in 1 .. Len(steps'[r])
      /\ steps'[r][Len(steps'[r])].fence \in Nat
      /\ \A v \in Workers : AtWork(v) /\ worker[v].run = r /\ worker[v].step = Len(steps'[r]) =>
            worker[v].fence # steps'[r][Len(steps'[r])].fence
  <2>1. CASE InFlight(r)
    <3>1. /\ Len(steps'[r]) = Len(steps[r]) /\ Len(steps[r]) > 0
          /\ steps'[r][Len(steps[r])] = LeasedStep(steps[r][Len(steps[r])])
      BY <2>1, ClaimEffect
    <3>2. steps[r][Len(steps[r])] \in StepRecord
      BY <1>1, <3>1
    <3>3. /\ steps[r][Len(steps[r])].fence \in Nat
          /\ steps'[r][Len(steps'[r])].fence = steps[r][Len(steps[r])].fence + 1
      BY <3>1, <3>2 DEF LeasedStep, StepRecord
    <3>4. \A v \in Workers : AtWork(v) /\ worker[v].run = r /\ worker[v].step = Len(steps[r]) =>
             worker[v].fence <= steps[r][Len(steps[r])].fence
      BY DEF LeasesDistinct
    <3>5. \A v \in Workers : worker[v].fence \in Nat
      <4>1. \A v \in Workers : worker[v] \in WorkerRecord
        BY DEF TypeOK
      <4>. QED
        BY <4>1 DEF WorkerRecord
    <3>. QED
      BY <1>1, <3>1, <3>3, <3>4, <3>5
  <2>2. CASE ~InFlight(r)
    <3>1. /\ Len(steps'[r]) = Len(steps[r]) + 1
          /\ steps'[r][Len(steps[r]) + 1] = LeasedStep(NewStep(run[r].stage))
      BY <2>2, ClaimEffect
    <3>2. LeasedStep(NewStep(run[r].stage)).fence \in Nat
      <4>1. LeasedStep(NewStep(run[r].stage)) \in StepRecord
        BY StoredShapes
      <4>. QED
        BY <4>1 DEF StepRecord
    <3>3. \A v \in Workers : AtWork(v) /\ worker[v].run = r => worker[v].step # Len(steps[r]) + 1
      BY <1>1 DEF LeasesDistinct, StepNumber
    <3>. QED
      BY <1>1, <3>1, <3>2, <3>3
  <2>. QED
    BY <2>1, <2>2
<1>. QED
  BY <1>3, <1>4

\* Leases stay distinct.
LEMMA NextLeasesDistinct ==
    ASSUME TypeOK, SubmittedWhole, LeasesDistinct, [Next]_vars
    PROVE  LeasesDistinct'
<1>1. CASE \A v \in Workers, r \in Runs : ~ClaimGranted(v, r)
  <2>1. \A v \in Workers : WorkerKept(v)
    BY <1>1, WorkerStepKeeps
  <2>. QED
    BY <2>1, KeptLease DEF LeasesDistinct, StepNumber
<1>2. ASSUME NEW w \in Workers, NEW r \in Runs, ClaimGranted(w, r) PROVE LeasesDistinct'
  <2>1. \A v \in Workers : v # w => worker'[v] = worker[v]
    BY <1>2, ClaimingWorker
  <2>2. \A v \in Workers : v # w => WorkerKept(v)
    BY <2>1 DEF WorkerKept
  <2>3. /\ worker'[w].pc = "leased" /\ worker'[w].run = r
        /\ worker'[w].step = Len(steps'[r]) /\ Len(steps'[r]) \in 1 .. Len(steps'[r])
        /\ worker'[w].fence = steps'[r][Len(steps'[r])].fence
        /\ steps'[r][Len(steps'[r])].fence \in Nat
    BY <1>2, ClaimedLease
  <2>4. \A v \in Workers : worker'[v].pc # "idle" => worker'[v].run \in Runs
    BY <2>2, <2>3, KeptLease
  <2>5. \A v \in Workers : ~AtWork(v)' => worker'[v].step = 0
    BY <2>2, <2>3, KeptLease DEF AtWork
  <2>6. \A v \in Workers : AtWork(v)' =>
           /\ worker'[v].step \in 1 .. Len(steps'[worker'[v].run])
           /\ worker'[v].fence <= steps'[worker'[v].run][worker'[v].step].fence
    BY <2>2, <2>3, KeptLease
  <2>7. ASSUME NEW u \in Workers, NEW v \in Workers, AtWork(u)', AtWork(v)', u # v,
               worker'[u].run = worker'[v].run, worker'[u].step = worker'[v].step
        PROVE  worker'[u].fence # worker'[v].fence
    <3>1. CASE u # w /\ v # w
      BY <2>2, <2>7, <3>1, KeptLease DEF LeasesDistinct
    <3>2. CASE u = w
      BY <1>2, <2>2, <2>3, <2>7, <3>2, KeptLease, ClaimedLease
    <3>3. CASE v = w
      BY <1>2, <2>2, <2>3, <2>7, <3>3, KeptLease, ClaimedLease
    <3>. QED
      BY <3>1, <3>2, <3>3
  <2>. QED
    BY <2>4, <2>5, <2>6, <2>7 DEF LeasesDistinct, StepNumber
<1>. QED
  BY <1>1, <1>2

-----------------------------------------------------------------------------
(* The theorems *)

\* The inductive step of everything below.
LEMMA NextInv == Inv /\ [Next]_vars => Inv'
<1>. SUFFICES ASSUME Inv, [Next]_vars PROVE Inv'
  OBVIOUS
<1>1. /\ TypeOK /\ SubmittedWhole /\ LeasesDistinct /\ DecisionsPast /\ VersionIdentifiesDecision
      /\ StepHistorySound /\ ReconcilingHasOpenEffect /\ TokensReserved
  BY DEF Inv
<1>2. TypeOK'
  BY <1>1, NextType
<1>3. SubmittedWhole' /\ LeasesDistinct'
  BY <1>1, NextSubmittedWhole, NextLeasesDistinct
<1>4. \A q \in Runs : RunSound(q)'
  BY <1>1, SoundRuns, NextRunSound
<1>5. StepHistorySound' /\ ReconcilingHasOpenEffect' /\ TokensReserved'
  BY <1>4, SoundRuns
<1>6. DecisionsPast' /\ VersionIdentifiesDecision'
  BY <1>1, NextDecisions
<1>. QED
  BY <1>2, <1>3, <1>5, <1>6 DEF Inv

\* Every reachable state satisfies the inductive invariant.
THEOREM Invariance == Spec => []Inv
<1>. QED
  BY InitInv, NextInv, PTL DEF Spec

\* Every row stored by the execution repository keeps its shape.
THEOREM TypeCorrect == Spec => []TypeOK
<1>1. Inv => TypeOK
  BY DEF Inv
<1>. QED
  BY <1>1, Invariance, PTL

\* Only the newest step of a run is open, and it is of the run's stage:
\* ClaimExecution reclaims the stage the run is in.
THEOREM StepHistory == Spec => []StepHistorySound
<1>1. Inv => StepHistorySound
  BY DEF Inv
<1>. QED
  BY <1>1, Invariance, PTL

\* A reconciling run has the open step of an external write to read back.
THEOREM Reconcilable == Spec => []ReconcilingHasOpenEffect
<1>1. Inv => ReconcilingHasOpenEffect
  BY DEF Inv
<1>. QED
  BY <1>1, Invariance, PTL

\* At most one worker passes checkExecutionLease for a run.
THEOREM LeaseExclusive == Spec => []OneLeaseHolder
<1>1. Inv => OneLeaseHolder
  <2>. SUFFICES ASSUME Inv, NEW v \in Workers, NEW w \in Workers,
                       CheckExecutionLease(v), CheckExecutionLease(w),
                       worker[v].run = worker[w].run, v # w
                PROVE  FALSE
    BY DEF OneLeaseHolder
  <2>1. /\ worker[v].step = worker[w].step /\ worker[v].fence = worker[w].fence
        /\ worker[v].step > 0 /\ worker[w].step > 0
    BY DEF CheckExecutionLease, InFlight
  <2>2. AtWork(v) /\ AtWork(w)
    BY <2>1 DEF Inv, LeasesDistinct
  <2>. QED
    BY <2>1, <2>2 DEF Inv, LeasesDistinct
<1>. QED
  BY <1>1, Invariance, PTL

\* The tokens a run reports never exceed its reservations, nor those its budget.
THEOREM TokenBudget == Spec => []TokensWithinReservation
<1>1. Inv => TokensWithinReservation
  BY DEF Inv, TokensReserved, TokensWithinReservation
<1>. QED
  BY <1>1, Invariance, PTL

\* A decision ControlExecution accepts by version was taken on the state the
\* run is in.
THEOREM DecisionsCurrent == Spec => []VersionIdentifiesDecision
<1>1. Inv => VersionIdentifiesDecision
  BY DEF Inv
<1>. QED
  BY <1>1, Invariance, PTL

\* No step changes a run that is finished: every transaction that saves one
\* has checked, under its row lock, that it is not.
THEOREM FinishedForGood == Spec => TerminalIsFinal
<1>. DEFINE Final == \A q \in Runs : run[q].status \in TerminalStatuses => run'[q] = run[q]
<1>1. ASSUME TypeOK, [Next]_vars PROVE Final
  <2>. SUFFICES ASSUME NEW q \in Runs, run[q].status \in TerminalStatuses PROVE run'[q] = run[q]
    OBVIOUS
  <2>. DEFINE Same == run'[q] = run[q]
  <2>1. ASSUME NEW r \in Runs, NEW rec, saveExecution(r, rec), run[r].status \notin TerminalStatuses
        PROVE  Same
    BY <2>1 DEF saveExecution, TypeOK
  <2>2. ASSUME run' = run PROVE Same
    BY <2>2
  <2>3. ASSUME NEW r \in Runs, CountActiveRuns(r) PROVE Same
    BY <2>3 DEF CountActiveRuns, TerminalStatuses, TypeOK
  <2>4. ASSUME NEW r \in Runs, InsertExecution(r) PROVE Same
    <3>1. run[r].status \notin TerminalStatuses
      BY <2>4 DEF InsertExecution, TerminalStatuses
    <3>. QED
      BY <2>1, <2>4, <3>1 DEF InsertExecution
  <2>5. ASSUME NEW r \in Runs, Control(r) PROVE Same
    <3>1. CASE ControlRefused(r)
      BY <2>2, <3>1 DEF ControlRefused
    <3>2. CASE Pause(r) \/ Cancel(r)
      <4>1. PICK st \in {"paused", "cancelled"} : Halts(r, st)
        BY <3>2 DEF Pause, Cancel
      <4>2. run[r].status \notin TerminalStatuses
        BY <4>1 DEF Halts, Decides
      <4>3. CASE EffectInFlight(r)
        BY <2>1, <4>1, <4>2, <4>3 DEF Halts
      <4>4. CASE ~EffectInFlight(r)
        BY <2>1, <4>1, <4>2, <4>4 DEF Halts
      <4>. QED
        BY <4>3, <4>4
    <3>3. CASE Resume(r)
      BY <2>1, <3>3 DEF Resume, Decides
    <3>4. CASE Reconcile(r)
      BY <2>1, <3>4 DEF Reconcile, Decides
    <3>. QED
      BY <2>5, <3>1, <3>2, <3>3, <3>4 DEF Control
  <2>6. ASSUME NEW r \in Runs, \/ OwnerReads(r) \/ LeaseExpires(r) \/ DeadlinePasses(r)
                               \/ HeadsChange(r) \/ OwnerRevoked(r)
        PROVE  Same
    BY <2>2, <2>6 DEF OwnerReads, LeaseExpires, DeadlinePasses, HeadsChange, OwnerRevoked
  <2>7. ASSUME NEW w \in Workers, NEW r \in Runs, ClaimBlocked(w, r) \/ ClaimGranted(w, r)
        PROVE  Same
    <3>1. run[r].status \notin TerminalStatuses
      BY <2>7
      DEF ClaimBlocked, ClaimStops, ClaimGranted, Grantable, Claimable, ActiveStatuses, TerminalStatuses
    <3>. QED
      BY <2>1, <2>7, <3>1 DEF ClaimBlocked, ClaimGranted
  <2>8. ASSUME NEW w \in Workers, NEW r \in Runs, NEW k \in Queries, ReserveSource(w, r, k)
        PROVE  Same
    <3>1. run[r].status \notin TerminalStatuses
      BY <2>8 DEF ReserveSource, CheckExecutionLease, TerminalStatuses
    <3>. QED
      BY <2>1, <2>8, <3>1 DEF ReserveSource
  <2>9. ASSUME NEW w \in Workers, NEW r \in Runs, CommitResult(w, r) PROVE Same
    <3>1. run[r].status \notin TerminalStatuses
      BY <2>9 DEF CommitResult, Committable, CheckExecutionLease, TerminalStatuses
    <3>. QED
      BY <2>1, <2>9, <3>1 DEF CommitResult
  <2>10. ASSUME NEW w \in Workers, NEW r \in Runs,
                \/ BeginClaim(w, r) \/ ClaimRefused(w, r) \/ ResultNotTaken(w, r) \/ LeaseLost(w, r)
         PROVE  Same
    BY <2>2, <2>10 DEF BeginClaim, ClaimRefused, ResultNotTaken, LeaseLost
  <2>11. ASSUME NEW w \in Workers, Crash(w) PROVE Same
    BY <2>2, <2>11 DEF Crash
  <2>12. ASSUME UNCHANGED vars PROVE Same
    BY <2>2, <2>12 DEF vars
  <2>13. ASSUME NEW w \in Workers, NEW r \in Runs, NEW c \in Contexts, BindContext(w, r, c)
         PROVE  Same
    BY <2>2, <2>13 DEF BindContext
  <2>14. ASSUME NEW w \in Workers, NEW r \in Runs, NEW o \in Outcomes, NEW d \in Patches \cup {None},
                NEW t \in TokenCounts \cup {0}, SubmitResult(w, r, o, d, t)
         PROVE  Same
    BY <2>2, <2>14 DEF SubmitResult
  <2>. HIDE DEF Same
  <2>15. ASSUME NEW r \in Runs, RunStep(r) PROVE Same
    BY <2>3, <2>4, <2>5, <2>6, <2>15 DEF RunStep
  <2>16. ASSUME NEW w \in Workers, NEW r \in Runs, WorkerStep(w, r) PROVE Same
    BY <2>7, <2>8, <2>9, <2>10, <2>13, <2>14, <2>16 DEF WorkerStep
  <2>17. Same
    BY <1>1, <2>11, <2>12, <2>15, <2>16 DEF Next
  <2>. QED
    BY <2>17 DEF Same
<1>2. TypeOK /\ [Next]_vars => [\A r \in Runs : run[r].status \in TerminalStatuses => run'[r] = run[r]]_vars
  BY <1>1
<1>. QED
  BY <1>2, TypeCorrect, PTL DEF Spec, TerminalIsFinal

\* The evidence of a run: its results and its bound contexts.
EvidenceKept(q) ==
    \A i \in 1 .. StepNumber(q) :
        /\ i <= StepNumber(q)'
        /\ steps[q][i].outcome # None => steps'[q][i] = steps[q][i]
        /\ steps[q][i].ctx # None => steps'[q][i].ctx = steps[q][i].ctx

\* Saving the open step with the context it is bound to keeps all evidence.
LEMMA SaveOpenStep ==
    ASSUME TypeOK, NEW r \in Runs, InFlight(r), NEW st \in StepRecord, saveExecutionStep(r, st),
           CurrentStep(r).ctx # None => st.ctx = CurrentStep(r).ctx
    PROVE  \A q \in Runs : EvidenceKept(q)
<1>1. StepNumber(r) > 0 /\ CurrentStep(r).outcome = None
  BY DEF InFlight
<1>2. \A q \in Runs : Len(steps[q]) \in Nat
  BY DEF TypeOK
<1>3. /\ \A q \in Runs : Len(steps'[q]) = Len(steps[q])
      /\ \A q \in Runs : q # r => steps'[q] = steps[q]
      /\ \A i \in 1 .. Len(steps[r]) : i # Len(steps[r]) => steps'[r][i] = steps[r][i]
      /\ steps'[r][Len(steps[r])] = st
  BY <1>1, SaveStep
<1>4. EvidenceKept(r)
  BY <1>1, <1>2, <1>3 DEF EvidenceKept, CurrentStep, StepNumber
<1>5. \A q \in Runs : q # r => EvidenceKept(q)
  BY <1>2, <1>3 DEF EvidenceKept, StepNumber
<1>. QED
  BY <1>4, <1>5

\* Every transaction that writes a step writes the open one, and binds a
\* context only where there is none.
LEMMA NextEvidence ==
    ASSUME TypeOK, SubmittedWhole, [Next]_vars, NEW q \in Runs
    PROVE  EvidenceKept(q)
<1>1. ASSUME steps'[q] = steps[q] PROVE EvidenceKept(q)
  <2>1. Len(steps[q]) \in Nat
    BY DEF TypeOK
  <2>. QED
    BY <1>1, <2>1 DEF EvidenceKept, StepNumber
<1>2. ASSUME NEW r \in Runs, \/ CountActiveRuns(r) \/ InsertExecution(r) \/ OwnerReads(r)
                             \/ Resume(r) \/ ControlRefused(r) \/ HeadsChange(r) \/ OwnerRevoked(r)
      PROVE  EvidenceKept(q)
  <2>1. steps' = steps
    BY <1>2 DEF CountActiveRuns, InsertExecution, OwnerReads, Resume, ControlRefused, HeadsChange,
                OwnerRevoked
  <2>. QED
    BY <1>1, <2>1
<1>3. ASSUME NEW r \in Runs, InFlight(r), saveExecutionStep(r, Fenced(CurrentStep(r)))
      PROVE  EvidenceKept(q)
  <2>1. CurrentStep(r) \in StepRecord /\ Fenced(CurrentStep(r)) \in StepRecord
    BY <1>3, CurrentStepType, StoredShapes
  <2>2. Fenced(CurrentStep(r)).ctx = CurrentStep(r).ctx
    BY <2>1 DEF Fenced, StepRecord
  <2>. QED
    BY <1>3, <2>1, <2>2, SaveOpenStep
<1>4. ASSUME NEW r \in Runs, Reconcile(r) PROVE EvidenceKept(q)
  BY <1>3, <1>4 DEF Reconcile, EffectInFlight
<1>5. ASSUME NEW r \in Runs, NEW st \in {"paused", "cancelled"}, Halts(r, st) PROVE EvidenceKept(q)
  <2>1. \/ steps' = steps
        \/ InFlight(r) /\ saveExecutionStep(r, Fenced(CurrentStep(r)))
    <3>1. CASE EffectInFlight(r)
      BY <1>5, <3>1 DEF Halts
    <3>2. CASE ~EffectInFlight(r)
      BY <1>5, <3>2 DEF Halts
    <3>. QED
      BY <3>1, <3>2
  <2>. QED
    BY <1>1, <1>3, <2>1
<1>6. ASSUME NEW r \in Runs, LeaseExpires(r) \/ DeadlinePasses(r) PROVE EvidenceKept(q)
  <2>1. \/ steps' = steps
        \/ InFlight(r) /\ saveExecutionStep(r, [CurrentStep(r) EXCEPT !.lease = "expired"])
    BY <1>6 DEF LeaseExpires, DeadlinePasses, Expire, Leased
  <2>2. CASE InFlight(r) /\ saveExecutionStep(r, [CurrentStep(r) EXCEPT !.lease = "expired"])
    <3>1. CurrentStep(r) \in StepRecord /\ [CurrentStep(r) EXCEPT !.lease = "expired"] \in StepRecord
      BY <2>2, CurrentStepType, StoredShapes
    <3>2. [CurrentStep(r) EXCEPT !.lease = "expired"].ctx = CurrentStep(r).ctx
      BY <3>1 DEF StepRecord
    <3>. QED
      BY <2>2, <3>1, <3>2, SaveOpenStep
  <2>. QED
    BY <1>1, <2>1, <2>2
<1>7. ASSUME NEW r \in Runs, RunStep(r) PROVE EvidenceKept(q)
  BY <1>2, <1>4, <1>5, <1>6, <1>7 DEF RunStep, Control, Pause, Cancel
<1>8. ASSUME NEW w \in Workers, NEW r \in Runs, ClaimGranted(w, r) PROVE EvidenceKept(q)
  <2>1. CASE q # r
    <3>1. steps'[q] = steps[q]
      BY <1>8, <2>1 DEF ClaimGranted, TypeOK
    <3>. QED
      BY <1>1, <3>1
  <2>2. CASE q = r /\ InFlight(r)
    <3>1. CurrentStep(r) \in StepRecord /\ LeasedStep(CurrentStep(r)) \in StepRecord
      BY <2>2, CurrentStepType, StoredShapes
    <3>2. LeasedStep(CurrentStep(r)).ctx = CurrentStep(r).ctx
      BY <3>1 DEF LeasedStep, StepRecord
    <3>3. saveExecutionStep(r, LeasedStep(CurrentStep(r)))
      BY <1>8, <2>2 DEF ClaimGranted, ClaimedSteps, saveExecutionStep
    <3>. QED
      BY <2>2, <3>1, <3>2, <3>3, SaveOpenStep
  <2>3. CASE q = r /\ ~InFlight(r)
    <3>1. Len(steps[r]) \in Nat
      BY DEF TypeOK
    <3>2. /\ Len(steps'[r]) = Len(steps[r]) + 1
          /\ \A i \in 1 .. Len(steps[r]) : steps'[r][i] = steps[r][i]
      BY <1>8, <2>3, ClaimEffect
    <3>. QED
      BY <2>3, <3>1, <3>2 DEF EvidenceKept, StepNumber
  <2>. QED
    BY <2>1, <2>2, <2>3
<1>9. ASSUME NEW w \in Workers, NEW r \in Runs, NEW c \in Contexts, BindContext(w, r, c)
      PROVE  EvidenceKept(q)
  <2>1. InFlight(r) /\ saveExecutionStep(r, Disclosed(CurrentStep(r), c))
    BY <1>9 DEF BindContext, CheckExecutionLease
  <2>2. CurrentStep(r) \in StepRecord /\ Disclosed(CurrentStep(r), c) \in StepRecord
    BY <2>1, CurrentStepType, StoredShapes
  <2>3. CurrentStep(r).ctx # None => Disclosed(CurrentStep(r), c).ctx = CurrentStep(r).ctx
    BY <2>2 DEF Disclosed, StepRecord
  <2>. QED
    BY <2>1, <2>2, <2>3, SaveOpenStep
<1>10. ASSUME NEW w \in Workers, NEW r \in Runs, NEW k \in Queries, ReserveSource(w, r, k)
       PROVE  EvidenceKept(q)
  <2>. DEFINE st == [CurrentStep(r) EXCEPT !.reserved = @ \cup {k}]
  <2>1. InFlight(r) /\ saveExecutionStep(r, st)
    BY <1>10 DEF ReserveSource, CheckExecutionLease
  <2>2. CurrentStep(r) \in StepRecord
    BY <2>1, CurrentStepType
  <2>3. st \in StepRecord /\ st.ctx = CurrentStep(r).ctx
    BY <2>2 DEF StepRecord
  <2>. QED
    BY <2>1, <2>3, SaveOpenStep
<1>11. ASSUME NEW w \in Workers, NEW r \in Runs, CommitResult(w, r)
       PROVE  EvidenceKept(q)
  <2>. DEFINE st == [CurrentStep(r) EXCEPT !.outcome = worker[w].outcome, !.digest = worker[w].digest]
  <2>1. InFlight(r) /\ saveExecutionStep(r, st) /\ worker[w].outcome \in Outcomes
    BY <1>11 DEF CommitResult, Committable, CheckExecutionLease, SubmittedWhole
  <2>2. CurrentStep(r) \in StepRecord /\ worker[w].digest \in Patches \cup {None}
    BY <2>1, CurrentStepType DEF TypeOK, WorkerRecord
  <2>3. st \in StepRecord /\ st.ctx = CurrentStep(r).ctx
    BY <2>1, <2>2 DEF StepRecord
  <2>. QED
    BY <2>1, <2>3, SaveOpenStep
<1>12. ASSUME NEW w \in Workers, NEW r \in Runs,
              \/ BeginClaim(w, r) \/ ClaimBlocked(w, r) \/ ClaimRefused(w, r)
              \/ ResultNotTaken(w, r) \/ LeaseLost(w, r)
       PROVE  EvidenceKept(q)
  BY <1>1, <1>12 DEF BeginClaim, ClaimBlocked, ClaimRefused, ResultNotTaken, LeaseLost
<1>13. ASSUME NEW w \in Workers, NEW r \in Runs, NEW o \in Outcomes, NEW d \in Patches \cup {None},
              NEW t \in TokenCounts \cup {0}, SubmitResult(w, r, o, d, t)
       PROVE  EvidenceKept(q)
  BY <1>1, <1>13 DEF SubmitResult
<1>14. ASSUME NEW w \in Workers, NEW r \in Runs, WorkerStep(w, r) PROVE EvidenceKept(q)
  BY <1>8, <1>9, <1>10, <1>11, <1>12, <1>13, <1>14 DEF WorkerStep
<1>15. ASSUME NEW w \in Workers, Crash(w) PROVE EvidenceKept(q)
  BY <1>1, <1>15 DEF Crash
<1>16. CASE UNCHANGED vars
  BY <1>1, <1>16 DEF vars
<1>. QED
  BY <1>7, <1>14, <1>15, <1>16 DEF Next

\* Results and bound contexts are immutable, whatever late and repeated calls
\* arrive.
THEOREM EvidenceForGood == Spec => EvidenceImmutable
<1>1. Inv /\ [Next]_vars =>
         [\A r \in Runs : \A i \in 1 .. StepNumber(r) :
             /\ i <= StepNumber(r)'
             /\ steps[r][i].outcome # None => steps'[r][i] = steps[r][i]
             /\ steps[r][i].ctx # None => steps'[r][i].ctx = steps[r][i].ctx]_vars
  BY NextEvidence DEF Inv, EvidenceKept
<1>. QED
  BY <1>1, Invariance, PTL DEF Spec, EvidenceImmutable


-----------------------------------------------------------------------------
(* The candidate that is delivered *)

\* Step i holds the newest result of a stage.
Newest(q, stage, i) == i \in ResultsOf(q, stage) /\ \A j \in ResultsOf(q, stage) : j <= i

\* The newest build result is a candidate.
Built(q) == \E b \in 1 .. StepNumber(q) : Newest(q, "build", b) /\ steps[q][b].outcome = "succeeded"

\* A later evaluation accepted it.
Evaluated(q) ==
    \E b, e \in 1 .. StepNumber(q) :
        /\ Newest(q, "build", b) /\ Newest(q, "evaluate", e) /\ b < e
        /\ steps[q][b].outcome = "succeeded" /\ steps[q][e].outcome = "succeeded"
        /\ steps[q][e].digest = steps[q][b].digest

StageEarned(q) ==
    /\ run[q].stage = "evaluate" => Built(q)
    /\ run[q].stage \in {"deliver", "verify_delivery"} => Evaluated(q)

\* An evaluation in flight was judged on the candidate that is still the
\* newest, as long as its step is open.
VerdictFresh(w) ==
    LET r == worker[w].run
    IN  /\ worker[w].pc = "submitted" /\ worker[w].outcome = "succeeded"
        /\ worker[w].step = StepNumber(r) /\ InFlight(r) /\ run[r].stage = "evaluate"
        => \E b \in 1 .. StepNumber(r) : Newest(r, "build", b) /\ worker[w].digest = steps[r][b].digest

CandidateInv == (\A q \in Runs : StageEarned(q)) /\ (\A w \in Workers : VerdictFresh(w))

\* The newest result is the one LatestExecutionResult finds.
LEMMA NewestIsMax ==
    ASSUME TypeOK, NEW q \in Runs, NEW stage, NEW i, Newest(q, stage, i)
    PROVE  /\ i \in 1 .. StepNumber(q)
           /\ ResultsOf(q, stage) # {} /\ Max(ResultsOf(q, stage)) = i
           /\ LatestExecutionResult(q, stage) = steps[q][i].digest
<1>1. StepNumber(q) \in Nat /\ ResultsOf(q, stage) \subseteq 1 .. StepNumber(q)
  BY DEF TypeOK, StepNumber, ResultsOf
<1>2. i \in ResultsOf(q, stage) /\ \A j \in ResultsOf(q, stage) : j <= i
  BY DEF Newest
<1>3. \A k \in ResultsOf(q, stage) : (\A j \in ResultsOf(q, stage) : k >= j) => k = i
  BY <1>1, <1>2
<1>4. \A j \in ResultsOf(q, stage) : i >= j
  BY <1>1, <1>2
<1>5. Max(ResultsOf(q, stage)) = i
  BY <1>2, <1>3, <1>4 DEF Max
<1>. QED
  BY <1>1, <1>2, <1>5 DEF LatestExecutionResult

\* Results are added by CommitResult only.
ResultsKept(q) ==
    /\ run'[q].stage = run[q].stage
    /\ StepNumber(q) <= StepNumber(q)'
    /\ \A stage : ResultsOf(q, stage)' = ResultsOf(q, stage)
    /\ \A stage : \A i \in ResultsOf(q, stage) : steps'[q][i] = steps[q][i]
    /\ InFlight(q)' => (StepNumber(q)' = StepNumber(q) /\ InFlight(q)) \/ StepNumber(q)' = StepNumber(q) + 1

LEMMA StepKeepsResults ==
    ASSUME TypeOK, SubmittedWhole, [Next]_vars, NEW q \in Runs,
           \A w \in Workers : ~CommitResult(w, q)
    PROVE  ResultsKept(q)
<1>1. Len(steps[q]) \in Nat /\ \A i \in 1 .. Len(steps[q]) : steps[q][i] \in StepRecord
  BY DEF TypeOK
<1>2. \A i \in 1 .. Len(steps[q]) : steps[q][i].outcome # None => steps'[q][i] = steps[q][i]
  BY NextEvidence DEF EvidenceKept, StepNumber
<1>. DEFINE n == Len(steps[q])
            m == Len(steps'[q])
<1>3. ASSUME run'[q].stage = run[q].stage, m = n \/ m = n + 1,
             \A i \in 1 .. n : steps[q][i].outcome = None => steps'[q][i].outcome = None,
             m = n + 1 => steps'[q][m].outcome = None,
             m = n => (InFlight(q)' => InFlight(q))
      PROVE  ResultsKept(q)
  <2>1. ASSUME NEW i \in 1 .. m, steps'[q][i].outcome # None PROVE i \in 1 .. n /\ steps[q][i].outcome # None
    <3>1. i \in 1 .. n
      BY <1>1, <1>3, <2>1
    <3>. QED
      BY <1>3, <2>1, <3>1
  <2>2. 1 .. n \subseteq 1 .. m
    BY <1>1, <1>3
  <2>3. ASSUME NEW stage PROVE ResultsOf(q, stage)' = ResultsOf(q, stage)
    <3>1. /\ ResultsOf(q, stage)' = {i \in 1 .. m : steps'[q][i].stage = stage /\ steps'[q][i].outcome # None}
          /\ ResultsOf(q, stage) = {i \in 1 .. n : steps[q][i].stage = stage /\ steps[q][i].outcome # None}
      BY DEF ResultsOf, StepNumber
    <3>. QED
      BY <1>2, <2>1, <2>2, <3>1
  <2>4. \A stage : \A i \in ResultsOf(q, stage) : steps'[q][i] = steps[q][i]
    BY <1>2 DEF ResultsOf, StepNumber
  <2>. QED
    BY <1>1, <1>3, <2>3, <2>4 DEF ResultsKept, StepNumber
<1>4. CASE \E w \in Workers : ClaimGranted(w, q)
  <2>1. PICK w \in Workers : ClaimGranted(w, q)
    BY <1>4
  <2>2. /\ run'[q].stage = run[q].stage
        /\ \A i \in 1 .. n : i < n \/ ~InFlight(q) => steps'[q][i] = steps[q][i]
        /\ InFlight(q) => m = n /\ n > 0 /\ steps'[q][n] = LeasedStep(steps[q][n])
        /\ ~InFlight(q) => m = n + 1 /\ steps'[q][n + 1] = LeasedStep(NewStep(run[q].stage))
    BY <2>1, ClaimEffect
  <2>3. /\ \A st \in StepRecord : LeasedStep(st).outcome = st.outcome
        /\ LeasedStep(NewStep(run[q].stage)).outcome = None
    BY DEF LeasedStep, NewStep, StepRecord
  <2>4. \A i \in 1 .. n : steps[q][i].outcome = None => steps'[q][i].outcome = None
    BY <1>1, <2>2, <2>3
  <2>5. (m = n \/ m = n + 1) /\ (m = n + 1 => steps'[q][m].outcome = None) /\ (m = n => InFlight(q))
    BY <1>1, <2>2, <2>3
  <2>. QED
    BY <1>3, <2>2, <2>4, <2>5
<1>5. CASE \A w \in Workers : ~ClaimGranted(w, q)
  <2>1. RowsKept(q)
    BY <1>5, StepKeepsRows
  <2>2. InFlight(q)' => InFlight(q)
    BY <1>1, <2>1 DEF RowsKept, StepsKept, InFlight, CurrentStep, StepNumber
  <2>. QED
    BY <1>3, <2>1, <2>2 DEF RowsKept, StepsKept, RunKept
<1>. QED
  BY <1>4, <1>5

\* What holds of the newest results holds as long as no result is added.
LEMMA KeptResultsEarned ==
    ASSUME TypeOK, NEW q \in Runs, ResultsKept(q), StageEarned(q)
    PROVE  StageEarned(q)'
<1>1. StepNumber(q) \in Nat /\ StepNumber(q)' \in Nat
  BY DEF TypeOK, StepNumber, ResultsKept
<1>2. 1 .. StepNumber(q) \subseteq 1 .. StepNumber(q)'
  BY <1>1 DEF ResultsKept
<1>3. \A stage, i : Newest(q, stage, i) => Newest(q, stage, i)' /\ steps'[q][i] = steps[q][i]
  BY DEF Newest, ResultsKept
<1>4. Built(q) => Built(q)'
  BY <1>2, <1>3 DEF Built
<1>5. Evaluated(q) => Evaluated(q)'
  BY <1>2, <1>3 DEF Evaluated
<1>. QED
  BY <1>4, <1>5 DEF StageEarned, ResultsKept

\* What CommitResult writes, and the stage it takes the run to.
LEMMA CommittedResult ==
    ASSUME TypeOK, SubmittedWhole, NEW w \in Workers, NEW q \in Runs, RunSound(q), CommitResult(w, q),
           NEW n, n = StepNumber(q)
    PROVE  /\ n \in Nat \ {0} /\ StepNumber(q)' = n /\ InFlight(q) /\ worker[w].step = n
           /\ worker[w].pc = "submitted" /\ worker[w].run = q
           /\ \A i \in 1 .. n : i < n => steps'[q][i] = steps[q][i]
           /\ steps[q][n].outcome = None /\ steps[q][n].stage = run[q].stage
           /\ steps'[q][n].outcome = worker[w].outcome /\ steps'[q][n].digest = worker[w].digest
           /\ steps'[q][n].stage = run[q].stage /\ worker[w].outcome \in Outcomes
           /\ \/ run'[q].stage = run[q].stage /\ run[q].stage \in EffectStages
              \/ /\ run'[q].stage = worker[w].stage
                 /\ validExecutionTransition(run[q].stage, worker[w].outcome, worker[w].status, worker[w].stage)
<1>1. /\ worker[w].pc = "submitted" /\ worker[w].run = q /\ CheckExecutionLease(w)
      /\ validExecutionTransition(CurrentStep(q).stage, worker[w].outcome, worker[w].status, worker[w].stage)
      /\ saveExecutionStep(q, [CurrentStep(q) EXCEPT !.outcome = worker[w].outcome, !.digest = worker[w].digest])
      /\ saveExecution(q, Completed(w, q))
  BY DEF CommitResult, Committable
<1>2. InFlight(q) /\ worker[w].step = n
  BY <1>1 DEF CheckExecutionLease
<1>3. /\ CurrentStep(q) \in StepRecord /\ n \in Nat \ {0} /\ CurrentStep(q) = steps[q][n]
      /\ CurrentStep(q).outcome = None /\ CurrentStep(q).stage = run[q].stage
  BY <1>2, CurrentStepType DEF CurrentStep, InFlight, RunSound
<1>4. /\ worker[w] \in WorkerRecord /\ worker[w].outcome \in Outcomes /\ worker[w].stage \in Stages
      /\ worker[w].status \in Statuses /\ worker[w].digest \in Patches \cup {None}
  BY <1>1 DEF SubmittedWhole, TypeOK, WorkerRecord, Statuses
<1>. DEFINE st == [CurrentStep(q) EXCEPT !.outcome = worker[w].outcome, !.digest = worker[w].digest]
<1>5. /\ st \in StepRecord /\ st.outcome = worker[w].outcome /\ st.digest = worker[w].digest
      /\ st.stage = run[q].stage
  BY <1>3, <1>4 DEF StepRecord
<1>6. saveExecutionStep(q, st)
  BY <1>1
<1>7. /\ StepNumber(q)' = n /\ \A i \in 1 .. n : i < n => steps'[q][i] = steps[q][i]
      /\ steps'[q][n] = st
  <2>. HIDE DEF st
  <2>. QED
    BY <1>3, <1>5, <1>6, SaveStep DEF StepNumber
<1>8. run[q] \in RunRecord /\ run'[q].stage = Completed(w, q).stage
  <2>1. run[q] \in RunRecord /\ Completed(w, q) \in RunRecord
    BY <1>4, CompletedShape DEF TypeOK
  <2>2. run'[q] = [Completed(w, q) EXCEPT !.version = run[q].version + 1]
    BY <1>1, <2>1, SaveRun
  <2>. QED
    BY <2>1, <2>2 DEF RunRecord
<1>9. Completed(w, q).stage = IF run[q].status = "reconciling" THEN run[q].stage ELSE worker[w].stage
  BY <1>8 DEF Completed, RunRecord
<1>10. run[q].status = "reconciling" => run[q].stage \in EffectStages
  BY <1>3 DEF RunSound
<1>. QED
  BY <1>1, <1>2, <1>3, <1>4, <1>5, <1>7, <1>8, <1>9, <1>10

\* A committed result earns the stage it takes the run to.
LEMMA CommitEarned ==
    ASSUME TypeOK, SubmittedWhole, NEW w \in Workers, NEW q \in Runs, RunSound(q), CommitResult(w, q),
           StageEarned(q), VerdictFresh(w)
    PROVE  StageEarned(q)'
<1>0. PICK n, s : n = StepNumber(q) /\ s = run[q].stage /\ s \in Stages
  BY DEF TypeOK, RunRecord
<1>1. /\ n \in Nat \ {0} /\ StepNumber(q)' = n /\ InFlight(q) /\ worker[w].step = n
      /\ worker[w].pc = "submitted" /\ worker[w].run = q
      /\ \A i \in 1 .. n : i < n => steps'[q][i] = steps[q][i]
      /\ steps[q][n].outcome = None /\ steps[q][n].stage = s
      /\ steps'[q][n].outcome = worker[w].outcome /\ steps'[q][n].digest = worker[w].digest
      /\ steps'[q][n].stage = s /\ worker[w].outcome \in Outcomes
      /\ \/ run'[q].stage = s /\ s \in EffectStages
         \/ /\ run'[q].stage = worker[w].stage
            /\ validExecutionTransition(s, worker[w].outcome, worker[w].status, worker[w].stage)
  BY <1>0, CommittedResult
<1>2. \A stage : \A i \in ResultsOf(q, stage) : i \in 1 .. n /\ i < n /\ steps'[q][i] = steps[q][i]
  BY <1>0, <1>1 DEF ResultsOf
<1>3. \A stage : ResultsOf(q, stage)' = IF stage = s THEN ResultsOf(q, stage) \cup {n} ELSE ResultsOf(q, stage)
  <2>. SUFFICES ASSUME NEW stage
                PROVE  ResultsOf(q, stage)' = IF stage = s THEN ResultsOf(q, stage) \cup {n} ELSE ResultsOf(q, stage)
    OBVIOUS
  <2>1. /\ ResultsOf(q, stage)' = {i \in 1 .. n : steps'[q][i].stage = stage /\ steps'[q][i].outcome # None}
        /\ ResultsOf(q, stage) = {i \in 1 .. n : steps[q][i].stage = stage /\ steps[q][i].outcome # None}
    BY <1>0, <1>1 DEF ResultsOf
  <2>2. worker[w].outcome # None
    BY <1>1, NameAssumption DEF Outcomes
  <2>3. \A i \in 1 .. n : i < n \/ i = n
    BY <1>1
  <2>. QED
    BY <1>1, <2>1, <2>2, <2>3
<1>4. \A stage, i : stage # s /\ Newest(q, stage, i) => Newest(q, stage, i)' /\ steps'[q][i] = steps[q][i] /\ i < n
  BY <1>2, <1>3 DEF Newest
<1>5. Newest(q, s, n)'
  BY <1>1, <1>2, <1>3 DEF Newest
<1>6. Built(q) /\ s # "build" => Built(q)'
  BY <1>0, <1>1, <1>4 DEF Built
<1>7. Evaluated(q) /\ s \notin {"build", "evaluate"} => Evaluated(q)'
  BY <1>0, <1>1, <1>4 DEF Evaluated
<1>8. ASSUME run'[q].stage = "evaluate" PROVE Built(q)'
  <2>1. s = "evaluate" \/ (s = "build" /\ worker[w].outcome = "succeeded")
    BY <1>0, <1>1, <1>8 DEF Stages, validExecutionTransition, NextStage, Outcomes, EffectStages
  <2>2. CASE s = "build" /\ worker[w].outcome = "succeeded"
    BY <1>0, <1>1, <1>5, <2>2 DEF Built
  <2>3. CASE s = "evaluate"
    BY <1>0, <1>6, <2>3 DEF StageEarned
  <2>. QED
    BY <2>1, <2>2, <2>3
<1>9. ASSUME run'[q].stage \in {"deliver", "verify_delivery"} PROVE Evaluated(q)'
  <2>1. s \in {"deliver", "verify_delivery"} \/ (s = "evaluate" /\ worker[w].outcome = "succeeded")
    BY <1>0, <1>1, <1>9 DEF Stages, validExecutionTransition, NextStage, Outcomes, EffectStages
  <2>2. CASE s = "evaluate" /\ worker[w].outcome = "succeeded"
    <3>1. PICK b \in 1 .. n : Newest(q, "build", b) /\ worker[w].digest = steps[q][b].digest
      BY <1>0, <1>1, <2>2 DEF VerdictFresh
    <3>2. PICK c \in 1 .. n : Newest(q, "build", c) /\ steps[q][c].outcome = "succeeded"
      BY <1>0, <2>2 DEF StageEarned, Built
    <3>3. b = c
      BY <3>1, <3>2, NewestIsMax
    <3>4. Newest(q, "build", b)' /\ steps'[q][b] = steps[q][b] /\ b < n
      BY <1>4, <2>2, <3>1
    <3>. QED
      BY <1>1, <1>5, <2>2, <3>1, <3>2, <3>3, <3>4 DEF Evaluated
  <2>3. CASE s \in {"deliver", "verify_delivery"}
    BY <1>0, <1>7, <2>3 DEF StageEarned
  <2>. QED
    BY <2>1, <2>2, <2>3
<1>. QED
  BY <1>8, <1>9 DEF StageEarned

\* A worker has a verdict because it had it, or because it was judged just now.
LEMMA SubmittedBy ==
    ASSUME TypeOK, [Next]_vars, NEW v \in Workers, worker'[v].pc = "submitted"
    PROVE  \/ worker'[v] = worker[v]
           \/ \E r \in Runs, o \in Outcomes, d \in Patches \cup {None}, t \in TokenCounts \cup {0} :
                 SubmitResult(v, r, o, d, t)
<1>. DEFINE Goal == \/ worker'[v] = worker[v]
                    \/ \E r \in Runs, o \in Outcomes, d \in Patches \cup {None}, t \in TokenCounts \cup {0} :
                          SubmitResult(v, r, o, d, t)
<1>1. ASSUME NEW w \in Workers, NEW rec, Becomes(w, rec), rec.pc # "submitted" PROVE Goal
  BY <1>1 DEF Becomes, TypeOK
<1>2. ASSUME NEW w \in Workers, GivesUp(w) PROVE Goal
  BY <1>1, <1>2 DEF GivesUp, IdleWorker
<1>3. ASSUME NEW r \in Runs, RunStep(r) PROVE Goal
  BY <1>3
  DEF RunStep, CountActiveRuns, InsertExecution, OwnerReads, Control, Pause, Cancel, Halts, Resume,
      Reconcile, ControlRefused, Decides, LeaseExpires, DeadlinePasses, HeadsChange, OwnerRevoked
<1>4. ASSUME NEW w \in Workers, NEW r \in Runs,
             \/ ClaimBlocked(w, r) \/ ClaimRefused(w, r) \/ ResultNotTaken(w, r) \/ LeaseLost(w, r)
      PROVE  Goal
  BY <1>2, <1>4 DEF ClaimBlocked, ClaimRefused, ResultNotTaken, LeaseLost
<1>5. ASSUME NEW w \in Workers, NEW r \in Runs, BeginClaim(w, r) PROVE Goal
  BY <1>1, <1>5 DEF BeginClaim, IdleWorker
<1>6. ASSUME NEW w \in Workers, NEW r \in Runs, ClaimGranted(w, r) PROVE Goal
  BY <1>6, ClaimingWorker
<1>7. ASSUME NEW w \in Workers, NEW r \in Runs, NEW c \in Contexts, BindContext(w, r, c) PROVE Goal
  BY <1>7 DEF BindContext, Becomes, TypeOK, WorkerRecord
<1>8. ASSUME NEW w \in Workers, NEW r \in Runs, NEW k \in Queries, ReserveSource(w, r, k) PROVE Goal
  BY <1>8 DEF ReserveSource
<1>9. ASSUME NEW w \in Workers, NEW r \in Runs, NEW o \in Outcomes, NEW d \in Patches \cup {None},
             NEW t \in TokenCounts \cup {0}, SubmitResult(w, r, o, d, t)
      PROVE  Goal
  <2>1. CASE v = w
    BY <1>9, <2>1
  <2>2. CASE v # w
    BY <1>9, <2>2 DEF SubmitResult, Becomes, TypeOK
  <2>. QED
    BY <2>1, <2>2
<1>10. ASSUME NEW w \in Workers, NEW r \in Runs, CommitResult(w, r) PROVE Goal
  BY <1>2, <1>10 DEF CommitResult
<1>11. ASSUME NEW w \in Workers, Crash(w) PROVE Goal
  BY <1>2, <1>11 DEF Crash
<1>12. CASE UNCHANGED vars
  BY <1>12 DEF vars
<1>. HIDE DEF Goal
<1>13. ASSUME NEW w \in Workers, NEW r \in Runs, WorkerStep(w, r) PROVE Goal
  BY <1>4, <1>5, <1>6, <1>7, <1>8, <1>9, <1>10, <1>13 DEF WorkerStep
<1>14. ASSUME Next PROVE Goal
  BY <1>3, <1>11, <1>13, <1>14 DEF Next
<1>. QED
  BY <1>12, <1>14 DEF Goal

\* An evaluation is judged on the newest candidate, and no other candidate can
\* be built while its step is open (validateExecutionResult, ClaimExecution).
LEMMA NextVerdictFresh ==
    ASSUME Inv, CandidateInv, [Next]_vars, NEW v \in Workers
    PROVE  VerdictFresh(v)'
<1>1. /\ TypeOK /\ SubmittedWhole /\ LeasesDistinct /\ \A q \in Runs : RunSound(q)
  BY SoundRuns DEF Inv
<1>2. SUFFICES ASSUME worker'[v].pc = "submitted", worker'[v].outcome = "succeeded",
                      NEW r, r = worker'[v].run, worker'[v].step = StepNumber(r)',
                      InFlight(r)', run'[r].stage = "evaluate"
               PROVE  \E b \in 1 .. StepNumber(r)' :
                         Newest(r, "build", b)' /\ worker'[v].digest = steps'[r][b].digest
  BY DEF VerdictFresh
<1>3. ASSUME NEW p \in Runs, NEW o \in Outcomes, NEW d \in Patches \cup {None},
             NEW t \in TokenCounts \cup {0}, SubmitResult(v, p, o, d, t)
      PROVE  \E b \in 1 .. StepNumber(r)' :
                Newest(r, "build", b)' /\ worker'[v].digest = steps'[r][b].digest
  <2>1. worker[v] \in WorkerRecord /\ worker[v].run = p /\ steps' = steps /\ run' = run
    BY <1>1, <1>3 DEF SubmitResult, TypeOK
  <2>2. PICK verdict \in validateExecutionResult(p, o, d) :
           Becomes(v, [worker[v] EXCEPT !.pc = "submitted", !.outcome = o, !.digest = d,
                                        !.tokens = t, !.status = verdict[1], !.stage = verdict[2]])
    BY <1>3, Zenon DEF SubmitResult
  <2>. DEFINE rec == [worker[v] EXCEPT !.pc = "submitted", !.outcome = o, !.digest = d,
                                       !.tokens = t, !.status = verdict[1], !.stage = verdict[2]]
  <2>3. worker'[v] = rec
    BY <1>1, <2>2 DEF Becomes, TypeOK
  <2>4. rec.run = worker[v].run /\ rec.outcome = o /\ rec.digest = d
    BY <2>1 DEF WorkerRecord
  <2>5. r = p /\ o = "succeeded" /\ worker'[v].digest = d /\ run[p].stage = "evaluate"
    <3>. HIDE DEF rec
    <3>. QED
      BY <1>2, <2>1, <2>3, <2>4
  <2>6. d = LatestExecutionResult(p, "build")
    BY <2>2, <2>5 DEF validateExecutionResult
  <2>7. PICK b \in 1 .. StepNumber(p) : Newest(p, "build", b)
    BY <2>5 DEF CandidateInv, StageEarned, Built
  <2>8. d = steps[p][b].digest
    BY <1>1, <2>6, <2>7, NewestIsMax
  <2>. QED
    BY <2>1, <2>5, <2>7, <2>8 DEF Newest, ResultsOf, StepNumber
<1>4. ASSUME worker'[v] = worker[v]
      PROVE  \E b \in 1 .. StepNumber(r)' :
                Newest(r, "build", b)' /\ worker'[v].digest = steps'[r][b].digest
  <2>1. r \in Runs /\ worker[v].step \in 1 .. StepNumber(r) /\ StepNumber(r) \in Nat
    BY <1>1, <1>2, <1>4 DEF LeasesDistinct, AtWork, TypeOK, StepNumber
  <2>2. \A w \in Workers : ~CommitResult(w, r)
    <3>. SUFFICES ASSUME NEW w \in Workers, CommitResult(w, r) PROVE FALSE
      OBVIOUS
    <3>1. PICK n : n = StepNumber(r)
      OBVIOUS
    <3>2. StepNumber(r)' = n /\ steps'[r][n].outcome = worker[w].outcome /\ worker[w].outcome \in Outcomes
      BY <1>1, <2>1, <3>1, CommittedResult
    <3>. QED
      BY <1>2, <3>2, NameAssumption DEF InFlight, CurrentStep, Outcomes
  <2>3. ResultsKept(r)
    BY <1>1, <2>1, <2>2, StepKeepsResults
  <2>4. StepNumber(r)' = StepNumber(r) /\ InFlight(r)
    BY <1>2, <1>4, <2>1, <2>3 DEF ResultsKept
  <2>5. PICK b \in 1 .. StepNumber(r) : Newest(r, "build", b) /\ worker[v].digest = steps[r][b].digest
    BY <1>2, <1>4, <2>3, <2>4 DEF CandidateInv, VerdictFresh, ResultsKept
  <2>6. ResultsOf(r, "build")' = ResultsOf(r, "build") /\ steps'[r][b] = steps[r][b]
    BY <2>3, <2>5 DEF Newest, ResultsKept
  <2>7. Newest(r, "build", b)'
    BY <2>5, <2>6 DEF Newest
  <2>. QED
    BY <1>4, <2>4, <2>5, <2>6, <2>7
<1>. QED
  BY <1>1, <1>2, <1>3, <1>4, SubmittedBy

LEMMA NextCandidate == Inv /\ CandidateInv /\ [Next]_vars => CandidateInv'
<1>. SUFFICES ASSUME Inv, CandidateInv, [Next]_vars PROVE CandidateInv'
  OBVIOUS
<1>1. TypeOK /\ SubmittedWhole /\ \A q \in Runs : RunSound(q)
  BY SoundRuns DEF Inv
<1>2. ASSUME NEW q \in Runs PROVE StageEarned(q)'
  <2>1. StageEarned(q)
    BY DEF CandidateInv
  <2>2. CASE \E w \in Workers : CommitResult(w, q)
    BY <1>1, <2>1, <2>2, CommitEarned DEF CandidateInv
  <2>3. CASE \A w \in Workers : ~CommitResult(w, q)
    BY <1>1, <2>1, <2>3, StepKeepsResults, KeptResultsEarned
  <2>. QED
    BY <2>2, <2>3
<1>. QED
  BY <1>2, NextVerdictFresh DEF CandidateInv

\* From delivery on, the newest candidate is the one the newest evaluation
\* accepted, whatever repairs, blocks, pauses, reclaims and late results lie
\* between them (CompleteExecution, validateExecutionResult).
THEOREM DeliveredWasEvaluated == Spec => []DeliveredCandidateWasEvaluated
<1>1. Init => CandidateInv
  <2>. SUFFICES ASSUME Init PROVE CandidateInv
    OBVIOUS
  <2>1. \A q \in Runs : run[q].stage \notin {"evaluate", "deliver", "verify_delivery"}
    BY DEF Init, FirstStage
  <2>2. \A w \in Workers : worker[w].pc # "submitted"
    BY DEF Init, IdleWorker
  <2>. QED
    BY <2>1, <2>2 DEF CandidateInv, StageEarned, VerdictFresh
<1>2. Inv /\ CandidateInv => DeliveredCandidateWasEvaluated
  <2>. SUFFICES ASSUME TypeOK, NEW q \in Runs, Evaluated(q)
                PROVE  LET b == Max(ResultsOf(q, "build"))
                           e == Max(ResultsOf(q, "evaluate"))
                       IN  /\ ResultsOf(q, "build") # {} /\ ResultsOf(q, "evaluate") # {}
                           /\ b < e
                           /\ steps[q][b].outcome = "succeeded" /\ steps[q][e].outcome = "succeeded"
                           /\ steps[q][e].digest = steps[q][b].digest
    BY DEF Inv, CandidateInv, StageEarned, DeliveredCandidateWasEvaluated
  <2>1. PICK b \in 1 .. StepNumber(q), e \in 1 .. StepNumber(q) :
           /\ Newest(q, "build", b) /\ Newest(q, "evaluate", e) /\ b < e
           /\ steps[q][b].outcome = "succeeded" /\ steps[q][e].outcome = "succeeded"
           /\ steps[q][e].digest = steps[q][b].digest
    BY DEF Evaluated
  <2>2. /\ ResultsOf(q, "build") # {} /\ Max(ResultsOf(q, "build")) = b
        /\ ResultsOf(q, "evaluate") # {} /\ Max(ResultsOf(q, "evaluate")) = e
    BY <2>1, NewestIsMax
  <2>. QED
    BY <2>1, <2>2
<1>. QED
  BY <1>1, <1>2, NextCandidate, Invariance, PTL DEF Spec

-----------------------------------------------------------------------------
(* Resources *)

\* Only finitely many runs hold a lease, so their number can be counted.
LeasesInv == IsFiniteSet({q \in Runs : Leased(q)}) /\ ResourceWithinConcurrency

\* Nothing but a granted claim gives a run a lease, or another stage to one.
LEMMA LeaseNotGiven ==
    ASSUME TypeOK, SubmittedWhole, [Next]_vars, NEW q \in Runs,
           \A w \in Workers : ~ClaimGranted(w, q), Leased(q)'
    PROVE  Leased(q) /\ CurrentStep(q)'.stage = CurrentStep(q).stage
<1>1. Len(steps[q]) \in Nat
  BY DEF TypeOK
<1>2. CASE \E w \in Workers : CommitResult(w, q)
  <2>1. PICK w \in Workers : CommitResult(w, q)
    BY <1>2
  <2>2. Len(steps'[q]) = Len(steps[q]) /\ steps'[q][Len(steps[q])].outcome # None
    BY <2>1, CommitEffect
  <2>. QED
    BY <2>2 DEF Leased, InFlight, CurrentStep, StepNumber
<1>3. CASE \A w \in Workers : ~CommitResult(w, q)
  <2>1. StepsKept(q)
    BY <1>3, StepKeepsRows DEF RowsKept
  <2>2. Len(steps'[q]) = Len(steps[q]) /\ Len(steps[q]) \in 1 .. Len(steps[q])
    BY <1>1, <2>1 DEF StepsKept, Leased, InFlight, StepNumber
  <2>. QED
    BY <2>1, <2>2 DEF StepsKept, Leased, InFlight, CurrentStep, StepNumber
<1>. QED
  BY <1>2, <1>3

\* A granted claim leases its own run, at the run's stage, and no other.
LEMMA ClaimLeasesOne ==
    ASSUME TypeOK, StepHistorySound, NEW w \in Workers, NEW r \in Runs, ClaimGranted(w, r)
    PROVE  /\ ~Leased(r) /\ ResourceFree(r)
           /\ CurrentStep(r)'.stage = run[r].stage
           /\ \A q \in Runs \ {r} : steps'[q] = steps[q]
<1>1. ~Leased(r) /\ ResourceFree(r) /\ steps' = [steps EXCEPT ![r] = ClaimedSteps(r)]
  BY DEF ClaimGranted, Grantable
<1>2. \A q \in Runs \ {r} : steps'[q] = steps[q]
  BY <1>1 DEF TypeOK
<1>3. CASE InFlight(r)
  <2>1. Len(steps'[r]) = Len(steps[r]) /\ steps'[r][Len(steps[r])] = LeasedStep(steps[r][Len(steps[r])])
    BY <1>3, ClaimEffect
  <2>2. CurrentStep(r) \in StepRecord /\ CurrentStep(r).stage = run[r].stage
    BY <1>3, CurrentStepType DEF StepHistorySound
  <2>3. LeasedStep(CurrentStep(r)).stage = CurrentStep(r).stage
    BY <2>2 DEF LeasedStep, StepRecord
  <2>. QED
    BY <1>1, <1>2, <2>1, <2>2, <2>3 DEF CurrentStep, StepNumber
<1>4. CASE ~InFlight(r)
  <2>1. /\ Len(steps'[r]) = Len(steps[r]) + 1
        /\ steps'[r][Len(steps[r]) + 1] = LeasedStep(NewStep(run[r].stage))
    BY <1>4, ClaimEffect
  <2>2. LeasedStep(NewStep(run[r].stage)).stage = run[r].stage
    BY DEF LeasedStep, NewStep
  <2>. QED
    BY <1>1, <1>2, <2>1, <2>2 DEF CurrentStep, StepNumber
<1>. QED
  BY <1>3, <1>4

\* The claiming transaction counts under the resource's lock, so the new lease
\* is within its own limit and within that of every lease already held.
LEMMA NextLeases == Inv /\ LeasesInv /\ [Next]_vars => LeasesInv'
<1>. SUFFICES ASSUME Inv, LeasesInv, [Next]_vars PROVE LeasesInv'
  OBVIOUS
<1>1. /\ TypeOK /\ SubmittedWhole /\ StepHistorySound
      /\ IsFiniteSet({q \in Runs : Leased(q)}) /\ ResourceWithinConcurrency
  BY DEF Inv, LeasesInv
<1>2. ASSUME NEW key
      PROVE  /\ IsFiniteSet(Holders(key)) /\ Cardinality(Holders(key)) \in Nat
             /\ \A q \in Holders(key) : q \in Runs /\ Cardinality(Holders(key)) <= Concurrency[q]
  <2>1. Holders(key) \subseteq {q \in Runs : Leased(q)}
    BY DEF Holders
  <2>2. \A q \in Holders(key) : q \in Runs /\ Cardinality(Holders(key)) <= Concurrency[q]
    BY <1>1 DEF Holders, ResourceWithinConcurrency
  <2>. QED
    BY <1>1, <2>1, <2>2, FS_Subset, FS_CardinalityType
<1>3. SUFFICES
        /\ IsFiniteSet({q \in Runs : Leased(q)})'
        /\ \A q \in Runs : Leased(q)' =>
              Cardinality(Holders(ResourceKey(CurrentStep(q).stage))') <= Concurrency[q]
  BY DEF LeasesInv, ResourceWithinConcurrency
<1>4. \A q \in Runs : Concurrency[q] \in Nat
  BY BudgetAssumption
<1>5. CASE \A w \in Workers, q \in Runs : ~ClaimGranted(w, q)
  <2>1. \A q \in Runs : Leased(q)' => Leased(q) /\ CurrentStep(q)'.stage = CurrentStep(q).stage
    BY <1>1, <1>5, LeaseNotGiven
  <2>2. {q \in Runs : Leased(q)'} \subseteq {q \in Runs : Leased(q)}
    BY <2>1
  <2>3. ASSUME NEW q \in Runs, Leased(q)'
        PROVE  Cardinality(Holders(ResourceKey(CurrentStep(q).stage))') <= Concurrency[q]
    <3>1. PICK key : key = ResourceKey(CurrentStep(q).stage)
      OBVIOUS
    <3>2. ResourceKey(CurrentStep(q).stage)' = key /\ q \in Holders(key)
      BY <2>1, <2>3, <3>1 DEF Holders, ResourceKey
    <3>3. Holders(key)' \subseteq Holders(key)
      BY <2>1 DEF Holders, ResourceKey
    <3>4. IsFiniteSet(Holders(key)') /\ Cardinality(Holders(key)') <= Cardinality(Holders(key))
      BY <1>2, <3>3, FS_Subset
    <3>5. Cardinality(Holders(key)') \in Nat
      BY <3>4, FS_CardinalityType
    <3>6. Holders(ResourceKey(CurrentStep(q).stage))' = Holders(key)'
      BY <3>2 DEF Holders
    <3>. QED
      BY <1>2, <1>4, <3>2, <3>4, <3>5, <3>6
  <2>. QED
    BY <1>1, <2>2, <2>3, FS_Subset
<1>6. ASSUME NEW w \in Workers, NEW r \in Runs, ClaimGranted(w, r)
      PROVE  /\ IsFiniteSet({q \in Runs : Leased(q)})'
             /\ \A q \in Runs : Leased(q)' =>
                   Cardinality(Holders(ResourceKey(CurrentStep(q).stage))') <= Concurrency[q]
  <2>1. /\ ~Leased(r) /\ ResourceFree(r) /\ CurrentStep(r)'.stage = run[r].stage
        /\ \A q \in Runs \ {r} : steps'[q] = steps[q]
    BY <1>1, <1>6, ClaimLeasesOne
  <2>2. ASSUME NEW q \in Runs \ {r}
        PROVE  (Leased(q)' <=> Leased(q)) /\ CurrentStep(q)' = CurrentStep(q)
    BY <2>1 DEF Leased, InFlight, CurrentStep, StepNumber
  <2>3. PICK mine : mine = ResourceKey(run[r].stage)
    OBVIOUS
  <2>4. \A q \in Holders(mine) \cup {r} : Cardinality(Holders(mine)) < Concurrency[q]
    BY <2>1, <2>3 DEF ResourceFree
  <2>5. {q \in Runs : Leased(q)'} \subseteq {q \in Runs : Leased(q)} \cup {r}
    BY <2>2
  <2>6. IsFiniteSet({q \in Runs : Leased(q)})'
    BY <1>1, <2>5, FS_AddElement, FS_Subset
  <2>7. ResourceKey(CurrentStep(r).stage)' = mine
    BY <2>1, <2>3 DEF ResourceKey
  <2>8. /\ IsFiniteSet(Holders(mine)') /\ Cardinality(Holders(mine)') \in Nat
        /\ Cardinality(Holders(mine)') <= Cardinality(Holders(mine)) + 1
    <3>1. r \notin Holders(mine)
      BY <2>1 DEF Holders
    <3>2. Holders(mine)' \subseteq Holders(mine) \cup {r}
      BY <2>2 DEF Holders, ResourceKey
    <3>3. /\ IsFiniteSet(Holders(mine) \cup {r})
          /\ Cardinality(Holders(mine) \cup {r}) = Cardinality(Holders(mine)) + 1
      BY <1>2, <3>1, FS_AddElement
    <3>. QED
      BY <3>2, <3>3, FS_Subset, FS_CardinalityType
  <2>9. ASSUME NEW q \in Runs, Leased(q)'
        PROVE  Cardinality(Holders(ResourceKey(CurrentStep(q).stage))') <= Concurrency[q]
    <3>1. CASE q = r
      <4>1. Holders(ResourceKey(CurrentStep(q).stage))' = Holders(mine)'
        BY <2>7, <3>1 DEF Holders
      <4>. QED
        BY <1>2, <1>4, <2>4, <2>8, <3>1, <4>1
    <3>2. CASE q # r
      <4>1. PICK key : key = ResourceKey(CurrentStep(q).stage)
        OBVIOUS
      <4>2. ResourceKey(CurrentStep(q).stage)' = key /\ q \in Holders(key)
        BY <2>2, <2>9, <3>2, <4>1 DEF Holders, ResourceKey
      <4>3. Holders(ResourceKey(CurrentStep(q).stage))' = Holders(key)'
        BY <4>2 DEF Holders
      <4>4. CASE key = mine
        BY <1>2, <1>4, <2>4, <2>8, <4>2, <4>3, <4>4
      <4>5. CASE key # mine
        <5>1. Holders(key)' \subseteq Holders(key)
          BY <2>2, <2>7, <4>5 DEF Holders, ResourceKey
        <5>2. IsFiniteSet(Holders(key)') /\ Cardinality(Holders(key)') <= Cardinality(Holders(key))
          BY <1>2, <5>1, FS_Subset
        <5>3. Cardinality(Holders(key)') \in Nat
          BY <5>2, FS_CardinalityType
        <5>. QED
          BY <1>2, <1>4, <4>2, <4>3, <5>2, <5>3
      <4>. QED
        BY <4>4, <4>5
    <3>. QED
      BY <3>1, <3>2
  <2>. QED
    BY <2>6, <2>9
<1>. QED
  BY <1>5, <1>6

\* Whatever packages the runs were admitted with, the runs that hold a lease of
\* one resource are never more than any of their packages allows
\* (ClaimExecution counts the live leases of the resource before it grants).
THEOREM ResourceBound == Spec => []ResourceWithinConcurrency
<1>1. Init => LeasesInv
  <2>. SUFFICES ASSUME Init PROVE LeasesInv
    OBVIOUS
  <2>1. \A q \in Runs : ~Leased(q)
    BY DEF Init, Leased, InFlight, StepNumber
  <2>2. {q \in Runs : Leased(q)} = {}
    BY <2>1
  <2>. QED
    BY <2>1, <2>2, FS_EmptySet DEF LeasesInv, ResourceWithinConcurrency
<1>2. LeasesInv => ResourceWithinConcurrency
  BY DEF LeasesInv
<1>. QED
  BY <1>1, <1>2, NextLeases, Invariance, PTL DEF Spec

-----------------------------------------------------------------------------
(* Sums *)

\* Induction on the natural numbers, for a set.
LEMMA NatSetInduction ==
    ASSUME NEW S, 0 \in S, \A n \in Nat : n \in S => n + 1 \in S
    PROVE  Nat \subseteq S
<1>. DEFINE R == {ss \in Nat \X Nat : ss[1] < ss[2]}
<1>1. IsWellFoundedOn(R, Nat)
  BY NatLessThanWellFounded DEF OpToRel
<1>. SUFFICES ASSUME Nat \ S # {} PROVE FALSE
  OBVIOUS
<1>2. PICK x \in Nat \ S : \A y \in Nat \ S : ~(<<y, x>> \in R)
  BY <1>1, WFMin
<1>3. x # 0 /\ x - 1 \in Nat /\ x - 1 < x
  BY <1>2
<1>4. <<x - 1, x>> \in R
  BY <1>2, <1>3
<1>5. x - 1 \in S
  BY <1>2, <1>3, <1>4
<1>. QED
  BY <1>2, <1>3, <1>5

\* The element a fold takes first.
First(s) == CHOOSE x \in s : TRUE

\* f sums g over the sets of D, taking one element after the other.
Sums(f, D, g) == f = [s \in D |-> IF s = {} THEN 0 ELSE g[First(s)] + f[s \ {First(s)}]]

LEMMA FirstIsIn ==
    ASSUME NEW s, s # {}
    PROVE  First(s) \in s
<1>1. \E x \in s : TRUE
  OBVIOUS
<1>. QED
  BY <1>1, Zenon DEF First

\* One element less.
LEMMA Smaller ==
    ASSUME NEW S, IsFiniteSet(S), NEW s \in SUBSET S, NEW x \in s
    PROVE  /\ s \ {x} \in SUBSET S
           /\ Cardinality(s) \in Nat /\ Cardinality(s \ {x}) \in Nat
           /\ Cardinality(s \ {x}) = Cardinality(s) - 1 /\ Cardinality(s) # 0
<1>1. IsFiniteSet(s)
  BY FS_Subset
<1>2. IsFiniteSet(s \ {x}) /\ Cardinality(s \ {x}) = Cardinality(s) - 1
  BY <1>1, FS_RemoveElement
<1>3. Cardinality(s) \in Nat /\ Cardinality(s \ {x}) \in Nat
  BY <1>1, <1>2, FS_CardinalityType
<1>. QED
  BY <1>2, <1>3

\* The subsets of at most n elements.
UpTo(S, n) == {s \in SUBSET S : Cardinality(s) <= n}

\* f sums g over the subsets of S.
SumsOver(f, S, g) == Sums(f, SUBSET S, g)

\* Such a function exists, up to every size.
LEMMA SumUpToExists ==
    ASSUME NEW S, IsFiniteSet(S), NEW g, NEW n \in Nat
    PROVE  \E f : Sums(f, UpTo(S, n), g)
<1>. DEFINE N == {m \in Nat : \E f : Sums(f, UpTo(S, m), g)}
<1>0. \A s \in SUBSET S : Cardinality(s) \in Nat /\ (Cardinality(s) = 0 <=> s = {})
  BY FS_Subset, FS_CardinalityType, FS_EmptySet
<1>1. 0 \in N
  <2>1. \A s \in UpTo(S, 0) : s = {}
    BY <1>0 DEF UpTo
  <2>2. PICK f : f = [s \in UpTo(S, 0) |-> 0]
    OBVIOUS
  <2>3. f = [s \in UpTo(S, 0) |-> IF s = {} THEN 0 ELSE g[First(s)] + f[s \ {First(s)}]]
    BY <2>1, <2>2
  <2>. QED
    BY <2>3 DEF Sums
<1>2. ASSUME NEW m \in Nat, m \in N PROVE m + 1 \in N
  <2>1. PICK f : Sums(f, UpTo(S, m), g)
    BY <1>2
  <2>2. PICK h : h = [s \in UpTo(S, m + 1) |-> IF s = {} THEN 0 ELSE g[First(s)] + f[s \ {First(s)}]]
    OBVIOUS
  <2>3. ASSUME NEW s \in UpTo(S, m) PROVE s \in UpTo(S, m + 1) /\ h[s] = f[s]
    <3>1. s \in UpTo(S, m + 1)
      BY <1>0 DEF UpTo
    <3>2. f[s] = IF s = {} THEN 0 ELSE g[First(s)] + f[s \ {First(s)}]
      BY <2>1 DEF Sums
    <3>. QED
      BY <2>2, <3>1, <3>2
  <2>4. ASSUME NEW s \in UpTo(S, m + 1)
        PROVE  h[s] = IF s = {} THEN 0 ELSE g[First(s)] + h[s \ {First(s)}]
    <3>1. CASE s = {}
      BY <2>2, <3>1
    <3>2. CASE s # {}
      <4>1. First(s) \in s /\ s \in SUBSET S
        BY <3>2, FirstIsIn DEF UpTo
      <4>2. s \ {First(s)} \in UpTo(S, m)
        BY <4>1, Smaller DEF UpTo
      <4>3. h[s \ {First(s)}] = f[s \ {First(s)}]
        BY <2>3, <4>2
      <4>. QED
        BY <2>2, <3>2, <4>3
    <3>. QED
      BY <3>1, <3>2
  <2>5. h = [s \in UpTo(S, m + 1) |-> h[s]]
    BY <2>2
  <2>6. h = [s \in UpTo(S, m + 1) |-> IF s = {} THEN 0 ELSE g[First(s)] + h[s \ {First(s)}]]
    BY <2>4, <2>5
  <2>. QED
    BY <2>6 DEF Sums
<1>3. Nat \subseteq N
  <2>. HIDE DEF N
  <2>. QED
    BY <1>1, <1>2, NatSetInduction
<1>. QED
  BY <1>3

LEMMA SumExists ==
    ASSUME NEW S, IsFiniteSet(S), NEW g
    PROVE  \E f : SumsOver(f, S, g)
<1>1. PICK n \in Nat : n = Cardinality(S)
  BY FS_CardinalityType
<1>2. UpTo(S, n) = SUBSET S
  BY <1>1, FS_Subset DEF UpTo
<1>3. \E f : Sums(f, UpTo(S, n), g)
  BY <1>1, SumUpToExists
<1>. QED
  BY <1>2, <1>3 DEF SumsOver

\* A sum of natural numbers is one, taken in any order.
LEMMA SumTakesAny ==
    ASSUME NEW S, IsFiniteSet(S), NEW g, \A x \in S : g[x] \in Nat, NEW f, SumsOver(f, S, g)
    PROVE  \A s \in SUBSET S : f[s] \in Nat /\ \A x \in s : f[s] = g[x] + f[s \ {x}]
<1>. DEFINE Any(s) == f[s] \in Nat /\ \A x \in s : f[s] = g[x] + f[s \ {x}]
            N == {m \in Nat : \A s \in SUBSET S : Cardinality(s) <= m => Any(s)}
<1>0. \A s \in SUBSET S : Cardinality(s) \in Nat /\ (Cardinality(s) = 0 <=> s = {})
  BY FS_Subset, FS_CardinalityType, FS_EmptySet
<1>1. f[{}] = 0 /\ \A s \in SUBSET S : s # {} => f[s] = g[First(s)] + f[s \ {First(s)}]
  BY DEF SumsOver, Sums
<1>2. 0 \in N
  <2>1. \A s \in SUBSET S : Cardinality(s) <= 0 => s = {}
    BY <1>0
  <2>2. Any({})
    BY <1>1
  <2>. QED
    BY <2>1, <2>2
<1>3. ASSUME NEW m \in Nat, m \in N PROVE m + 1 \in N
  <2>0. \A s \in SUBSET S : Cardinality(s) <= m => Any(s)
    BY <1>3
  <2>. HIDE DEF Any
  <2>. SUFFICES ASSUME NEW s \in SUBSET S, Cardinality(s) <= m + 1 PROVE Any(s)
    OBVIOUS
  <2>. USE DEF Any
  <2>1. CASE s = {}
    BY <1>1, <2>1
  <2>2. CASE s # {}
    <3>1. PICK y : y = First(s)
      OBVIOUS
    <3>2. y \in s /\ y \in S
      BY <2>2, <3>1, FirstIsIn
    <3>3. \A x \in s : s \ {x} \in SUBSET S /\ Cardinality(s \ {x}) <= m
      BY <1>0, Smaller
    <3>4. \A x \in s : Any(s \ {x})
      BY <2>0, <3>3
    <3>5. f[s] = g[y] + f[s \ {y}] /\ f[s] \in Nat
      <4>1. f[s] = g[y] + f[s \ {y}]
        BY <1>1, <2>2, <3>1
      <4>2. g[y] \in Nat /\ f[s \ {y}] \in Nat
        BY <3>2, <3>4
      <4>. QED
        BY <4>1, <4>2
    <3>6. ASSUME NEW x \in s PROVE f[s] = g[x] + f[s \ {x}]
      <4>1. CASE x = y
        BY <3>5, <4>1
      <4>2. CASE x # y
        <5>1. PICK rest : rest = s \ {x, y}
          OBVIOUS
        <5>2. rest \in SUBSET S /\ rest = (s \ {y}) \ {x} /\ rest = (s \ {x}) \ {y}
          BY <5>1
        <5>3. f[s \ {y}] = g[x] + f[rest]
          BY <3>2, <3>4, <4>2, <5>2
        <5>4. f[s \ {x}] = g[y] + f[rest]
          BY <3>2, <3>4, <4>2, <5>2
        <5>5. Cardinality(rest) <= m /\ f[rest] \in Nat
          <6>1. Cardinality((s \ {y}) \ {x}) <= m
            <7>1. PICK t \in SUBSET S : t = s \ {y}
              BY <3>2, <3>3
            <7>2. x \in t /\ Cardinality(t) <= m
              BY <3>2, <3>3, <4>2, <7>1
            <7>3. Cardinality(t \ {x}) = Cardinality(t) - 1 /\ Cardinality(t) \in Nat
              BY <7>2, Smaller
            <7>. QED
              BY <7>1, <7>2, <7>3
          <6>. QED
            BY <2>0, <5>2, <6>1
        <5>6. g[x] \in Nat /\ g[y] \in Nat
          BY <3>2
        <5>7. g[y] + (g[x] + f[rest]) = g[x] + (g[y] + f[rest])
          BY <5>5, <5>6
        <5>. QED
          BY <3>5, <5>3, <5>4, <5>7
      <4>. QED
        BY <4>1, <4>2
    <3>. QED
      BY <3>5, <3>6
  <2>. QED
    BY <2>1, <2>2
<1>4. Nat \subseteq N
  <2>. HIDE DEF N
  <2>. QED
    BY <1>2, <1>3, NatSetInduction
<1>. QED
  BY <1>0, <1>4

\* Two sums over the same set of the same numbers are the same.
LEMMA SumsAgree ==
    ASSUME NEW S, IsFiniteSet(S), NEW T, NEW f, NEW g, NEW h, NEW k,
           SumsOver(f, S, g), SumsOver(h, T, k), NEW r, r \subseteq S, r \subseteq T,
           \A x \in r : g[x] = k[x]
    PROVE  f[r] = h[r]
<1>. DEFINE N == {m \in Nat : \A s \in SUBSET r : Cardinality(s) <= m => f[s] = h[s]}
<1>0. IsFiniteSet(r) /\ \A s \in SUBSET r : Cardinality(s) \in Nat /\ (Cardinality(s) = 0 <=> s = {})
  <2>1. IsFiniteSet(r)
    BY FS_Subset
  <2>. QED
    BY <2>1, FS_Subset, FS_CardinalityType, FS_EmptySet
<1>1. f[{}] = 0 /\ \A s \in SUBSET r : s # {} => f[s] = g[First(s)] + f[s \ {First(s)}]
  BY DEF SumsOver, Sums
<1>2. h[{}] = 0 /\ \A s \in SUBSET r : s # {} => h[s] = k[First(s)] + h[s \ {First(s)}]
  BY DEF SumsOver, Sums
<1>3. 0 \in N
  <2>1. \A s \in SUBSET r : Cardinality(s) <= 0 => s = {}
    BY <1>0
  <2>. QED
    BY <1>1, <1>2, <2>1
<1>4. ASSUME NEW m \in Nat, m \in N PROVE m + 1 \in N
  <2>. SUFFICES ASSUME NEW s \in SUBSET r, Cardinality(s) <= m + 1 PROVE f[s] = h[s]
    OBVIOUS
  <2>1. CASE s = {}
    BY <1>1, <1>2, <2>1
  <2>2. CASE s # {}
    <3>1. PICK y : y = First(s)
      OBVIOUS
    <3>2. y \in s /\ y \in r
      BY <2>2, <3>1, FirstIsIn
    <3>3. s \ {y} \in SUBSET r /\ Cardinality(s \ {y}) <= m
      BY <1>0, <3>2, Smaller
    <3>4. f[s \ {y}] = h[s \ {y}]
      BY <1>4, <3>3
    <3>. QED
      BY <1>1, <1>2, <2>2, <3>1, <3>2, <3>4
  <2>. QED
    BY <2>1, <2>2
<1>5. Nat \subseteq N
  <2>. HIDE DEF N
  <2>. QED
    BY <1>3, <1>4, NatSetInduction
<1>. QED
  BY <1>0, <1>5

\* The sum of the limits of finitely many queries.
LEMMA LimitsAreSummed ==
    ASSUME NEW R, IsFiniteSet(R)
    PROVE  \E f : SumLimits(R) = f[R] /\ SumsOver(f, R, [q \in R |-> q.limit])
<1>. DEFINE g == [q \in R |-> q.limit]
<1>1. PICK h : SumsOver(h, R, g)
  <2>. HIDE DEF g
  <2>. QED
    BY SumExists
<1>2. ASSUME NEW f
      PROVE  SumsOver(f, R, g) <=>
                 f = [s \in SUBSET R |-> IF s = {} THEN 0 ELSE First(s).limit + f[s \ {First(s)}]]
  <2>1. \A s \in SUBSET R : s # {} => g[First(s)] = First(s).limit
    BY FirstIsIn
  <2>. HIDE DEF g
  <2>. QED
    BY <2>1 DEF SumsOver, Sums
<1>. DEFINE f == CHOOSE f : f = [s \in SUBSET R |-> IF s = {} THEN 0 ELSE First(s).limit + f[s \ {First(s)}]]
<1>3. f = [s \in SUBSET R |-> IF s = {} THEN 0 ELSE First(s).limit + f[s \ {First(s)}]]
  <2>1. \E k : k = [s \in SUBSET R |-> IF s = {} THEN 0 ELSE First(s).limit + k[s \ {First(s)}]]
    BY <1>1, <1>2
  <2>. QED
    BY <2>1, Zenon
<1>4. SumLimits(R) = f[R]
  BY DEF SumLimits, MapThenSumSet, MapThenFoldSet, First
<1>. HIDE DEF f
<1>. QED
  BY <1>2, <1>3, <1>4

\* The sum over the steps of a run.
LEMMA RowsAreSummed ==
    ASSUME NEW st, NEW n \in Nat
    PROVE  \E f : /\ RowsReserved(st, n) = f[1 .. n]
                  /\ SumsOver(f, 1 .. n, [i \in 1 .. n |-> SumLimits(st[i].reserved)])
<1>. DEFINE R == 1 .. n
            g == [i \in R |-> SumLimits(st[i].reserved)]
<1>0. IsFiniteSet(R)
  BY FS_Interval
<1>1. PICK h : SumsOver(h, R, g)
  <2>. HIDE DEF g, R
  <2>. QED
    BY <1>0, SumExists
<1>2. ASSUME NEW f
      PROVE  SumsOver(f, R, g) <=>
                 f = [s \in SUBSET R |->
                        IF s = {} THEN 0 ELSE SumLimits(st[First(s)].reserved) + f[s \ {First(s)}]]
  <2>1. \A s \in SUBSET R : s # {} => g[First(s)] = SumLimits(st[First(s)].reserved)
    BY FirstIsIn
  <2>. HIDE DEF g
  <2>. QED
    BY <2>1 DEF SumsOver, Sums
<1>. DEFINE f == CHOOSE f : f = [s \in SUBSET R |->
                                   IF s = {} THEN 0 ELSE SumLimits(st[First(s)].reserved) + f[s \ {First(s)}]]
<1>3. f = [s \in SUBSET R |-> IF s = {} THEN 0 ELSE SumLimits(st[First(s)].reserved) + f[s \ {First(s)}]]
  <2>1. \E k : k = [s \in SUBSET R |->
                      IF s = {} THEN 0 ELSE SumLimits(st[First(s)].reserved) + k[s \ {First(s)}]]
    BY <1>1, <1>2
  <2>. QED
    BY <2>1, Zenon
<1>4. RowsReserved(st, n) = f[R]
  BY DEF RowsReserved, MapThenSumSet, MapThenFoldSet, First
<1>. HIDE DEF f
<1>. QED
  BY <1>2, <1>3, <1>4

LEMMA LimitsOfNone == SumLimits({}) = 0
<1>1. IsFiniteSet({})
  BY FS_EmptySet
<1>2. PICK f : SumLimits({}) = f[{}] /\ SumsOver(f, {}, [q \in {} |-> q.limit])
  BY <1>1, LimitsAreSummed
<1>. QED
  BY <1>2 DEF SumsOver, Sums

LEMMA LimitsOfOneMore ==
    ASSUME NEW R, IsFiniteSet(R), NEW q, q \notin R, \A p \in R \cup {q} : p.limit \in Nat
    PROVE  SumLimits(R) \in Nat /\ SumLimits(R \cup {q}) = q.limit + SumLimits(R)
<1>1. PICK T : T = R \cup {q}
  OBVIOUS
<1>2. IsFiniteSet(T) /\ T \ {q} = R /\ R \in SUBSET T /\ q \in T /\ T \in SUBSET T
  BY <1>1, FS_AddElement
<1>3. PICK k : k = [p \in T |-> p.limit]
  OBVIOUS
<1>4. PICK g : g = [p \in R |-> p.limit]
  OBVIOUS
<1>5. PICK h : SumLimits(T) = h[T] /\ SumsOver(h, T, k)
  BY <1>2, <1>3, LimitsAreSummed
<1>6. PICK f : SumLimits(R) = f[R] /\ SumsOver(f, R, g)
  BY <1>4, LimitsAreSummed
<1>7. \A p \in T : k[p] = p.limit /\ k[p] \in Nat
  BY <1>1, <1>3
<1>8. \A p \in R : g[p] = k[p]
  BY <1>1, <1>4, <1>7
<1>9. \A s \in SUBSET T : h[s] \in Nat /\ \A x \in s : h[s] = k[x] + h[s \ {x}]
  <2>1. \A p \in T : k[p] \in Nat
    BY <1>7
  <2>2. IsFiniteSet(T)
    BY <1>2
  <2>3. SumsOver(h, T, k)
    BY <1>5
  <2>. QED
    BY ONLY <2>1, <2>2, <2>3, SumTakesAny
<1>10. f[R] = h[R]
  BY <1>2, <1>5, <1>6, <1>8, SumsAgree
<1>11. h[T] = q.limit + h[R] /\ h[R] \in Nat
  BY <1>2, <1>7, <1>9
<1>. QED
  BY <1>1, <1>5, <1>6, <1>10, <1>11

\* The limits of finitely many queries sum to a number.
LEMMA LimitsAreNat ==
    ASSUME NEW R, IsFiniteSet(R), \A p \in R : p.limit \in Nat
    PROVE  SumLimits(R) \in Nat
<1>1. PICK g : g = [p \in R |-> p.limit]
  OBVIOUS
<1>2. PICK f : SumLimits(R) = f[R] /\ SumsOver(f, R, g)
  BY <1>1, LimitsAreSummed
<1>3. \A p \in R : g[p] \in Nat
  BY <1>1
<1>4. \A s \in SUBSET R : f[s] \in Nat
  BY <1>2, <1>3, SumTakesAny
<1>. QED
  BY <1>2, <1>4

LEMMA RowsOfNone == ASSUME NEW st PROVE RowsReserved(st, 0) = 0
<1>1. PICK f : /\ RowsReserved(st, 0) = f[1 .. 0]
               /\ SumsOver(f, 1 .. 0, [i \in 1 .. 0 |-> SumLimits(st[i].reserved)])
  BY RowsAreSummed
<1>2. 1 .. 0 = {}
  OBVIOUS
<1>. QED
  BY <1>1, <1>2 DEF SumsOver, Sums

\* Steps that reserve the same sums reserve the same rows.
LEMMA RowsSame ==
    ASSUME NEW st, NEW ts, NEW n \in Nat,
           \A i \in 1 .. n : SumLimits(st[i].reserved) = SumLimits(ts[i].reserved)
    PROVE  RowsReserved(st, n) = RowsReserved(ts, n)
<1>1. PICK g : g = [i \in 1 .. n |-> SumLimits(st[i].reserved)]
  OBVIOUS
<1>2. PICK k : k = [i \in 1 .. n |-> SumLimits(ts[i].reserved)]
  OBVIOUS
<1>3. PICK f : RowsReserved(st, n) = f[1 .. n] /\ SumsOver(f, 1 .. n, g)
  BY <1>1, RowsAreSummed
<1>4. PICK h : RowsReserved(ts, n) = h[1 .. n] /\ SumsOver(h, 1 .. n, k)
  BY <1>2, RowsAreSummed
<1>5. \A i \in 1 .. n : g[i] = k[i]
  BY <1>1, <1>2
<1>6. PICK S : S = 1 .. n
  OBVIOUS
<1>7. IsFiniteSet(S)
  BY <1>6, FS_Interval
<1>8. f[S] = h[S]
  <2>1. S \subseteq S /\ \A i \in S : g[i] = k[i]
    BY <1>5, <1>6
  <2>2. SumsOver(f, S, g) /\ SumsOver(h, S, k)
    BY <1>3, <1>4, <1>6
  <2>. QED
    BY <1>7, <2>1, <2>2, SumsAgree
<1>. QED
  BY <1>3, <1>4, <1>6, <1>8

\* The last step adds its sum.
LEMMA RowsOfLast ==
    ASSUME NEW st, NEW n \in Nat, \A i \in 1 .. n + 1 : SumLimits(st[i].reserved) \in Nat
    PROVE  /\ RowsReserved(st, n) \in Nat
           /\ RowsReserved(st, n + 1) = SumLimits(st[n + 1].reserved) + RowsReserved(st, n)
<1>0. PICK m \in Nat : m = n + 1
  OBVIOUS
<1>1. PICK g : g = [i \in 1 .. n |-> SumLimits(st[i].reserved)]
  OBVIOUS
<1>2. PICK k : k = [i \in 1 .. m |-> SumLimits(st[i].reserved)]
  OBVIOUS
<1>3. PICK f : RowsReserved(st, n) = f[1 .. n] /\ SumsOver(f, 1 .. n, g)
  BY <1>1, RowsAreSummed
<1>4. PICK h : RowsReserved(st, m) = h[1 .. m] /\ SumsOver(h, 1 .. m, k)
  BY <1>2, RowsAreSummed
<1>5. PICK S : S = 1 .. n
  OBVIOUS
<1>6. PICK T : T = 1 .. m
  OBVIOUS
<1>7. IsFiniteSet(S) /\ IsFiniteSet(T) /\ T \ {m} = S /\ m \in T /\ S \subseteq T
  <2>1. IsFiniteSet(S) /\ IsFiniteSet(T)
    BY <1>0, <1>5, <1>6, FS_Interval
  <2>2. T \ {m} = S /\ m \in T /\ S \subseteq T
    BY <1>0, <1>5, <1>6
  <2>. QED
    BY <2>1, <2>2
<1>8. \A i \in T : k[i] \in Nat /\ k[i] = SumLimits(st[i].reserved)
  BY <1>0, <1>2, <1>6
<1>9. \A i \in S : g[i] = k[i]
  BY <1>1, <1>5, <1>7, <1>8
<1>10. f[S] = h[S]
  <2>1. SumsOver(f, S, g) /\ SumsOver(h, T, k) /\ S \subseteq S
    BY <1>3, <1>4, <1>5, <1>6
  <2>2. IsFiniteSet(S) /\ S \subseteq T
    BY <1>7
  <2>. QED
    BY ONLY <1>9, <2>1, <2>2, SumsAgree
<1>11. \A s \in SUBSET T : h[s] \in Nat /\ \A x \in s : h[s] = k[x] + h[s \ {x}]
  <2>1. SumsOver(h, T, k) /\ \A i \in T : k[i] \in Nat
    BY <1>4, <1>6, <1>8
  <2>2. IsFiniteSet(T)
    BY <1>7
  <2>. QED
    BY ONLY <2>1, <2>2, SumTakesAny
<1>12. h[T] = k[m] + h[S] /\ h[S] \in Nat
  BY <1>7, <1>11
<1>. QED
  BY <1>0, <1>3, <1>4, <1>5, <1>6, <1>7, <1>8, <1>10, <1>12

-----------------------------------------------------------------------------
(* What the steps of a run reserve *)

RowsSound(q) ==
    /\ \A i \in 1 .. StepNumber(q) : IsFiniteSet(steps[q][i].reserved)
    /\ run[q].rows = RowsReserved(steps[q], StepNumber(q))
    /\ run[q].rows <= MaxSourceRows /\ run[q].queries <= MaxSourceQueries

\* What SourcesChargedOnce needs to be inductive: the sums are of finite sets.
SourcesInv == \A q \in Runs : RowsSound(q)

\* The run keeps its usage and its steps what they reserved; a new step has
\* reserved nothing.
StepsReserve(q) ==
    /\ \A i \in 1 .. Len(steps[q]) : steps'[q][i].reserved = steps[q][i].reserved
    /\ \/ Len(steps'[q]) = Len(steps[q])
       \/ Len(steps'[q]) = Len(steps[q]) + 1 /\ steps'[q][Len(steps[q]) + 1].reserved = {}

UsageKept(q) == run'[q].rows = run[q].rows /\ run'[q].queries = run[q].queries

\* A step of a run reserves a number of rows.
LEMMA StepReserves ==
    ASSUME TypeOK, NEW q \in Runs, NEW i \in 1 .. StepNumber(q), IsFiniteSet(steps[q][i].reserved)
    PROVE  steps[q][i].reserved \subseteq Queries /\ SumLimits(steps[q][i].reserved) \in Nat
<1>1. steps[q][i] \in StepRecord
  BY DEF TypeOK, StepNumber
<1>2. steps[q][i].reserved \subseteq Queries
  BY <1>1 DEF StepRecord
<1>3. \A p \in Queries : p.limit \in Nat
  BY BudgetAssumption
<1>. QED
  BY <1>2, <1>3, LimitsAreNat

LEMMA KeptRowsSound ==
    ASSUME TypeOK, NEW q \in Runs, RowsSound(q), StepsReserve(q), UsageKept(q)
    PROVE  RowsSound(q)'
<1>1. PICK n \in Nat : n = Len(steps[q])
  BY DEF TypeOK
<1>2. \A i \in 1 .. n : IsFiniteSet(steps[q][i].reserved) /\ SumLimits(steps[q][i].reserved) \in Nat
  BY <1>1, StepReserves DEF RowsSound, StepNumber
<1>3. \A i \in 1 .. n : steps'[q][i].reserved = steps[q][i].reserved
  BY <1>1 DEF StepsReserve
<1>4. RowsReserved(steps'[q], n) = RowsReserved(steps[q], n)
  <2>1. \A i \in 1 .. n : SumLimits(steps'[q][i].reserved) = SumLimits(steps[q][i].reserved)
    BY <1>3
  <2>. QED
    BY <2>1, RowsSame
<1>5. RowsReserved(steps[q], n) = run[q].rows
  BY <1>1 DEF RowsSound, StepNumber
<1>6. /\ run'[q].rows = run[q].rows
      /\ run'[q].rows <= MaxSourceRows /\ run'[q].queries <= MaxSourceQueries
  BY DEF RowsSound, UsageKept
<1>7. CASE Len(steps'[q]) = n
  <2>1. \A i \in 1 .. Len(steps'[q]) : IsFiniteSet(steps'[q][i].reserved)
    BY <1>2, <1>3, <1>7
  <2>. QED
    BY <1>4, <1>5, <1>6, <1>7, <2>1 DEF RowsSound, StepNumber
<1>8. CASE Len(steps'[q]) = n + 1 /\ steps'[q][n + 1].reserved = {}
  <2>0. IsFiniteSet({}) /\ SumLimits({}) = 0
    BY FS_EmptySet, LimitsOfNone
  <2>1. ASSUME NEW i \in 1 .. n + 1
        PROVE  IsFiniteSet(steps'[q][i].reserved) /\ SumLimits(steps'[q][i].reserved) \in Nat
    <3>1. CASE i = n + 1
      <4>1. steps'[q][i].reserved = {}
        BY <1>8, <3>1
      <4>2. IsFiniteSet({}) /\ SumLimits({}) \in Nat
        BY <2>0
      <4>. QED
        BY <4>1, <4>2
    <3>2. CASE i # n + 1
      <4>1. i \in 1 .. n
        BY <3>2
      <4>. QED
        BY <1>2, <1>3, <4>1
    <3>. QED
      BY <3>1, <3>2
  <2>2. PICK st : st = steps'[q]
    OBVIOUS
  <2>3. \A i \in 1 .. n + 1 : SumLimits(st[i].reserved) \in Nat
    BY <2>1, <2>2
  <2>4. /\ RowsReserved(st, n) \in Nat
        /\ RowsReserved(st, n + 1) = SumLimits(st[n + 1].reserved) + RowsReserved(st, n)
    BY <2>3, RowsOfLast
  <2>5. SumLimits(st[n + 1].reserved) = 0
    BY <1>8, <2>0, <2>2
  <2>6. RowsReserved(steps'[q], n + 1) = run'[q].rows
    BY <1>4, <1>5, <1>6, <2>2, <2>4, <2>5
  <2>7. \A i \in 1 .. Len(steps'[q]) : IsFiniteSet(steps'[q][i].reserved)
    BY <1>8, <2>1
  <2>. QED
    BY <1>6, <1>8, <2>6, <2>7 DEF RowsSound, StepNumber
<1>. QED
  BY <1>1, <1>7, <1>8 DEF StepsReserve

\* ReserveExecutionSource adds to the step and to the run the same rows, under
\* a key the step has not reserved.
LEMMA ReserveSound ==
    ASSUME TypeOK, NEW w \in Workers, NEW r \in Runs, RowsSound(r), NEW k \in Queries,
           ReserveSource(w, r, k)
    PROVE  RowsSound(r)'
<1>0. k.limit \in Nat /\ \A p \in Queries : p.limit \in Nat
  BY BudgetAssumption
<1>1. /\ InFlight(r) /\ saveExecutionStep(r, [CurrentStep(r) EXCEPT !.reserved = @ \cup {k}])
      /\ saveExecution(r, [run[r] EXCEPT !.queries = @ + 1, !.rows = @ + k.limit])
      /\ Reserved(r, k.key) = {}
      /\ run[r].queries < MaxSourceQueries /\ run[r].rows + k.limit <= MaxSourceRows
  BY DEF ReserveSource, CheckExecutionLease
<1>2. CurrentStep(r) \in StepRecord /\ StepNumber(r) > 0 /\ StepNumber(r) \in Nat
  BY <1>1, CurrentStepType
<1>3. PICK n \in Nat : n + 1 = Len(steps[r])
  <2>1. Len(steps[r]) - 1 \in Nat /\ (Len(steps[r]) - 1) + 1 = Len(steps[r])
    BY <1>2 DEF StepNumber
  <2>. QED
    BY <2>1
<1>4. PICK R : R = CurrentStep(r).reserved
  OBVIOUS
<1>5. steps[r][n + 1].reserved = R /\ n + 1 \in 1 .. StepNumber(r)
  BY <1>3, <1>4 DEF CurrentStep, StepNumber
<1>6. IsFiniteSet(R) /\ R \subseteq Queries /\ SumLimits(R) \in Nat
  BY <1>5, StepReserves DEF RowsSound
<1>7. k \notin R
  BY <1>1, <1>4 DEF Reserved
<1>8. SumLimits(R \cup {k}) = k.limit + SumLimits(R) /\ IsFiniteSet(R \cup {k})
  BY <1>0, <1>6, <1>7, LimitsOfOneMore, FS_AddElement
<1>9. PICK st : st = [CurrentStep(r) EXCEPT !.reserved = R \cup {k}]
  OBVIOUS
<1>10. st \in StepRecord /\ st.reserved = R \cup {k} /\ saveExecutionStep(r, st)
  BY <1>1, <1>2, <1>4, <1>6, <1>9 DEF StepRecord
<1>11. /\ Len(steps'[r]) = n + 1
       /\ \A i \in 1 .. n : steps'[r][i] = steps[r][i]
       /\ steps'[r][n + 1] = st
  BY <1>2, <1>3, <1>10, SaveStep
<1>12. /\ run'[r].rows = run[r].rows + k.limit /\ run'[r].queries = run[r].queries + 1
       /\ run[r].rows \in Nat /\ run[r].queries \in Nat
  <2>1. run[r] \in RunRecord /\ run \in [Runs -> RunRecord]
    BY DEF TypeOK
  <2>. QED
    BY <1>1, <2>1 DEF saveExecution, RunRecord
<1>13. \A i \in 1 .. n + 1 : IsFiniteSet(steps[r][i].reserved) /\ SumLimits(steps[r][i].reserved) \in Nat
  BY <1>3, StepReserves DEF RowsSound, StepNumber
<1>14. PICK ts : ts = steps'[r]
  OBVIOUS
<1>15. ASSUME NEW i \in 1 .. n + 1
       PROVE  IsFiniteSet(ts[i].reserved) /\ SumLimits(ts[i].reserved) \in Nat
  <2>1. CASE i = n + 1
    <3>1. ts[i].reserved = R \cup {k}
      BY <1>10, <1>11, <1>14, <2>1
    <3>2. SumLimits(R \cup {k}) \in Nat
      BY <1>0, <1>6, <1>8
    <3>. QED
      BY <1>8, <3>1, <3>2
  <2>2. CASE i # n + 1
    <3>1. i \in 1 .. n
      BY <2>2
    <3>. QED
      BY <1>11, <1>13, <1>14, <3>1
  <2>. QED
    BY <2>1, <2>2
<1>16. RowsReserved(ts, n + 1) = SumLimits(R \cup {k}) + RowsReserved(ts, n)
  <2>1. \A i \in 1 .. n + 1 : SumLimits(ts[i].reserved) \in Nat
    BY <1>15
  <2>2. RowsReserved(ts, n + 1) = SumLimits(ts[n + 1].reserved) + RowsReserved(ts, n)
    BY <2>1, RowsOfLast
  <2>. QED
    BY <1>10, <1>11, <1>14, <2>2
<1>17. /\ RowsReserved(steps[r], n) \in Nat
       /\ RowsReserved(steps[r], n + 1) = SumLimits(R) + RowsReserved(steps[r], n)
  <2>1. \A i \in 1 .. n + 1 : SumLimits(steps[r][i].reserved) \in Nat
    BY <1>13
  <2>. QED
    BY <1>5, <2>1, RowsOfLast
<1>18. RowsReserved(ts, n) = RowsReserved(steps[r], n)
  <2>1. \A i \in 1 .. n : SumLimits(ts[i].reserved) = SumLimits(steps[r][i].reserved)
    BY <1>11, <1>14
  <2>. QED
    BY <2>1, RowsSame
<1>19. RowsReserved(steps[r], n + 1) = run[r].rows
  BY <1>3 DEF RowsSound, StepNumber
<1>20. RowsReserved(ts, n + 1) = run'[r].rows
  BY <1>0, <1>6, <1>8, <1>12, <1>16, <1>17, <1>18, <1>19
<1>21. run'[r].rows <= MaxSourceRows /\ run'[r].queries <= MaxSourceQueries
  BY <1>1, <1>12, BudgetAssumption
<1>22. \A i \in 1 .. Len(steps'[r]) : IsFiniteSet(steps'[r][i].reserved)
  BY <1>11, <1>14, <1>15
<1>. QED
  BY <1>11, <1>14, <1>20, <1>21, <1>22 DEF RowsSound, StepNumber

\* Saving the newest step with what it has reserved.
LEMMA SaveStepReserves ==
    ASSUME TypeOK, NEW r \in Runs, InFlight(r), NEW st \in StepRecord, saveExecutionStep(r, st),
           st.reserved = CurrentStep(r).reserved
    PROVE  \A q \in Runs : StepsReserve(q)
<1>1. StepNumber(r) > 0
  BY DEF InFlight
<1>. QED
  BY <1>1, SaveStep DEF StepsReserve, CurrentStep, StepNumber

\* Saving a run with the usage it had.
LEMMA SaveRunUsage ==
    ASSUME TypeOK, NEW r \in Runs, NEW rec \in RunRecord, saveExecution(r, rec),
           rec.rows = run[r].rows, rec.queries = run[r].queries
    PROVE  \A q \in Runs : UsageKept(q)
<1>1. /\ \A q \in Runs : q # r => run'[q] = run[q]
      /\ run'[r] = [rec EXCEPT !.version = run[r].version + 1]
  BY SaveRun
<1>2. run'[r].rows = rec.rows /\ run'[r].queries = rec.queries
  BY <1>1 DEF RunRecord
<1>. QED
  BY <1>1, <1>2 DEF UsageKept

\* Saving a run with another status only.
LEMMA SaveStatusUsage ==
    ASSUME TypeOK, NEW r \in Runs, NEW st \in Statuses, saveExecution(r, [run[r] EXCEPT !.status = st])
    PROVE  \A q \in Runs : UsageKept(q)
<1>1. PICK rec : rec = [run[r] EXCEPT !.status = st]
  OBVIOUS
<1>2. run[r] \in RunRecord /\ rec \in RunRecord
  BY <1>1, StoredShapes
<1>3. rec.rows = run[r].rows /\ rec.queries = run[r].queries
  BY <1>1, <1>2 DEF RunRecord
<1>. QED
  BY <1>1, <1>2, <1>3, SaveRunUsage

\* Every transaction but ReserveExecutionSource keeps usage and reservations.
LEMMA StepKeepsReservations ==
    ASSUME TypeOK, SubmittedWhole, [Next]_vars, NEW q \in Runs,
           \A w \in Workers, k \in Queries : ~ReserveSource(w, q, k)
    PROVE  StepsReserve(q) /\ UsageKept(q)
<1>1. (steps'[q] = steps[q] => StepsReserve(q)) /\ (run'[q] = run[q] => UsageKept(q))
  BY DEF StepsReserve, UsageKept
<1>2. ASSUME UNCHANGED <<run, steps>> PROVE StepsReserve(q) /\ UsageKept(q)
  BY <1>1, <1>2
<1>3. ASSUME NEW r \in Runs, CountActiveRuns(r) PROVE StepsReserve(q) /\ UsageKept(q)
  <2>1. /\ run \in [Runs -> RunRecord] /\ run[r] \in RunRecord
        /\ run' = [run EXCEPT ![r] = [run[r] EXCEPT !.status = "creating"]] /\ steps' = steps
    BY <1>3 DEF CountActiveRuns, TypeOK
  <2>2. run'[r].rows = run[r].rows /\ run'[r].queries = run[r].queries
    BY <2>1 DEF RunRecord
  <2>3. q # r => run'[q] = run[q]
    BY <2>1
  <2>. QED
    BY <1>1, <2>1, <2>2, <2>3 DEF UsageKept
<1>4. ASSUME NEW r \in Runs, InsertExecution(r) \/ Resume(r) PROVE StepsReserve(q) /\ UsageKept(q)
  <2>1. saveExecution(r, [run[r] EXCEPT !.status = "ready"]) /\ steps' = steps
    BY <1>4 DEF InsertExecution, Resume
  <2>. QED
    BY <1>1, <2>1, SaveStatusUsage DEF Statuses
<1>5. ASSUME NEW r \in Runs, InFlight(r), saveExecutionStep(r, Fenced(CurrentStep(r)))
      PROVE  StepsReserve(q)
  <2>1. CurrentStep(r) \in StepRecord /\ Fenced(CurrentStep(r)) \in StepRecord
    BY <1>5, CurrentStepType, StoredShapes
  <2>2. Fenced(CurrentStep(r)).reserved = CurrentStep(r).reserved
    BY <2>1 DEF Fenced, StepRecord
  <2>. QED
    BY <1>5, <2>1, <2>2, SaveStepReserves
<1>6. ASSUME NEW r \in Runs, Reconcile(r) PROVE StepsReserve(q) /\ UsageKept(q)
  <2>1. /\ InFlight(r) /\ saveExecutionStep(r, Fenced(CurrentStep(r)))
        /\ saveExecution(r, [run[r] EXCEPT !.status = "reconciling"])
    BY <1>6 DEF Reconcile, EffectInFlight
  <2>. QED
    BY <1>5, <2>1, SaveStatusUsage DEF Statuses
<1>7. ASSUME NEW r \in Runs, NEW st \in {"paused", "cancelled"}, Halts(r, st)
      PROVE  StepsReserve(q) /\ UsageKept(q)
  <2>1. CASE EffectInFlight(r)
    <3>1. saveExecution(r, [run[r] EXCEPT !.status = "reconciling"]) /\ steps' = steps
      BY <1>7, <2>1 DEF Halts
    <3>. QED
      BY <1>1, <3>1, SaveStatusUsage DEF Statuses
  <2>2. CASE ~EffectInFlight(r)
    <3>1. saveExecution(r, [run[r] EXCEPT !.status = st])
      BY <1>7, <2>2 DEF Halts
    <3>2. UsageKept(q)
      BY <3>1, SaveStatusUsage DEF Statuses
    <3>3. steps' = steps \/ (InFlight(r) /\ saveExecutionStep(r, Fenced(CurrentStep(r))))
      <4>1. InFlight(r) => saveExecutionStep(r, Fenced(CurrentStep(r)))
        BY <1>7, <2>2 DEF Halts
      <4>2. ~InFlight(r) => steps' = steps
        BY <1>7, <2>2 DEF Halts
      <4>. QED
        BY <4>1, <4>2
    <3>. QED
      BY <1>1, <1>5, <3>2, <3>3
  <2>. QED
    BY <2>1, <2>2
<1>8. ASSUME NEW r \in Runs, LeaseExpires(r) \/ DeadlinePasses(r)
      PROVE  StepsReserve(q) /\ UsageKept(q)
  <2>1. run' = run
    BY <1>8 DEF LeaseExpires, DeadlinePasses
  <2>2. \/ steps' = steps
        \/ InFlight(r) /\ saveExecutionStep(r, [CurrentStep(r) EXCEPT !.lease = "expired"])
    BY <1>8 DEF LeaseExpires, DeadlinePasses, Expire, Leased
  <2>3. CASE InFlight(r) /\ saveExecutionStep(r, [CurrentStep(r) EXCEPT !.lease = "expired"])
    <3>1. CurrentStep(r) \in StepRecord /\ [CurrentStep(r) EXCEPT !.lease = "expired"] \in StepRecord
      BY <2>3, CurrentStepType, StoredShapes
    <3>2. [CurrentStep(r) EXCEPT !.lease = "expired"].reserved = CurrentStep(r).reserved
      BY <3>1 DEF StepRecord
    <3>3. StepsReserve(q)
      BY <2>3, <3>1, <3>2, SaveStepReserves
    <3>. QED
      BY <1>1, <2>1, <3>3
  <2>. QED
    BY <1>1, <2>1, <2>2, <2>3
<1>9. ASSUME NEW r \in Runs, \/ OwnerReads(r) \/ ControlRefused(r)
                              \/ HeadsChange(r) \/ OwnerRevoked(r)
      PROVE  StepsReserve(q) /\ UsageKept(q)
  BY <1>2, <1>9 DEF OwnerReads, ControlRefused, HeadsChange, OwnerRevoked
<1>10. ASSUME NEW w \in Workers, NEW r \in Runs,
              \/ BeginClaim(w, r) \/ ClaimRefused(w, r) \/ ResultNotTaken(w, r) \/ LeaseLost(w, r)
       PROVE  StepsReserve(q) /\ UsageKept(q)
  BY <1>2, <1>10 DEF BeginClaim, ClaimRefused, ResultNotTaken, LeaseLost
<1>11. ASSUME NEW w \in Workers, NEW r \in Runs, ClaimBlocked(w, r)
       PROVE  StepsReserve(q) /\ UsageKept(q)
  <2>1. saveExecution(r, [run[r] EXCEPT !.status = "blocked"]) /\ steps' = steps
    BY <1>11 DEF ClaimBlocked
  <2>. QED
    BY <1>1, <2>1, SaveStatusUsage DEF Statuses
<1>12. ASSUME NEW w \in Workers, NEW r \in Runs, ClaimGranted(w, r)
       PROVE  StepsReserve(q) /\ UsageKept(q)
  <2>1. UsageKept(q)
    <3>1. saveExecution(r, Claimed(r)) /\ Claimed(r) \in RunRecord /\ run[r] \in RunRecord
      BY <1>12, ClaimedShape, StoredShapes DEF ClaimGranted
    <3>2. Claimed(r).rows = run[r].rows /\ Claimed(r).queries = run[r].queries
      BY <3>1 DEF Claimed, Charged, RunRecord
    <3>. QED
      BY <3>1, <3>2, SaveRunUsage
  <2>2. CASE q # r
    BY <1>1, <1>12, <2>1, <2>2 DEF ClaimGranted, TypeOK
  <2>3. CASE q = r /\ InFlight(r)
    <3>1. CurrentStep(r) \in StepRecord /\ LeasedStep(CurrentStep(r)) \in StepRecord
      BY <2>3, CurrentStepType, StoredShapes
    <3>2. LeasedStep(CurrentStep(r)).reserved = CurrentStep(r).reserved
      BY <3>1 DEF LeasedStep, StepRecord
    <3>3. saveExecutionStep(r, LeasedStep(CurrentStep(r)))
      BY <1>12, <2>3 DEF ClaimGranted, ClaimedSteps, saveExecutionStep
    <3>. QED
      BY <2>1, <2>3, <3>1, <3>2, <3>3, SaveStepReserves
  <2>4. CASE q = r /\ ~InFlight(r)
    <3>1. /\ Len(steps'[r]) = Len(steps[r]) + 1
          /\ \A i \in 1 .. Len(steps[r]) : steps'[r][i] = steps[r][i]
          /\ steps'[r][Len(steps[r]) + 1] = LeasedStep(NewStep(run[r].stage))
      BY <1>12, <2>4, ClaimEffect
    <3>2. LeasedStep(NewStep(run[r].stage)).reserved = {}
      BY DEF LeasedStep, NewStep
    <3>. QED
      BY <2>1, <2>4, <3>1, <3>2 DEF StepsReserve
  <2>. QED
    BY <2>2, <2>3, <2>4
<1>13. ASSUME NEW w \in Workers, NEW r \in Runs, NEW c \in Contexts, BindContext(w, r, c)
       PROVE  StepsReserve(q) /\ UsageKept(q)
  <2>1. InFlight(r) /\ run' = run /\ saveExecutionStep(r, Disclosed(CurrentStep(r), c))
    BY <1>13 DEF BindContext, CheckExecutionLease
  <2>2. CurrentStep(r) \in StepRecord /\ Disclosed(CurrentStep(r), c) \in StepRecord
    BY <2>1, CurrentStepType, StoredShapes
  <2>3. Disclosed(CurrentStep(r), c).reserved = CurrentStep(r).reserved
    BY <2>2 DEF Disclosed, StepRecord
  <2>. QED
    BY <1>1, <2>1, <2>2, <2>3, SaveStepReserves
<1>14. ASSUME NEW w \in Workers, NEW r \in Runs, NEW k \in Queries, ReserveSource(w, r, k)
       PROVE  StepsReserve(q) /\ UsageKept(q)
  <2>1. q # r
    BY <1>14
  <2>2. run'[q] = run[q] /\ steps'[q] = steps[q]
    BY <1>14, <2>1 DEF ReserveSource, saveExecution, saveExecutionStep, TypeOK
  <2>. QED
    BY <1>1, <2>2
<1>15. ASSUME NEW w \in Workers, NEW r \in Runs, NEW o \in Outcomes, NEW d \in Patches \cup {None},
              NEW t \in TokenCounts \cup {0}, SubmitResult(w, r, o, d, t)
       PROVE  StepsReserve(q) /\ UsageKept(q)
  BY <1>2, <1>15 DEF SubmitResult
<1>16. ASSUME NEW w \in Workers, NEW r \in Runs, CommitResult(w, r)
       PROVE  StepsReserve(q) /\ UsageKept(q)
  <2>. DEFINE st == [CurrentStep(r) EXCEPT !.outcome = worker[w].outcome, !.digest = worker[w].digest]
  <2>1. /\ InFlight(r) /\ saveExecutionStep(r, st) /\ saveExecution(r, Completed(w, r))
        /\ worker[w].outcome \in Outcomes
        /\ worker[w].status \in {"ready", "blocked", "completed"} /\ worker[w].stage \in Stages
    BY <1>16 DEF CommitResult, Committable, CheckExecutionLease, SubmittedWhole
  <2>2. CurrentStep(r) \in StepRecord /\ worker[w].digest \in Patches \cup {None}
    BY <2>1, CurrentStepType DEF TypeOK, WorkerRecord
  <2>3. st \in StepRecord /\ st.reserved = CurrentStep(r).reserved
    BY <2>1, <2>2 DEF StepRecord
  <2>4. StepsReserve(q)
    <3>. HIDE DEF st
    <3>. QED
      BY <2>1, <2>3, SaveStepReserves
  <2>5. Completed(w, r) \in RunRecord /\ run[r] \in RunRecord
    BY <2>1, CompletedShape, StoredShapes DEF Statuses
  <2>6. Completed(w, r).rows = run[r].rows /\ Completed(w, r).queries = run[r].queries
    BY <2>5 DEF Completed, RunRecord
  <2>. QED
    BY <2>1, <2>4, <2>5, <2>6, SaveRunUsage
<1>17. ASSUME NEW w \in Workers, Crash(w) PROVE StepsReserve(q) /\ UsageKept(q)
  BY <1>2, <1>17 DEF Crash
<1>18. CASE UNCHANGED vars
  BY <1>2, <1>18 DEF vars
<1>. QED
  BY <1>3, <1>4, <1>6, <1>7, <1>8, <1>9, <1>10, <1>11, <1>12, <1>13, <1>14, <1>15, <1>16, <1>17, <1>18
  DEF Next, RunStep, WorkerStep, Control, Pause, Cancel

LEMMA NextSources == Inv /\ SourcesInv /\ [Next]_vars => SourcesInv'
<1>. SUFFICES ASSUME Inv, SourcesInv, [Next]_vars, NEW q \in Runs PROVE RowsSound(q)'
  BY DEF SourcesInv
<1>1. TypeOK /\ SubmittedWhole /\ RowsSound(q)
  BY DEF Inv, SourcesInv
<1>2. CASE \E w \in Workers, k \in Queries : ReserveSource(w, q, k)
  BY <1>1, <1>2, ReserveSound
<1>3. CASE \A w \in Workers, k \in Queries : ~ReserveSource(w, q, k)
  BY <1>1, <1>3, StepKeepsReservations, KeptRowsSound
<1>. QED
  BY <1>2, <1>3

\* A run's source usage is the sum of what its steps reserved and stays within
\* the budget, for any number of steps and of queries, whatever is retried or
\* reclaimed (ReserveExecutionSource).
THEOREM SourcesAccounted == Spec => []SourcesChargedOnce
<1>1. Init => SourcesInv
  <2>. SUFFICES ASSUME Init, NEW q \in Runs PROVE RowsSound(q)
    BY DEF SourcesInv
  <2>1. StepNumber(q) = 0 /\ run[q].rows = 0 /\ run[q].queries = 0
    BY DEF Init, StepNumber
  <2>2. RowsReserved(steps[q], 0) = 0
    BY RowsOfNone
  <2>. QED
    BY <2>1, <2>2, BudgetAssumption DEF RowsSound
<1>2. SourcesInv => SourcesChargedOnce
  BY DEF SourcesInv, RowsSound, SourcesChargedOnce
<1>. QED
  BY <1>1, <1>2, NextSources, Invariance, PTL DEF Spec

-----------------------------------------------------------------------------
(* The claims that the code does not keep, and what each of them lacks *)

\* How one step may move the status of a run: an owner's creation, the two
\* ways a claim and a result end, a resume, and the other decisions.
Moves(q) ==
    \/ run'[q].status = run[q].status
    \/ CountActiveRuns(q) /\ run'[q].status = "creating"
    \/ run[q].status = "creating" /\ run'[q].status = "ready"
    \/ \E w \in Workers : ClaimBlocked(w, q) /\ run'[q].status = "blocked"
    \/ /\ run[q].status \in {"ready", "running"} /\ grant[q].deadline = "open"
       /\ run'[q].status \in {"running", "ready", "blocked", "completed"}
    \/ /\ run[q].status = "reconciling" /\ run'[q].status \in {"cancelled", "blocked"}
       /\ steps'[q][StepNumber(q)].outcome # None
    \/ Resume(q) /\ run'[q].status = "ready"
    \/ /\ run[q].status \notin {"absent", "creating"} \cup TerminalStatuses
       /\ run'[q].status \in {"reconciling", "paused", "cancelled"}
       /\ run'[q].status # "reconciling" => ~EffectInFlight(q)

\* Saving a run gives it the status of the record and leaves the others alone.
LEMMA SavedStatus ==
    ASSUME TypeOK, NEW r \in Runs, NEW rec \in RunRecord, saveExecution(r, rec)
    PROVE  /\ run'[r].status = rec.status
           /\ \A q \in Runs : q # r => Moves(q)
<1>1. run'[r] = [rec EXCEPT !.version = run[r].version + 1] /\ \A q \in Runs : q # r => run'[q] = run[q]
  BY SaveRun
<1>2. run'[r].status = rec.status
  BY <1>1 DEF RunRecord
<1>3. \A q \in Runs : q # r => Moves(q)
  BY <1>1 DEF Moves
<1>. QED
  BY <1>2, <1>3

\* Saving a run with another status only.
LEMMA SavedNewStatus ==
    ASSUME TypeOK, NEW r \in Runs, NEW st \in Statuses, saveExecution(r, [run[r] EXCEPT !.status = st])
    PROVE  /\ run'[r].status = st
           /\ \A q \in Runs : q # r => Moves(q)
<1>1. [run[r] EXCEPT !.status = st] \in RunRecord /\ [run[r] EXCEPT !.status = st].status = st
  BY StoredShapes DEF RunRecord
<1>. QED
  BY <1>1, SavedStatus

\* What an owner decides stops a run, has its write read back, or resumes it.
LEMMA ControlMoves ==
    ASSUME TypeOK, DecisionsPast, NEW r \in Runs, Control(r), NEW q \in Runs
    PROVE  Moves(q)
<1>1. ASSUME Decides(r) PROVE run[r].status \notin {"absent", "creating"} \cup TerminalStatuses
  BY <1>1 DEF Decides, DecisionsPast
<1>2. CASE ControlRefused(r)
  BY <1>2 DEF ControlRefused, Moves
<1>3. ASSUME NEW st \in {"paused", "cancelled"}, Halts(r, st) PROVE Moves(q)
  <2>1. Decides(r) /\ st \in Statuses /\ "reconciling" \in Statuses /\ st # "reconciling"
    BY <1>3 DEF Halts, Statuses
  <2>2. CASE EffectInFlight(r)
    <3>1. run'[r].status = "reconciling" /\ (q # r => Moves(q))
      BY <1>3, <2>1, <2>2, SavedNewStatus DEF Halts
    <3>. QED
      BY <1>1, <2>1, <3>1 DEF Moves
  <2>3. CASE ~EffectInFlight(r)
    <3>1. run'[r].status = st /\ (q # r => Moves(q))
      BY <1>3, <2>1, <2>3, SavedNewStatus DEF Halts
    <3>. QED
      BY <1>1, <2>1, <2>3, <3>1 DEF Moves
  <2>. QED
    BY <2>2, <2>3
<1>4. CASE Resume(r)
  <2>1. run'[r].status = "ready" /\ (q # r => Moves(q))
    BY <1>4, SavedNewStatus DEF Resume, Statuses
  <2>. QED
    BY <1>4, <2>1 DEF Moves
<1>5. CASE Reconcile(r)
  <2>1. Decides(r) /\ run'[r].status = "reconciling" /\ (q # r => Moves(q))
    BY <1>5, SavedNewStatus DEF Reconcile, Statuses
  <2>. QED
    BY <1>1, <2>1 DEF Moves
<1>. QED
  BY <1>2, <1>3, <1>4, <1>5 DEF Control, Pause, Cancel

\* A claim leaves a run blocked or at work; a result ends a read-back.
LEMMA WorkMoves ==
    ASSUME TypeOK, SubmittedWhole, NEW w \in Workers, NEW r \in Runs, NEW q \in Runs,
           ClaimBlocked(w, r) \/ ClaimGranted(w, r) \/ CommitResult(w, r)
    PROVE  Moves(q)
<1>1. CASE ClaimBlocked(w, r)
  <2>1. run'[r].status = "blocked" /\ (q # r => Moves(q))
    BY <1>1, SavedNewStatus DEF ClaimBlocked, Statuses
  <2>. QED
    BY <1>1, <2>1 DEF Moves
<1>2. CASE ClaimGranted(w, r)
  <2>1. /\ Claimed(r) \in RunRecord /\ saveExecution(r, Claimed(r)) /\ grant[r].deadline = "open"
        /\ run[r].status \in ActiveStatuses
    BY <1>2, StoredShapes, ClaimedShape, ClaimEffect DEF ClaimGranted, Grantable
  <2>2. run'[r].status = Claimed(r).status /\ (q # r => Moves(q))
    BY <2>1, SavedStatus
  <2>3. CASE run[r].status = "reconciling"
    <3>1. run'[r].status = "reconciling"
      BY <2>2, <2>3, StoredShapes DEF Claimed, Charged, RunRecord
    <3>. QED
      BY <2>2, <2>3, <3>1 DEF Moves
  <2>4. CASE run[r].status # "reconciling"
    <3>1. run[r].status \in {"ready", "running"} /\ run'[r].status = "running"
      BY <1>2, <2>1, <2>4, ClaimEffect DEF ActiveStatuses
    <3>. QED
      BY <2>1, <2>2, <3>1 DEF Moves
  <2>. QED
    BY <2>3, <2>4
<1>3. CASE CommitResult(w, r)
  <2>1. /\ CheckExecutionLease(w) /\ worker[w].run = r /\ saveExecution(r, Completed(w, r))
        /\ worker[w].status \in {"ready", "blocked", "completed"} /\ worker[w].outcome \in Outcomes
        /\ worker[w].stage \in Stages
    BY <1>3 DEF CommitResult, Committable, SubmittedWhole
  <2>2. run[r].status \in {"running", "reconciling"} /\ grant[r].deadline = "open"
    BY <2>1 DEF CheckExecutionLease
  <2>3. Completed(w, r) \in RunRecord
    BY <2>1, CompletedShape DEF Statuses
  <2>4. run'[r].status = Completed(w, r).status /\ (q # r => Moves(q))
    BY <2>1, <2>3, SavedStatus
  <2>5. steps'[r][StepNumber(r)].outcome # None
    BY <1>3, CommitEffect DEF StepNumber
  <2>6. CASE run[r].status = "reconciling"
    <3>1. run'[r].status \in {"cancelled", "blocked"}
      BY <2>4, <2>6, StoredShapes DEF Completed, RunRecord
    <3>. QED
      BY <2>4, <2>5, <2>6, <3>1 DEF Moves
  <2>7. CASE run[r].status # "reconciling"
    <3>1. run'[r].status = worker[w].status
      BY <2>4, <2>7, StoredShapes DEF Completed, RunRecord
    <3>. QED
      BY <2>1, <2>2, <2>4, <2>7, <3>1 DEF Moves
  <2>. QED
    BY <2>6, <2>7
<1>. QED
  BY <1>1, <1>2, <1>3

\* Every step moves every run's status along its graph.
LEMMA NextMoves ==
    ASSUME Inv, [Next]_vars, NEW q \in Runs
    PROVE  Moves(q)
<1>1. TypeOK /\ DecisionsPast /\ SubmittedWhole
  BY DEF Inv
<1>2. ASSUME run' = run PROVE Moves(q)
  BY <1>2 DEF Moves
<1>3. ASSUME NEW r \in Runs, CountActiveRuns(r) PROVE Moves(q)
  BY <1>1, <1>3 DEF CountActiveRuns, Moves, TypeOK, RunRecord
<1>4. ASSUME NEW r \in Runs, InsertExecution(r) PROVE Moves(q)
  <2>1. run[r].status = "creating" /\ run'[r].status = "ready" /\ (q # r => Moves(q))
    BY <1>1, <1>4, SavedNewStatus DEF InsertExecution, Statuses
  <2>. QED
    BY <2>1 DEF Moves
<1>5. ASSUME NEW r \in Runs, \/ OwnerReads(r) \/ LeaseExpires(r) \/ DeadlinePasses(r)
                             \/ HeadsChange(r) \/ OwnerRevoked(r)
      PROVE  Moves(q)
  BY <1>2, <1>5 DEF OwnerReads, LeaseExpires, DeadlinePasses, HeadsChange, OwnerRevoked
<1>6. ASSUME NEW r \in Runs, RunStep(r) PROVE Moves(q)
  BY <1>1, <1>3, <1>4, <1>5, <1>6, ControlMoves DEF RunStep
<1>7. ASSUME NEW w \in Workers, NEW r \in Runs, NEW k \in Queries, ReserveSource(w, r, k)
      PROVE  Moves(q)
  <2>1. run'[q].status = run[q].status
    BY <1>1, <1>7 DEF ReserveSource, saveExecution, TypeOK, RunRecord
  <2>. QED
    BY <2>1 DEF Moves
<1>8. ASSUME NEW w \in Workers, NEW r \in Runs,
             \/ BeginClaim(w, r) \/ ClaimRefused(w, r) \/ ResultNotTaken(w, r) \/ LeaseLost(w, r)
      PROVE  Moves(q)
  BY <1>2, <1>8 DEF BeginClaim, ClaimRefused, ResultNotTaken, LeaseLost
<1>9. ASSUME NEW w \in Workers, NEW r \in Runs, NEW c \in Contexts, BindContext(w, r, c) PROVE Moves(q)
  BY <1>2, <1>9 DEF BindContext
<1>10. ASSUME NEW w \in Workers, NEW r \in Runs, NEW o \in Outcomes, NEW d \in Patches \cup {None},
              NEW t \in TokenCounts \cup {0}, SubmitResult(w, r, o, d, t)
       PROVE  Moves(q)
  BY <1>2, <1>10 DEF SubmitResult
<1>11. ASSUME NEW w \in Workers, NEW r \in Runs, WorkerStep(w, r) PROVE Moves(q)
  BY <1>1, <1>7, <1>8, <1>9, <1>10, <1>11, WorkMoves DEF WorkerStep
<1>12. ASSUME NEW w \in Workers, Crash(w) PROVE Moves(q)
  BY <1>2, <1>12 DEF Crash
<1>13. CASE UNCHANGED vars
  BY <1>2, <1>13 DEF vars
<1>. QED
  BY <1>6, <1>11, <1>12, <1>13 DEF Next

\* A claim that finds a changed head or a passed deadline leaves a run that
\* is being read back alone.
ClaimsSpareReadBack ==
    [][\A w \in Workers, r \in Runs : ClaimBlocked(w, r) => run[r].status # "reconciling"]_vars

\* An interrupted delivery or remedy remains reconciling until its result is
\* recorded, if no claim blocks it before: of all that workers, owners, time
\* and faults may do, the early exits of ClaimExecution are the only ones to
\* let an unread write go.
THEOREM ReadBackUnlessClaimStops == Spec /\ ClaimsSpareReadBack => ReconcilingUntilReadBack
<1>. DEFINE Spares == \A w \in Workers, r \in Runs : ClaimBlocked(w, r) => run[r].status # "reconciling"
            Reads == \A r \in Runs : run[r].status = "reconciling" /\ run'[r].status # "reconciling" =>
                        steps'[r][StepNumber(r)].outcome # None
<1>1. Inv /\ [Next]_vars /\ [Spares]_vars => [Reads]_vars
  <2>. SUFFICES ASSUME Inv, [Next]_vars, Spares, NEW r \in Runs, run[r].status = "reconciling",
                       run'[r].status # "reconciling"
                PROVE  steps'[r][StepNumber(r)].outcome # None
    OBVIOUS
  <2>1. EffectInFlight(r)
    BY DEF Inv, ReconcilingHasOpenEffect, StepHistorySound, EffectInFlight
  <2>2. Moves(r)
    BY NextMoves
  <2>. QED
    BY <2>1, <2>2 DEF Moves, CountActiveRuns, Resume
<1>. QED
  BY <1>1, Invariance, PTL DEF Spec, ClaimsSpareReadBack, ReconcilingUntilReadBack

-----------------------------------------------------------------------------
(* Writes and the original delegation *)

\* The deadline ends the lease, and a run whose original deadline has passed
\* waits behind it or is out of work.
LapsedStops(q) ==
    /\ grant[q].deadline = "passed" => ~Leased(q)
    /\ grant[q].lapsed =>
          grant[q].deadline = "passed" \/ run[q].status \notin {"absent", "creating", "ready", "running"}

LapsedInv == \A q \in Runs : LapsedStops(q)

\* A delegation changes when its deadline passes and when a read-back is
\* ordered; the end of a credential leaves the deadline alone.
LEMMA GrantMoves ==
    ASSUME TypeOK, [Next]_vars, NEW q \in Runs
    PROVE  \/ grant'[q].deadline = grant[q].deadline /\ grant'[q].lapsed = grant[q].lapsed
           \/ DeadlinePasses(q)
           \/ Reconcile(q) /\ grant'[q].deadline = "open"
<1>. DEFINE G == \/ grant'[q].deadline = grant[q].deadline /\ grant'[q].lapsed = grant[q].lapsed
                 \/ DeadlinePasses(q)
                 \/ Reconcile(q) /\ grant'[q].deadline = "open"
<1>1. ASSUME grant' = grant PROVE G
  BY <1>1
<1>2. ASSUME NEW r \in Runs, DeadlinePasses(r) PROVE G
  <2>1. q # r => grant'[q] = grant[q]
    BY <1>2 DEF DeadlinePasses, TypeOK
  <2>. QED
    BY <1>2, <2>1
<1>3. ASSUME NEW r \in Runs, Reconcile(r) PROVE G
  <2>1. q # r => grant'[q] = grant[q]
    BY <1>3 DEF Reconcile, TypeOK
  <2>2. grant'[r].deadline = "open"
    BY <1>3 DEF Reconcile, TypeOK
  <2>. QED
    BY <1>3, <2>1, <2>2
<1>4. ASSUME NEW r \in Runs, OwnerRevoked(r) PROVE G
  BY <1>4 DEF OwnerRevoked, TypeOK
<1>. HIDE DEF G
<1>5. ASSUME NEW r \in Runs, RunStep(r) PROVE G
  <2>1. CASE Pause(r) \/ Cancel(r)
    BY <1>1, <2>1 DEF Pause, Cancel, Halts
  <2>2. CASE \/ CountActiveRuns(r) \/ InsertExecution(r) \/ OwnerReads(r) \/ Resume(r)
             \/ ControlRefused(r) \/ LeaseExpires(r) \/ HeadsChange(r)
    BY <1>1, <2>2
    DEF CountActiveRuns, InsertExecution, OwnerReads, Resume, ControlRefused, LeaseExpires, HeadsChange
  <2>. QED
    BY <1>2, <1>3, <1>4, <1>5, <2>1, <2>2 DEF RunStep, Control
<1>6. ASSUME NEW w \in Workers, NEW r \in Runs, WorkerStep(w, r) PROVE G
  BY <1>1, <1>6
  DEF WorkerStep, BeginClaim, ClaimBlocked, ClaimGranted, ClaimRefused, BindContext, ReserveSource,
      SubmitResult, CommitResult, ResultNotTaken, LeaseLost
<1>7. ASSUME NEW w \in Workers, Crash(w) PROVE G
  BY <1>1, <1>7 DEF Crash
<1>8. ASSUME UNCHANGED vars PROVE G
  BY <1>1, <1>8 DEF vars
<1>9. G
  BY <1>5, <1>6, <1>7, <1>8 DEF Next
<1>. QED
  BY <1>9 DEF G

\* No lease outlives the deadline, and after it nothing but a resume puts a
\* run back to work.
LEMMA NextLapsed ==
    ASSUME Inv, LapsedInv, [Next]_vars, \A r \in Runs : Resume(r) => ~grant[r].lapsed
    PROVE  LapsedInv'
<1>. SUFFICES ASSUME NEW q \in Runs PROVE LapsedStops(q)'
  BY DEF LapsedInv
<1>1. TypeOK /\ SubmittedWhole /\ LapsedStops(q) /\ Moves(q)
  BY NextMoves DEF Inv, LapsedInv
<1>2. CASE DeadlinePasses(q)
  <2>1. run' = run /\ grant'[q].deadline = "passed"
    BY <1>1, <1>2 DEF DeadlinePasses, TypeOK
  <2>2. ~Leased(q)'
    <3>1. CASE Leased(q)
      <4>1. InFlight(q) /\ CurrentStep(q) \in StepRecord /\ StepNumber(q) > 0
        BY <1>1, <3>1, CurrentStepType DEF Leased
      <4>2. PICK st : st = [CurrentStep(q) EXCEPT !.lease = "expired"]
        OBVIOUS
      <4>3. st \in StepRecord /\ st.lease = "expired"
        BY <4>1, <4>2 DEF StepRecord
      <4>4. saveExecutionStep(q, st)
        BY <1>2, <3>1, <4>2 DEF DeadlinePasses, Expire
      <4>5. Len(steps'[q]) = Len(steps[q]) /\ steps'[q][Len(steps[q])] = st
        BY <1>1, <4>1, <4>3, <4>4, SaveStep
      <4>. QED
        BY <4>3, <4>5 DEF Leased, CurrentStep, StepNumber
    <3>2. CASE ~Leased(q)
      BY <1>2, <3>2 DEF DeadlinePasses, Leased, InFlight, CurrentStep, StepNumber
    <3>. QED
      BY <3>1, <3>2
  <2>. QED
    BY <2>1, <2>2 DEF LapsedStops
<1>3. CASE Reconcile(q) /\ grant'[q].deadline = "open"
  <2>1. run'[q].status = "reconciling"
    BY <1>1, <1>3, SavedNewStatus DEF Reconcile, Statuses
  <2>. QED
    BY <1>3, <2>1 DEF LapsedStops
<1>4. CASE grant'[q].deadline = grant[q].deadline /\ grant'[q].lapsed = grant[q].lapsed
  <2>1. grant'[q].deadline = "passed" => ~Leased(q)'
    <3>. SUFFICES ASSUME grant[q].deadline = "passed", Leased(q)' PROVE FALSE
      BY <1>4
    <3>1. \A w \in Workers : ~ClaimGranted(w, q)
      BY DEF ClaimGranted, Grantable
    <3>. QED
      BY <1>1, <3>1, LeaseNotGiven DEF LapsedStops
  <2>2. ASSUME grant'[q].lapsed, run'[q].status \in {"absent", "creating", "ready", "running"}
        PROVE  grant'[q].deadline = "passed"
    <3>1. CASE run'[q].status = run[q].status
      BY <1>1, <1>4, <2>2, <3>1 DEF LapsedStops
    <3>2. CASE CountActiveRuns(q)
      BY <1>1, <1>4, <2>2, <3>2 DEF LapsedStops, CountActiveRuns
    <3>3. CASE run[q].status = "creating"
      BY <1>1, <1>4, <2>2, <3>3 DEF LapsedStops
    <3>4. CASE run[q].status \in {"ready", "running"} /\ grant[q].deadline = "open"
      BY <1>1, <1>4, <2>2, <3>4 DEF LapsedStops
    <3>5. ~Resume(q)
      BY <1>4, <2>2
    <3>. QED
      BY <1>1, <2>2, <3>1, <3>2, <3>3, <3>4, <3>5 DEF Moves
  <2>. QED
    BY <2>1, <2>2 DEF LapsedStops
<1>. QED
  BY <1>1, <1>2, <1>3, <1>4, GrantMoves

\* A decision to resume is refused once the original deadline has passed.
LapsedIsNotResumed == [][\A r \in Runs : Resume(r) => ~grant[r].lapsed]_vars

\* No delivery or remedy is written after the original deadline if no lapsed
\* run is resumed: of all ControlExecution allows, "resume" after "reconcile"
\* is the one way a read-back renews the delegation.
THEOREM WritesEndWithDelegation == Spec /\ LapsedIsNotResumed => []WritesUnderOriginalDelegation
<1>. DEFINE Refused == \A r \in Runs : Resume(r) => ~grant[r].lapsed
<1>1. Init => LapsedInv
  BY DEF Init, LapsedInv, LapsedStops
<1>2. Inv /\ LapsedInv /\ [Next]_vars /\ [Refused]_vars => LapsedInv'
  <2>1. CASE UNCHANGED vars
    BY <2>1 DEF vars, LapsedInv, LapsedStops, Leased, InFlight, CurrentStep, StepNumber
  <2>. QED
    BY <2>1, NextLapsed
<1>3. LapsedInv => WritesUnderOriginalDelegation
  BY DEF LapsedInv, LapsedStops, WritesUnderOriginalDelegation
<1>. QED
  BY <1>1, <1>2, <1>3, Invariance, PTL DEF Spec, LapsedIsNotResumed

-----------------------------------------------------------------------------
(* Active runs of a target *)

Owners == {OwnerOf[r] : r \in Runs}

Creating == {r \in Runs : run[r].status = "creating"}

\* No decision of an owner makes a paused or blocked run active again.
NothingReactivated ==
    [][\A r \in Runs : run[r].status \in {"paused", "blocked"} => run'[r].status \notin ActiveStatuses]_vars

\* All but one of the owners may have counted before the last of them did.
ActiveRunsWithinOwners ==
    /\ IsFiniteSet(ActiveRuns)
    /\ ActiveRuns # {} => Cardinality(ActiveRuns) < MaxConcurrentRuns + Cardinality(Owners)

\* An owner creates one run at a time (the advisory lock), and whoever counts
\* leaves less than one run of every owner over the limit.
CreationsInv ==
    /\ \A q, r \in Creating : OwnerOf[q] = OwnerOf[r] => q = r
    /\ IsFiniteSet(ActiveRuns \cup Creating)
    /\ ActiveRuns \cup Creating # {} =>
          Cardinality(ActiveRuns \cup Creating) < MaxConcurrentRuns + Cardinality(Owners)

\* There are no more runs under creation than owners.
LEMMA CreatingByOwner ==
    ASSUME NEW C \in SUBSET Runs, \A q, r \in C : OwnerOf[q] = OwnerOf[r] => q = r, IsFiniteSet(Owners)
    PROVE  IsFiniteSet(C) /\ Cardinality(C) <= Cardinality(Owners)
<1>. DEFINE f == [r \in C |-> OwnerOf[r]]
<1>1. f \in Injection(C, Owners)
  BY DEF Injection, IsInjective, Owners
<1>. QED
  BY <1>1, FS_Injection

\* Fewer runs are active or under creation after any other step.
LEMMA FewerKeep ==
    ASSUME NEW A, NEW B \in SUBSET A, NEW n \in Nat, IsFiniteSet(A), A # {} => Cardinality(A) < n
    PROVE  IsFiniteSet(B) /\ (B # {} => Cardinality(B) < n)
<1>1. IsFiniteSet(B) /\ Cardinality(B) <= Cardinality(A)
  BY FS_Subset
<1>2. Cardinality(B) \in Nat /\ Cardinality(A) \in Nat
  BY <1>1, FS_CardinalityType
<1>. QED
  BY <1>1, <1>2

\* Counting and inserting keep the sum of both; nothing else adds to it while
\* no run becomes active again.
LEMMA NextCreations ==
    ASSUME Inv, CreationsInv, [Next]_vars, IsFiniteSet(Owners),
           \A r \in Runs : run[r].status \in {"paused", "blocked"} => run'[r].status \notin ActiveStatuses
    PROVE  CreationsInv'
<1>1. /\ TypeOK /\ MaxConcurrentRuns \in Nat /\ Cardinality(Owners) \in Nat
      /\ MaxConcurrentRuns + Cardinality(Owners) \in Nat
  BY BudgetAssumption, FS_CardinalityType DEF Inv
<1>2. \A q \in Runs : Moves(q)
  BY NextMoves
<1>3. \A q \in Runs : run[q].status \in Statuses
  BY <1>1 DEF TypeOK, RunRecord
<1>4. CASE \A r \in Runs : ~CountActiveRuns(r)
  <2>1. Creating' \subseteq Creating
    BY <1>2, <1>4 DEF Moves, Creating
  <2>2. (ActiveRuns \cup Creating)' \subseteq ActiveRuns \cup Creating
    <3>. SUFFICES ASSUME NEW q \in Runs, run'[q].status \in ActiveStatuses
                  PROVE  run[q].status \in ActiveStatuses \cup {"creating"}
      BY <2>1 DEF ActiveRuns, Creating
    <3>1. Moves(q) /\ run[q].status \notin {"paused", "blocked"} /\ ~CountActiveRuns(q)
      BY <1>2, <1>4
    <3>. QED
      BY <1>3, <3>1 DEF Moves, ActiveStatuses, TerminalStatuses, Statuses, Resume
  <2>. QED
    BY <1>1, <2>1, <2>2, FewerKeep DEF CreationsInv
<1>5. ASSUME NEW r \in Runs, CountActiveRuns(r) PROVE CreationsInv'
  <2>1. /\ run' = [run EXCEPT ![r].status = "creating"] /\ run[r].status = "absent"
        /\ Cardinality(ActiveRuns) < MaxConcurrentRuns
        /\ \A q \in Creating : OwnerOf[q] # OwnerOf[r]
    BY <1>5 DEF CountActiveRuns, Creating
  <2>2. \A q \in Runs : run'[q].status = IF q = r THEN "creating" ELSE run[q].status
    BY <1>1, <2>1 DEF TypeOK, RunRecord
  <2>3. ActiveRuns' = ActiveRuns /\ Creating' = Creating \cup {r}
    BY <2>1, <2>2 DEF ActiveRuns, Creating, ActiveStatuses
  <2>4. \A p, q \in Creating' : OwnerOf[p] = OwnerOf[q] => p = q
    BY <2>1, <2>3 DEF CreationsInv
  <2>5. IsFiniteSet(Creating') /\ Cardinality(Creating') <= Cardinality(Owners)
    <3>1. Creating' \in SUBSET Runs
      BY <2>3 DEF Creating
    <3>. QED
      BY <2>4, <3>1, CreatingByOwner
  <2>6. IsFiniteSet(ActiveRuns)
    BY FS_Subset DEF CreationsInv
  <2>7. /\ IsFiniteSet(ActiveRuns \cup Creating')
        /\ Cardinality(ActiveRuns \cup Creating') =
              Cardinality(ActiveRuns) + Cardinality(Creating') - Cardinality(ActiveRuns \cap Creating')
    BY <2>5, <2>6, FS_Union
  <2>8. IsFiniteSet(ActiveRuns \cap Creating')
    BY <2>6, FS_Subset
  <2>9. /\ Cardinality(ActiveRuns) \in Nat /\ Cardinality(Creating') \in Nat
        /\ Cardinality(ActiveRuns \cap Creating') \in Nat
    BY <2>5, <2>6, <2>8, FS_CardinalityType
  <2>10. Cardinality(ActiveRuns \cup Creating') < MaxConcurrentRuns + Cardinality(Owners)
    BY <1>1, <2>1, <2>5, <2>7, <2>9
  <2>. QED
    BY <2>3, <2>4, <2>7, <2>10 DEF CreationsInv
<1>. QED
  BY <1>4, <1>5

\* However many owners create runs at once, the runs of a target that are
\* active exceed its limit by less than the number of owners, as long as no
\* decision makes a stopped run active again: CreateExecution counts under a
\* lock of the owner, and ControlExecution does not count.
THEOREM ActiveRunsBound ==
    ASSUME IsFiniteSet(Owners)
    PROVE  Spec /\ NothingReactivated => []ActiveRunsWithinOwners
<1>. DEFINE Rested == \A r \in Runs : run[r].status \in {"paused", "blocked"} =>
                                       run'[r].status \notin ActiveStatuses
<1>1. Init => CreationsInv
  <2>. SUFFICES ASSUME Init PROVE CreationsInv
    OBVIOUS
  <2>1. ActiveRuns = {} /\ Creating = {}
    BY DEF Init, ActiveRuns, Creating, ActiveStatuses
  <2>. QED
    BY <2>1, FS_EmptySet DEF CreationsInv
<1>2. Inv /\ CreationsInv /\ [Next]_vars /\ [Rested]_vars => CreationsInv'
  <2>1. CASE UNCHANGED vars
    BY <2>1 DEF vars, CreationsInv, ActiveRuns, Creating
  <2>. QED
    BY <2>1, NextCreations
<1>3. CreationsInv => ActiveRunsWithinOwners
  <2>. SUFFICES ASSUME CreationsInv PROVE ActiveRunsWithinOwners
    OBVIOUS
  <2>1. MaxConcurrentRuns + Cardinality(Owners) \in Nat
    BY BudgetAssumption, FS_CardinalityType
  <2>. QED
    BY <2>1, FewerKeep DEF CreationsInv, ActiveRunsWithinOwners
<1>. QED
  BY <1>1, <1>2, <1>3, Invariance, PTL DEF Spec, NothingReactivated

\* A single owner keeps the target's limit on active runs, as long as no
\* decision makes a stopped run active again: what breaks the limit is two
\* owners who count together, or a resume that does not count at all.
THEOREM OneOwnerWithinTarget ==
    ASSUME Cardinality(Owners) = 1, IsFiniteSet(Owners)
    PROVE  Spec /\ NothingReactivated => []ActiveRunsWithinTarget
<1>1. ASSUME ActiveRunsWithinOwners PROVE ActiveRunsWithinTarget
  <2>1. Cardinality(ActiveRuns) \in Nat /\ MaxConcurrentRuns \in Nat
    BY <1>1, BudgetAssumption, FS_CardinalityType DEF ActiveRunsWithinOwners
  <2>2. Cardinality({}) = 0
    BY FS_EmptySet
  <2>. QED
    BY <1>1, <2>1, <2>2 DEF ActiveRunsWithinOwners, ActiveRunsWithinTarget
<1>. QED
  BY <1>1, ActiveRunsBound, PTL
=============================================================================

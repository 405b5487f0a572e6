-------------------------- MODULE TaskCheckpoints ---------------------------
(***************************************************************************)
(* The task queue of a workflow run (internal/service/taskcheckpoint.go,   *)
(* internal/postgres/taskcheckpoints.go, internal/postgres/context_use.go, *)
(* RecordTaskContext of internal/service/semantic.go).                     *)
(*                                                                         *)
(* A transition is checked against what the service read of the task, of   *)
(* its candidate and of the vector search; its transaction then compares   *)
(* the version and state of the task row alone, and what a completion      *)
(* needs it reads again.  The queue head is chosen before, by a query of   *)
(* its own, and activating it is a request that can fail or be lost.       *)
(*                                                                         *)
(* The candidates and the reused knowledge move under their own rules      *)
(* (KnowledgeGovernance): here they are environment steps.                 *)
(***************************************************************************)
EXTENDS Common, FiniteSets

CONSTANTS
    Tasks,            \* task keys of one workflow run
    Mode,             \* [Tasks -> "auto" or "manual"]
    Clients,          \* callers with a request under way
    AheadOfTask,      \* how far a caller's expected_version is ahead of the row
    AheadTaskEvents,  \* bound: the events that are sent ahead
    MaxTaskVersion,   \* [Tasks -> bound: its transitions]
    MaxRevision       \* [Tasks -> bound: versions of its candidate]

ASSUME TasksAssumption ==
    /\ Mode \in [Tasks -> {"auto", "manual"}] /\ AheadOfTask \subseteq Nat
    /\ MaxTaskVersion \in [Tasks -> Nat \ {0}] /\ MaxRevision \in [Tasks -> Nat]

VARIABLES
    tasks,       \* [Tasks -> workflow_task_checkpoints row, or None]
    asked,       \* [Clients -> a request under way, or None]
    candidate,   \* [Tasks -> the generation captured for the task]
    certified,   \* [Tasks -> candidate versions with a passing, current local report]
    validations, \* [Tasks -> versions in workflow_task_local_validations]
    eligible,    \* whether the reused knowledge is eligible now
    used,        \* [Tasks -> the workflow_task_used_context row: None, or whether
                 \*  its approval is still the "current" one or a "replaced" one]
    reviewed     \* [Tasks -> the version of the candidate its first cloud review
                 \*  in review_records was of, or 0]

taskVars == <<tasks, asked, candidate, certified, validations, eligible, used, reviewed>>

TaskInit ==
    /\ tasks = [t \in Tasks |-> None]
    /\ asked = [c \in Clients |-> None]
    /\ candidate = [t \in Tasks |-> [status |-> "none", version |-> 0]]
    /\ certified = [t \in Tasks |-> {}] /\ validations = [t \in Tasks |-> {}]
    /\ eligible = TRUE
    /\ used = [t \in Tasks |-> None] /\ reviewed = [t \in Tasks |-> 0]

TaskStates == {"queued", "local_execution", "review_approval_required", "cloud_review_required",
               "local_revision_required", "validation_required", "promotion_required",
               "rag_readback_required", "completed", "blocked", "rejected"}

\* taskRoute: a miss that may leave the host, or a strong hit or a miss that
\* must not, which the table treats alike.
Routes == {"cloud_review", "local"}

TaskRow == [state : TaskStates, version : Nat, route : Routes \cup {"pending"}, ordinal : Nat]

ASSUME TaskRowAssumption == None \notin TaskRow

Rows == {t \in Tasks : tasks[t] # None}
Active(t) == tasks[t].state \notin {"queued", "completed", "rejected"}

-----------------------------------------------------------------------------
(* The table *)

AfterResult(t) ==
    IF tasks[t].route # "cloud_review" THEN "validation_required"
    ELSE IF Mode[t] = "manual" THEN "review_approval_required" ELSE "cloud_review_required"

\* workflowTaskTransition: the events a state of task t admits and where each
\* leads.
workflowTaskTransition(t, state) ==
    CASE state = "queued" ->
            {<<"TASK_ACTIVATED", "local_execution">>, <<"TASK_REJECTED", "rejected">>}
      [] state = "local_execution" -> {<<"LOCAL_RESULT_RECORDED", AfterResult(t)>>}
      [] state = "review_approval_required" ->
            {<<"CLOUD_REVIEW_APPROVED", "cloud_review_required">>, <<"CLOUD_REVIEW_REJECTED", "blocked">>}
      [] state = "cloud_review_required" -> {<<"CLOUD_REVIEW_RECORDED", "local_revision_required">>}
      [] state = "local_revision_required" -> {<<"LOCAL_REVISION_RECORDED", "validation_required">>}
      [] state = "validation_required" ->
            {<<"VALIDATED_REUSE_COMPLETED", "completed">>, <<"VALIDATION_PASSED", "promotion_required">>,
             <<"VALIDATION_FAILED", "local_revision_required">>}
      [] state = "promotion_required" -> {<<"LEARNING_PROMOTED", "rag_readback_required">>}
      [] state = "rag_readback_required" -> {<<"RAG_READBACK_VERIFIED", "completed">>}
      [] OTHER -> {}

\* Search through Milvus returns what is approved and still eligible.
Retrievable(t) == candidate[t].status = "approved" /\ candidate[t].version \in certified[t]

\* What the service asks of the candidate it read, and of its reviews
\* (ReviewEvidenceExists: there is one, of whichever version).
CandidateAllows(t, event) ==
    /\ event = "LOCAL_RESULT_RECORDED" => candidate[t].status # "none"
    /\ event = "CLOUD_REVIEW_RECORDED" => reviewed[t] # 0
    /\ event = "LOCAL_REVISION_RECORDED" => candidate[t].status = "pending" /\ candidate[t].version >= 2
    /\ event = "VALIDATION_PASSED" => candidate[t].status = "pending"
    /\ event = "LEARNING_PROMOTED" => candidate[t].status = "approved"
    /\ event = "RAG_READBACK_VERIFIED" => Retrievable(t)

\* Mutant: any queued task, when none is active.
GetActivatable_AnyQueued ==
    {t \in Rows : tasks[t].state = "queued" /\ \A u \in Rows : ~Active(u)}

\* The queued task with the lowest ordinal, when none is active.
GetActivatableWorkflowTask ==
    {t \in Rows : /\ tasks[t].state = "queued"
                  /\ \A u \in Rows : ~Active(u)
                  /\ \A u \in Rows : tasks[u].state = "queued" => tasks[t].ordinal <= tasks[u].ordinal}

-----------------------------------------------------------------------------
(* Operations *)

\* CreateWorkflowTask, under the run's row lock: the next ordinal.  A known key
\* with the same payload returns its row.
CreateWorkflowTask(t) ==
    tasks' = IF tasks[t] # None THEN tasks
             ELSE [tasks EXCEPT ![t] = [state |-> "queued", version |-> 1, route |-> "pending",
                                        ordinal |-> Cardinality(Rows) + 1]]

\* BeginWorkflowTask queues the task, then looks at the head of the queue.
BeginWorkflowTask(c, t) ==
    /\ asked[c] = None
    /\ CreateWorkflowTask(t)
    /\ asked' = [asked EXCEPT ![c] = [kind |-> "activate"]]
    /\ UNCHANGED <<candidate, certified, validations, eligible, used, reviewed>>

\* What the transaction gets of the checks before it: the state the service
\* read, and the version the caller expects, which nothing compares with the
\* row that was read.
Request(t, event, to, route, ahead) ==
    [kind |-> "transition", task |-> t, event |-> event, from |-> tasks[t].state, to |-> to,
     version |-> tasks[t].version + ahead, route |-> route]

\* activateWorkflowQueueHead: without a head there is nothing to do; with one
\* the lookup decides the route, and a lookup that fails ends the request.
activateWorkflowQueueHead(c, route) ==
    /\ asked[c] # None /\ asked[c].kind = "activate"
    /\ \/ \E t \in GetActivatableWorkflowTask :
             asked' = [asked EXCEPT ![c] = Request(t, "TASK_ACTIVATED", "local_execution", route, 0)]
       \/ /\ GetActivatableWorkflowTask = {}
          /\ asked' = [asked EXCEPT ![c] = None]
    /\ UNCHANGED <<tasks, candidate, certified, validations, eligible, used, reviewed>>

\* The checks of TransitionWorkflowTask, on what the service reads.
CheckTransition(c, t, event, to, route, ahead) ==
    /\ asked[c] = None /\ (ahead # 0 => event \in AheadTaskEvents)
    /\ IF event = "TASK_ACTIVATED" THEN t \in GetActivatableWorkflowTask ELSE route = "local"
    /\ CandidateAllows(t, event)
    /\ asked' = [asked EXCEPT ![c] = Request(t, event, to, route, ahead)]
    /\ UNCHANGED <<tasks, candidate, certified, validations, eligible, used, reviewed>>

\* The request, its client or the gateway is gone; nothing was written.
AbandonRequest(c) ==
    /\ asked[c] # None
    /\ asked' = [asked EXCEPT ![c] = None]
    /\ UNCHANGED <<tasks, candidate, certified, validations, eligible, used, reviewed>>

Unchanged(q) == tasks[q.task].version = q.version /\ tasks[q.task].state = q.from

\* recordTaskLocalValidation: an executed report of the current version.
Locally(q) ==
    q.event \in {"VALIDATION_PASSED", "VALIDATED_REUSE_COMPLETED"} =>
        candidate[q.task].version \in certified[q.task]

Validated(q) ==
    IF q.event \in {"VALIDATION_PASSED", "VALIDATED_REUSE_COMPLETED"}
       THEN validations[q.task] \cup {candidate[q.task].version}
       ELSE validations[q.task]

\* Mutant: any local validation of the task will do.
verifyTaskContextCompletion_AnyVersion(q) == q.to = "completed" => Validated(q) # {}

\* The used knowledge is as it was used, and the candidate as validated.
verifyTaskContextCompletion(q) ==
    q.to = "completed" =>
        /\ used[q.task] # None => used[q.task] = "current" /\ eligible
        /\ q.event = "VALIDATED_REUSE_COMPLETED" => used[q.task] # None
        /\ candidate[q.task].version \in Validated(q) \cap certified[q.task]

\* The transaction, and after a last state the next queue head.
TransitionWorkflowTask(c) ==
    LET q == asked[c]
    IN  /\ q # None /\ q.kind = "transition"
        /\ IF /\ Unchanged(q) /\ tasks[q.task].version < MaxTaskVersion[q.task]
              /\ Locally(q) /\ verifyTaskContextCompletion(q)
              THEN /\ tasks' = [tasks EXCEPT ![q.task].state = q.to, ![q.task].version = @ + 1,
                                   ![q.task].route = IF q.event = "TASK_ACTIVATED" THEN q.route ELSE @]
                   /\ validations' = [validations EXCEPT ![q.task] = Validated(q)]
                   /\ asked' = [asked EXCEPT ![c] =
                         IF q.to \in {"completed", "rejected"} THEN [kind |-> "activate"] ELSE None]
              ELSE /\ asked' = [asked EXCEPT ![c] = None]
                   /\ UNCHANGED <<tasks, validations>>
        /\ UNCHANGED <<candidate, certified, eligible, used, reviewed>>

\* RecordTaskContext of the repository: one receipt per task, of knowledge that
\* is still eligible; recorded again it has to be the same.
KeepReceipt(t) ==
    /\ tasks[t].state = "local_execution" /\ eligible /\ used[t] \in {None, "current"}
    /\ used' = [used EXCEPT ![t] = "current"]

\* RecordTaskContext of the service: what it asks of the task and of the
\* knowledge before, the repository asks again.
RecordTaskContext(t) ==
    /\ t \in Rows
    /\ KeepReceipt(t)
    /\ UNCHANGED <<tasks, asked, candidate, certified, validations, eligible, reviewed>>

-----------------------------------------------------------------------------
(* Environment: knowledge under its own rules, while a task is about it *)

UnderWay(t) == t \in Rows /\ Active(t)

\* RecordGeneration of the first version, RecordReview of the others.
CaptureOrRevise(t) ==
    /\ candidate[t].status \in {"none", "pending"} /\ candidate[t].version < MaxRevision[t] /\ UnderWay(t)
    /\ candidate' = [candidate EXCEPT ![t] = [status |-> "pending", version |-> @.version + 1]]
    /\ UNCHANGED <<tasks, asked, certified, validations, eligible, used, reviewed>>

\* RecordReview by the cloud reviewer, whose comment leaves the candidate as
\* it is.  Reviews on another route, and the ones after the first, are read by
\* nothing.
RecordCloudReview(t) ==
    /\ candidate[t].status # "none" /\ reviewed[t] = 0 /\ UnderWay(t) /\ tasks[t].route = "cloud_review"
    /\ reviewed' = [reviewed EXCEPT ![t] = candidate[t].version]
    /\ UNCHANGED <<tasks, asked, candidate, certified, validations, eligible, used>>

\* VerifyKnowledgePatch, or the age of a report.
ReportChanges(t) ==
    /\ candidate[t].status # "none" /\ UnderWay(t)
    /\ certified' = [certified EXCEPT ![t] =
          IF candidate[t].version \in @ THEN @ \ {candidate[t].version} ELSE @ \cup {candidate[t].version}]
    /\ UNCHANGED <<tasks, asked, candidate, validations, eligible, used, reviewed>>

\* An approval asks for a current report, and for a task that waits for it or
\* a run in promotion_pending.
CandidateDecided(t, status) ==
    /\ candidate[t].status = "pending" /\ UnderWay(t)
    /\ status = "approved" => candidate[t].version \in certified[t]
    /\ candidate' = [candidate EXCEPT ![t].status = status]
    /\ UNCHANGED <<tasks, asked, certified, validations, eligible, used, reviewed>>

\* The reused knowledge expires, or is approved on a new report.
ReusedMoves ==
    /\ \E t \in Tasks : UnderWay(t)
    /\ \/ eligible /\ eligible' = FALSE /\ UNCHANGED used
       \/ /\ eligible' = TRUE
          /\ used' = [t \in Tasks |-> IF used[t] = None THEN None ELSE "replaced"]
    /\ UNCHANGED <<tasks, asked, candidate, certified, validations, reviewed>>

TaskNext ==
    \/ \E c \in {x \in Clients : asked[x] = None} :
          \/ \E t \in Tasks : BeginWorkflowTask(c, t)
          \/ \E t \in Rows : \E move \in workflowTaskTransition(t, tasks[t].state), route \in Routes, ahead \in AheadOfTask :
                CheckTransition(c, t, move[1], move[2], route, ahead)
    \/ \E c \in Clients : \/ \E route \in Routes : activateWorkflowQueueHead(c, route)
                          \/ TransitionWorkflowTask(c)
                          \/ AbandonRequest(c)
    \/ \E t \in Tasks : \/ RecordTaskContext(t) \/ CaptureOrRevise(t) \/ ReportChanges(t) \/ RecordCloudReview(t)
                        \/ \E status \in {"approved", "rejected"} : CandidateDecided(t, status)
    \/ ReusedMoves

TaskSpec == TaskInit /\ [][TaskNext]_taskVars

-----------------------------------------------------------------------------
(* Properties *)

\* Rows have the shapes of their Go types.
TaskTypeOK ==
    /\ tasks \in [Tasks -> {None} \cup TaskRow]
    /\ \A t \in Rows :
          /\ tasks[t].version \in 1 .. MaxTaskVersion[t]
          /\ tasks[t].state \notin {"queued", "rejected"} => tasks[t].route # "pending"
    /\ \A t, u \in Rows : tasks[t].ordinal = tasks[u].ordinal => t = u
    /\ \A t \in Tasks : validations[t] \subseteq 1 .. MaxRevision[t]

\* One task of a run is under way, and no task overtakes a queued one,
\* although the head is chosen outside of the transaction that activates it
\* and several submitters race for it (GetActivatableWorkflowTask).
OneTaskAtATimeInOrder ==
    /\ \A t, u \in Rows : Active(t) /\ Active(u) => t = u
    /\ \A t, u \in Rows :
          tasks[t].state = "queued" /\ tasks[t].ordinal < tasks[u].ordinal =>
              tasks[u].state \in {"queued", "rejected"}

\* The step that completes a task finds what the completion needs.
EarnedNow ==
    \A t \in Rows : tasks[t].state # "completed" /\ tasks'[t].state = "completed" =>
        /\ candidate[t].version \in validations'[t] \cap certified[t]
        /\ tasks[t].state = "rag_readback_required" => candidate[t].status = "approved"
        /\ used[t] # None => used[t] = "current" /\ eligible
        /\ tasks[t].route = "cloud_review" => reviewed[t] # 0 /\ candidate[t].version >= 2

\* What completes was earned on what holds at that moment, although the
\* checks were made on earlier reads: the candidate's current version was
\* executed and validated for this task, a promoted one is approved, reused
\* knowledge is still the approved one, and on the cloud route there is a
\* review of the candidate and a revision of it, in either order
\* (TransitionWorkflowTask, verifyTaskContextCompletion).
CompletionIsEarned == [][EarnedNow]_taskVars
=============================================================================

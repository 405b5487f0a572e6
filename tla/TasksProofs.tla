---------------------------- MODULE TasksProofs -----------------------------
(***************************************************************************)
(* Proofs about TaskCheckpoints and Delegation, and about the seven        *)
(* components of MCRecords together: the composition implements each of    *)
(* them, and its states are well typed.                                    *)
(*                                                                         *)
(* The queue needs to know of a request in flight that its event has a     *)
(* place in the table at the state that was read, whatever version it was  *)
(* sent with, and that a head stays the head (RequestsStand), and of a     *)
(* task how far its candidate came (Milestones).  A call's admission needs to know that what was lost *)
(* before it arrived is still withdrawn (LostIsWithdrawn), a credential    *)
(* that its token is in the file or with the command, or else void or one  *)
(* of the known orphans (HandedOver).                                      *)
(***************************************************************************)
EXTENDS MCRecords, GovernanceProofs, ContextProofs, FiniteSetTheorems, TLAPS

-----------------------------------------------------------------------------
(* The task queue *)

TransitionEvents == {"TASK_ACTIVATED", "TASK_REJECTED", "LOCAL_RESULT_RECORDED", "CLOUD_REVIEW_APPROVED",
    "CLOUD_REVIEW_REJECTED", "CLOUD_REVIEW_RECORDED", "LOCAL_REVISION_RECORDED", "VALIDATED_REUSE_COMPLETED",
    "VALIDATION_PASSED", "VALIDATION_FAILED", "LEARNING_PROMOTED", "RAG_READBACK_VERIFIED"}

Transition == [kind : {"transition"}, task : Tasks, event : TransitionEvents, from : TaskStates, to : TaskStates,
               version : Nat, route : Routes]

Candidate == [status : {"none", "pending", "approved", "rejected"}, version : Nat]

TaskShape ==
    /\ TaskTypeOK
    /\ asked \in [Clients -> {None} \cup [kind : {"activate"}] \cup Transition]
    /\ candidate \in [Tasks -> Candidate]
    /\ \A t \in Tasks : /\ candidate[t].version <= MaxRevision[t]
                        /\ candidate[t].status # "none" => candidate[t].version > 0
    /\ certified \in [Tasks -> SUBSET Nat] /\ validations \in [Tasks -> SUBSET Nat]
    /\ \A t \in Tasks : certified[t] \subseteq 1 .. MaxRevision[t]
    /\ reviewed \in [Tasks -> Nat]

\* Ordinals are handed out one after the other.
Numbered ==
    IsFiniteSet(Rows) /\ \A t \in Rows : tasks[t].ordinal \in 1 .. Cardinality(Rows)

\* A request has its place in the table at the state that was read, a task
\* that left the queue does not return to it, and a head is the head as long
\* as it is queued.  What a review, a promotion or a revision was checked
\* against never goes away again.
Fits(q) ==
    /\ <<q.event, q.to>> \in workflowTaskTransition(q.task, tasks[q.task].state)
    /\ q.event = "TASK_ACTIVATED" => q.task \in GetActivatableWorkflowTask

Stands(q) ==
    /\ q.task \in Rows /\ <<q.event, q.to>> \in workflowTaskTransition(q.task, q.from)
    /\ q.from # "queued" => tasks[q.task].state # "queued"
    /\ q.event = "TASK_ACTIVATED" /\ tasks[q.task].state = "queued" => q.task \in GetActivatableWorkflowTask
    /\ q.event = "CLOUD_REVIEW_RECORDED" => reviewed[q.task] # 0
    /\ q.event = "LEARNING_PROMOTED" => candidate[q.task].status = "approved"
    /\ q.event = "LOCAL_REVISION_RECORDED" => candidate[q.task].version >= 2

RequestsStand == \A q \in {asked[c] : c \in Clients} : q # None /\ q \in Transition => Stands(q)

\* How far a task came tells what happened to its candidate.
Milestones ==
    \A t \in Rows :
        /\ tasks[t].state = "rag_readback_required" => candidate[t].status = "approved"
        /\ tasks[t].route = "cloud_review" =>
              /\ tasks[t].state \in {"local_revision_required", "validation_required", "promotion_required",
                                     "rag_readback_required"} => reviewed[t] # 0
              /\ tasks[t].state \in {"validation_required", "promotion_required", "rag_readback_required"} =>
                    candidate[t].version >= 2

TaskInv == TaskShape /\ Numbered /\ RequestsStand /\ Milestones /\ OneTaskAtATimeInOrder

-----------------------------------------------------------------------------

\* What the table says of the way to each milestone.
LEMMA TableOrder ==
    ASSUME NEW t, NEW e, NEW to, NEW state, <<e, to>> \in workflowTaskTransition(t, state)
    PROVE  /\ e \in TransitionEvents /\ to \in TaskStates \ {"queued"}
           /\ state \notin {"completed", "rejected"}
           /\ state = "queued" => e \in {"TASK_ACTIVATED", "TASK_REJECTED"}
           /\ state # "queued" => e # "TASK_ACTIVATED" /\ to # "rejected"
           /\ e = "TASK_ACTIVATED" => to = "local_execution" /\ state = "queued"
           /\ e = "TASK_REJECTED" => to = "rejected"
           /\ to = "rag_readback_required" => e = "LEARNING_PROMOTED" /\ state = "promotion_required"
           /\ to = "promotion_required" => state = "validation_required"
           /\ to = "validation_required" /\ tasks[t].route = "cloud_review" =>
                 e = "LOCAL_REVISION_RECORDED" /\ state = "local_revision_required"
           /\ to = "local_revision_required" =>
                 e = "CLOUD_REVIEW_RECORDED" \/ state = "validation_required"
           /\ to = "completed" => state \in {"validation_required", "rag_readback_required"}
<1>1. CASE state = "local_execution"
    BY <1>1 DEF workflowTaskTransition, AfterResult, TransitionEvents, TaskStates
<1>2. CASE state # "local_execution"
    BY <1>2 DEF workflowTaskTransition, TransitionEvents, TaskStates
<1> QED
    BY <1>1, <1>2

LEMMA TaskInitInv == TaskInit => TaskInv
<1> SUFFICES ASSUME TaskInit PROVE TaskInv
    OBVIOUS
<1>1. Rows = {}
    BY DEF TaskInit, Rows
<1>2. TaskShape
    BY <1>1, TasksAssumption DEF TaskInit, TaskShape, TaskTypeOK, Candidate, TasksAssumption
<1>3. Numbered /\ Milestones /\ OneTaskAtATimeInOrder
    BY <1>1, FS_EmptySet DEF Numbered, Milestones, OneTaskAtATimeInOrder
<1>4. RequestsStand
    BY DEF TaskInit, RequestsStand
<1> QED
    BY <1>2, <1>3, <1>4 DEF TaskInv

-----------------------------------------------------------------------------
(* Requests and the knowledge around them *)

\* A step that starts, replaces or ends one client's request, with a request
\* that stands.
LEMMA AskKeepsInv ==
    ASSUME TaskInv, NEW c \in Clients, NEW x \in {None} \cup [kind : {"activate"}] \cup Transition,
           asked' = [asked EXCEPT ![c] = x], x # None /\ x \in Transition => Stands(x),
           UNCHANGED <<tasks, candidate, certified, validations, eligible, used, reviewed>>
    PROVE  TaskInv'
<1>1. Rows' = Rows
    BY DEF Rows
<1>2. TaskShape'
    BY <1>1 DEF TaskInv, TaskShape, TaskTypeOK
<1>3. Numbered' /\ Milestones' /\ OneTaskAtATimeInOrder'
    BY <1>1 DEF TaskInv, Numbered, Milestones, OneTaskAtATimeInOrder, Active
<1>4. \A q : Stands(q)' = Stands(q)
    BY DEF Stands, workflowTaskTransition, AfterResult, GetActivatableWorkflowTask, Active, Rows
<1>5. RequestsStand'
  <2>1. \A d \in Clients : asked'[d] = IF d = c THEN x ELSE asked[d]
      BY DEF TaskInv, TaskShape
  <2> QED
      BY <1>4, <2>1 DEF TaskInv, RequestsStand
<1> QED
    BY <1>2, <1>3, <1>5 DEF TaskInv

\* A request made now stands, with whatever version.
LEMMA RequestStands ==
    ASSUME TaskInv, NEW t \in Rows, NEW e, NEW to, NEW route \in Routes, NEW ahead \in Nat,
           <<e, to>> \in workflowTaskTransition(t, tasks[t].state),
           CandidateAllows(t, e), e = "TASK_ACTIVATED" => t \in GetActivatableWorkflowTask
    PROVE  Request(t, e, to, route, ahead) \in Transition /\ Stands(Request(t, e, to, route, ahead))
<1>1. e \in TransitionEvents /\ to \in TaskStates
    BY TableOrder
<1>2. t \in Tasks /\ tasks[t] \in TaskRow
    BY DEF Rows, TaskInv, TaskShape, TaskTypeOK
<1>3. PICK n \in Nat : n = tasks[t].version + ahead
    BY <1>2 DEF TaskRow
<1> DEFINE x == Request(t, e, to, route, ahead)
<1>4. x \in Transition
    BY <1>1, <1>2, <1>3 DEF Request, Transition, TaskRow
<1>5. x.task = t /\ x.event = e /\ x.to = to /\ x.from = tasks[t].state
    BY DEF Request
<1> HIDE DEF x
<1>6. Stands(x)
    BY <1>5 DEF Stands, CandidateAllows
<1> QED
    BY <1>4, <1>6 DEF x

\* The head of the queue is looked up and its activation sent, a transition
\* is checked, or a request is given up.
LEMMA RequestsKeepInv ==
    ASSUME TaskInv, NEW c \in Clients,
           \/ \E route \in Routes : activateWorkflowQueueHead(c, route)
           \/ AbandonRequest(c)
           \/ \E t \in Rows : \E move \in workflowTaskTransition(t, tasks[t].state), route \in Routes,
                                ahead \in AheadOfTask : CheckTransition(c, t, move[1], move[2], route, ahead)
    PROVE  TaskInv'
<1>1. ASSUME NEW route \in Routes, activateWorkflowQueueHead(c, route) PROVE TaskInv'
  <2>1. ASSUME NEW t \in GetActivatableWorkflowTask,
               asked' = [asked EXCEPT ![c] = Request(t, "TASK_ACTIVATED", "local_execution", route, 0)]
        PROVE  TaskInv'
    <3>1. /\ t \in Rows /\ 0 \in Nat
          /\ <<"TASK_ACTIVATED", "local_execution">> \in workflowTaskTransition(t, tasks[t].state)
        BY DEF GetActivatableWorkflowTask, workflowTaskTransition
    <3>2. CandidateAllows(t, "TASK_ACTIVATED")
        BY DEF CandidateAllows
    <3> QED
        BY <1>1, <2>1, <3>1, <3>2, RequestStands, AskKeepsInv DEF activateWorkflowQueueHead
  <2>2. ASSUME asked' = [asked EXCEPT ![c] = None] PROVE TaskInv'
      BY <1>1, <2>2, AskKeepsInv DEF activateWorkflowQueueHead
  <2> QED
      BY <1>1, <2>1, <2>2 DEF activateWorkflowQueueHead
<1>2. ASSUME AbandonRequest(c) PROVE TaskInv'
    BY <1>2, AskKeepsInv DEF AbandonRequest
<1>3. ASSUME NEW t \in Rows, NEW move \in workflowTaskTransition(t, tasks[t].state), NEW route \in Routes,
             NEW ahead \in AheadOfTask, CheckTransition(c, t, move[1], move[2], route, ahead)
      PROVE  TaskInv'
  <2>1. move = <<move[1], move[2]>> /\ ahead \in Nat
      BY TasksAssumption DEF workflowTaskTransition, TasksAssumption
  <2> QED
      BY <1>3, <2>1, RequestStands, AskKeepsInv DEF CheckTransition
<1> QED
    BY <1>1, <1>2, <1>3

\* Reuse, reviews, revisions, reports and decisions: versions grow, an approved
\* candidate stays approved and a reviewed one reviewed.
KnowledgeMoves ==
    \A t \in Tasks : /\ candidate[t].version <= candidate'[t].version
                     /\ candidate[t].status = "approved" => candidate'[t].status = "approved"
                     /\ reviewed[t] # 0 => reviewed'[t] # 0

LEMMA KnowledgeKeepsInv ==
    ASSUME TaskInv, KnowledgeMoves, UNCHANGED <<tasks, asked, validations>>, reviewed' \in [Tasks -> Nat],
           candidate' \in [Tasks -> Candidate],
           \A t \in Tasks : /\ candidate'[t].version <= MaxRevision[t]
                            /\ candidate'[t].status # "none" => candidate'[t].version > 0,
           certified' \in [Tasks -> SUBSET Nat],
           \A t \in Tasks : certified'[t] \subseteq 1 .. MaxRevision[t]
    PROVE  TaskInv'
<1>0. \A t \in Tasks : candidate[t].version \in Nat /\ candidate'[t].version \in Nat
    BY DEF TaskInv, TaskShape, Candidate
<1>1. Rows' = Rows /\ Rows \subseteq Tasks
    BY DEF Rows
<1>2. TaskShape'
    BY <1>1 DEF TaskInv, TaskShape, TaskTypeOK
<1>3. Numbered' /\ OneTaskAtATimeInOrder'
    BY <1>1 DEF TaskInv, Numbered, OneTaskAtATimeInOrder, Active
<1>4. Milestones'
    BY <1>0, <1>1 DEF TaskInv, Milestones, KnowledgeMoves
<1>5. /\ GetActivatableWorkflowTask' = GetActivatableWorkflowTask
      /\ \A t, state : workflowTaskTransition(t, state)' = workflowTaskTransition(t, state)
    BY DEF workflowTaskTransition, AfterResult, GetActivatableWorkflowTask, Active, Rows
<1>6. ASSUME NEW q, Stands(q) PROVE Stands(q)'
    BY <1>0, <1>1, <1>5, <1>6 DEF Stands, KnowledgeMoves
<1>7. RequestsStand'
    BY <1>6 DEF TaskInv, RequestsStand
<1> QED
    BY <1>2, <1>3, <1>4, <1>7 DEF TaskInv

LEMMA EnvironmentKeepsInv ==
    ASSUME TaskInv,
           \/ \E t \in Tasks : \/ RecordTaskContext(t) \/ CaptureOrRevise(t) \/ ReportChanges(t) \/ RecordCloudReview(t)
                               \/ \E status \in {"approved", "rejected"} : CandidateDecided(t, status)
           \/ ReusedMoves
    PROVE  TaskInv'
<1> USE TasksAssumption DEF TasksAssumption
<1>0. /\ candidate \in [Tasks -> Candidate] /\ certified \in [Tasks -> SUBSET Nat]
      /\ \A t \in Tasks : /\ candidate[t].version <= MaxRevision[t]
                          /\ candidate[t].status # "none" => candidate[t].version > 0
      /\ \A t \in Tasks : certified[t] \subseteq 1 .. MaxRevision[t]
      /\ \A t \in Tasks : candidate[t].version \in Nat
      /\ reviewed \in [Tasks -> Nat]
    BY DEF TaskInv, TaskShape, Candidate
<1>1. ASSUME NEW t \in Tasks, RecordTaskContext(t) \/ ReusedMoves PROVE TaskInv'
    BY <1>0, <1>1, KnowledgeKeepsInv DEF RecordTaskContext, ReusedMoves, KnowledgeMoves
<1>2. ASSUME NEW t \in Tasks, CaptureOrRevise(t) PROVE TaskInv'
  <2>1. PICK n \in Nat : n = candidate[t].version + 1
      BY <1>0
  <2> DEFINE x == [status |-> "pending", version |-> n]
  <2>2. x \in Candidate /\ x.status = "pending" /\ x.version = n
      BY DEF Candidate
  <2>3. candidate' = [candidate EXCEPT ![t] = x]
      BY <1>2, <2>1 DEF CaptureOrRevise
  <2> HIDE DEF x
  <2>4. candidate' \in [Tasks -> Candidate] /\ \A u \in Tasks : candidate'[u] = IF u = t THEN x ELSE candidate[u]
      BY <1>0, <2>2, <2>3
  <2>5. /\ n <= MaxRevision[t] /\ candidate[t].status # "approved" /\ candidate[t].version <= n
        /\ UNCHANGED <<tasks, asked, validations, reviewed, certified>>
      BY <1>0, <1>2, <2>1 DEF CaptureOrRevise
  <2>6. KnowledgeMoves
      BY <1>0, <2>2, <2>4, <2>5 DEF KnowledgeMoves
  <2>7. \A u \in Tasks : /\ candidate'[u].version <= MaxRevision[u]
                         /\ candidate'[u].status # "none" => candidate'[u].version > 0
      BY <1>0, <2>1, <2>2, <2>4, <2>5
  <2> QED
      BY <1>0, <2>4, <2>5, <2>6, <2>7, KnowledgeKeepsInv
<1>3. ASSUME NEW t \in Tasks, ReportChanges(t) PROVE TaskInv'
  <2>1. candidate[t].version \in 1 .. MaxRevision[t]
      BY <1>0, <1>3 DEF ReportChanges
  <2>2. PICK S \in SUBSET (1 .. MaxRevision[t]) : certified' = [certified EXCEPT ![t] = S]
    <3>1. CASE candidate[t].version \in certified[t]
        BY <1>0, <1>3, <3>1 DEF ReportChanges
    <3>2. CASE candidate[t].version \notin certified[t]
        BY <1>0, <1>3, <2>1, <3>2 DEF ReportChanges
    <3> QED
        BY <3>1, <3>2
  <2>3. certified' \in [Tasks -> SUBSET Nat] /\ \A u \in Tasks : certified'[u] \subseteq 1 .. MaxRevision[u]
    <3>1. \A u \in Tasks : certified'[u] = IF u = t THEN S ELSE certified[u]
        BY <1>0, <2>2
    <3>2. S \in SUBSET Nat
        BY <1>0
    <3>3. certified' = [u \in Tasks |-> IF u = t THEN S ELSE certified[u]]
        BY <1>0, <2>2
    <3>4. certified' \in [Tasks -> SUBSET Nat]
        BY <1>0, <3>2, <3>3
    <3> QED
        BY <1>0, <3>1, <3>4
  <2> QED
      BY <1>0, <1>3, <2>3, KnowledgeKeepsInv DEF ReportChanges, KnowledgeMoves
<1>4. ASSUME NEW t \in Tasks, NEW status \in {"approved", "rejected"}, CandidateDecided(t, status) PROVE TaskInv'
  <2> DEFINE x == [candidate[t] EXCEPT !.status = status]
  <2>1. x \in Candidate /\ x.version = candidate[t].version
      BY <1>0 DEF Candidate
  <2>2. /\ candidate' = [candidate EXCEPT ![t] = x] /\ candidate[t].status = "pending"
        /\ UNCHANGED <<tasks, asked, validations, reviewed, certified>>
      BY <1>4 DEF CandidateDecided
  <2> HIDE DEF x
  <2>3. candidate' \in [Tasks -> Candidate] /\ \A u \in Tasks : candidate'[u] = IF u = t THEN x ELSE candidate[u]
      BY <1>0, <2>1, <2>2
  <2>4. KnowledgeMoves
      BY <1>0, <2>1, <2>2, <2>3 DEF KnowledgeMoves
  <2>5. \A u \in Tasks : /\ candidate'[u].version <= MaxRevision[u]
                         /\ candidate'[u].status # "none" => candidate'[u].version > 0
      BY <1>0, <2>1, <2>2, <2>3
  <2> QED
      BY <1>0, <2>2, <2>3, <2>4, <2>5, KnowledgeKeepsInv
<1>5. ASSUME NEW t \in Tasks, RecordCloudReview(t) PROVE TaskInv'
  <2>1. PICK n \in Nat : n = candidate[t].version
      BY <1>0
  <2>2. /\ reviewed' = [reviewed EXCEPT ![t] = n] /\ reviewed[t] = 0
        /\ UNCHANGED <<tasks, asked, candidate, certified, validations>>
      BY <1>5, <2>1 DEF RecordCloudReview
  <2>3. reviewed' \in [Tasks -> Nat] /\ KnowledgeMoves
      BY <1>0, <2>2 DEF KnowledgeMoves
  <2> QED
      BY <1>0, <2>2, <2>3, KnowledgeKeepsInv
<1> QED
    BY <1>1, <1>2, <1>3, <1>4, <1>5 DEF ReusedMoves

-----------------------------------------------------------------------------
(* The queue *)

\* A new task goes to the end of the queue.
LEMMA BeginWorkflowTaskKeepsInv ==
    ASSUME TaskInv, NEW c \in Clients, NEW t \in Tasks, BeginWorkflowTask(c, t)
    PROVE  TaskInv'
<1>0. /\ asked' = [asked EXCEPT ![c] = [kind |-> "activate"]]
      /\ UNCHANGED <<candidate, certified, validations, eligible, used, reviewed>>
    BY DEF BeginWorkflowTask
<1>1. CASE tasks[t] # None
  <2>1. tasks' = tasks
      BY <1>1 DEF BeginWorkflowTask, CreateWorkflowTask
  <2>2. [kind |-> "activate"] \in [kind : {"activate"}] /\ [kind |-> "activate"] \notin Transition
      BY DEF Transition
  <2> QED
      BY <1>0, <2>1, <2>2, AskKeepsInv
<1>2. CASE tasks[t] = None
  <2>1. Cardinality(Rows) \in Nat /\ IsFiniteSet(Rows) /\ t \notin Rows /\ Rows \subseteq Tasks
      BY <1>2, FS_CardinalityType DEF TaskInv, Numbered, Rows
  <2>2. PICK n \in Nat : n = Cardinality(Rows) + 1
      BY <2>1
  <2>3. PICK row \in TaskRow :
           row = [state |-> "queued", version |-> 1, route |-> "pending", ordinal |-> n]
      BY DEF TaskRow, TaskStates
  <2>4. row.state = "queued" /\ row.version = 1 /\ row.route = "pending" /\ row.ordinal = n /\ row # None
      BY <2>3, TaskRowAssumption DEF TaskRowAssumption
  <2>5. tasks' = [tasks EXCEPT ![t] = row] /\ tasks \in [Tasks -> {None} \cup TaskRow]
      BY <1>2, <2>2, <2>3 DEF BeginWorkflowTask, CreateWorkflowTask, TaskInv, TaskShape, TaskTypeOK
  <2>6. /\ tasks' \in [Tasks -> {None} \cup TaskRow] /\ tasks'[t] = row
        /\ \A u \in Rows : tasks'[u] = tasks[u] /\ u # t
      BY <2>1, <2>5
  <2>7. Rows' = Rows \cup {t}
      BY <2>4, <2>5 DEF Rows
  <2>8. IsFiniteSet(Rows') /\ Cardinality(Rows') = n
      BY <2>1, <2>2, <2>7, FS_AddElement
  <2>9. \A u \in Rows : tasks[u].ordinal \in 1 .. Cardinality(Rows) /\ tasks[u].ordinal < n
      BY <2>1, <2>2 DEF TaskInv, Numbered
  <2>10. Numbered'
    <3>1. \A u \in Rows \cup {t} : tasks'[u].ordinal \in 1 .. n
        BY <2>1, <2>2, <2>4, <2>6, <2>9
    <3> QED
        BY <2>7, <2>8, <3>1 DEF Numbered
  <2>11. TaskShape'
    <3>1. 1 \in 1 .. MaxTaskVersion[t]
        BY TasksAssumption DEF TasksAssumption
    <3>2. TaskTypeOK'
        BY <1>0, <2>4, <2>6, <2>7, <2>9, <3>1 DEF TaskInv, TaskShape, TaskTypeOK
    <3> QED
        BY <1>0, <3>2 DEF TaskInv, TaskShape
  <2>12. Milestones'
      BY <1>0, <2>4, <2>6, <2>7 DEF TaskInv, Milestones
  <2>13. OneTaskAtATimeInOrder'
      BY <2>4, <2>6, <2>7, <2>9 DEF TaskInv, OneTaskAtATimeInOrder, Active
  <2>14. ASSUME NEW q, Stands(q) PROVE Stands(q)'
    <3>1. q.task \in Rows /\ q.task \in Rows' /\ tasks'[q.task] = tasks[q.task]
        BY <2>6, <2>7, <2>14 DEF Stands
    <3>2. \A state : workflowTaskTransition(q.task, state)' = workflowTaskTransition(q.task, state)
        BY <3>1 DEF workflowTaskTransition, AfterResult
    <3>3. q.task \in GetActivatableWorkflowTask => (q.task \in GetActivatableWorkflowTask)'
        BY <2>4, <2>6, <2>7, <2>9, <3>1 DEF GetActivatableWorkflowTask, Active
    <3> QED
        BY <1>0, <2>14, <3>1, <3>2, <3>3 DEF Stands
  <2>15. RequestsStand'
    <3>1. \A d \in Clients : asked'[d] = IF d = c THEN [kind |-> "activate"] ELSE asked[d]
        BY <1>0 DEF TaskInv, TaskShape
    <3>2. [kind |-> "activate"] \notin Transition
        BY DEF Transition
    <3> QED
        BY <2>14, <3>1, <3>2 DEF TaskInv, RequestsStand
  <2> QED
      BY <2>10, <2>11, <2>12, <2>13, <2>15 DEF TaskInv
<1> QED
    BY <1>1, <1>2

\* What a committed transition leaves: the row of its task moved by one
\* version along the table, every other row is as it was.
Moved(q) ==
    /\ q.task \in Rows /\ Fits(q) /\ Unchanged(q)
    /\ tasks' \in [Tasks -> {None} \cup TaskRow] /\ Rows' = Rows
    /\ \A u \in Rows : u # q.task => tasks'[u] = tasks[u]
    /\ tasks'[q.task].state = q.to /\ tasks'[q.task].version = tasks[q.task].version + 1
    /\ tasks'[q.task].version <= MaxTaskVersion[q.task]
    /\ tasks'[q.task].route = (IF q.event = "TASK_ACTIVATED" THEN q.route ELSE tasks[q.task].route)
    /\ tasks'[q.task].ordinal = tasks[q.task].ordinal

LEMMA CommitMoves ==
    ASSUME TaskInv, NEW c \in Clients, NEW q \in Transition, q = asked[c], q # None, Unchanged(q),
           tasks[q.task].version < MaxTaskVersion[q.task],
           tasks' = [tasks EXCEPT ![q.task].state = q.to, ![q.task].version = @ + 1,
                        ![q.task].route = IF q.event = "TASK_ACTIVATED" THEN q.route ELSE @]
    PROVE  Moved(q)
<1>1. Stands(q)
    BY DEF TaskInv, RequestsStand
<1>2. PICK t \in Rows : t = q.task
    BY <1>1 DEF Stands
<1>3. /\ Rows \subseteq Tasks /\ tasks \in [Tasks -> {None} \cup TaskRow] /\ tasks[t] \in TaskRow
    BY DEF Rows, TaskInv, TaskShape, TaskTypeOK
<1>4. PICK n \in Nat, route \in Routes \cup {"pending"} :
         n = tasks[t].version + 1 /\ route = IF q.event = "TASK_ACTIVATED" THEN q.route ELSE tasks[t].route
    BY <1>2, <1>3 DEF TaskRow, Transition
<1> DEFINE row == [tasks[t] EXCEPT !.state = q.to, !.version = n, !.route = route]
<1>5. tasks' = [tasks EXCEPT ![t] = row]
    BY <1>2, <1>3, <1>4
<1>6. /\ row \in TaskRow /\ row.state = q.to /\ row.version = n /\ row.route = route
      /\ row.ordinal = tasks[t].ordinal
    BY <1>3, <1>4 DEF TaskRow, Transition
<1>7. row # None
    BY <1>6, TaskRowAssumption DEF TaskRowAssumption
<1> HIDE DEF row
<1>8. /\ tasks' \in [Tasks -> {None} \cup TaskRow] /\ tasks'[t] = row
      /\ \A u \in Tasks : u # t => tasks'[u] = tasks[u]
    BY ONLY <1>3, <1>5, <1>6, t \in Rows
<1>9. Rows' = Rows
    BY ONLY <1>7, <1>8, t \in Rows DEF Rows
<1>10. n <= MaxTaskVersion[t]
    BY <1>2, <1>3, <1>4, TasksAssumption DEF TaskRow, TasksAssumption
<1>11. Fits(q)
    BY <1>1, TableOrder DEF Stands, Fits, Unchanged
<1> QED
    BY <1>2, <1>3, <1>4, <1>6, <1>8, <1>9, <1>10, <1>11 DEF Moved

\* The queue keeps its order when a task moves.
LEMMA MovedKeepsOrder ==
    ASSUME TaskInv, NEW q \in Transition, Moved(q)
    PROVE  OneTaskAtATimeInOrder'
<1>1. PICK t \in Rows : t = q.task
    BY DEF Moved
<1>2. /\ Rows' = Rows /\ \A u \in Rows : u # t => tasks'[u] = tasks[u]
      /\ tasks'[t].state = q.to /\ tasks'[t].ordinal = tasks[t].ordinal
    BY <1>1 DEF Moved
<1>3. /\ q.to # "queued" /\ tasks[t].state \notin {"completed", "rejected"}
      /\ tasks[t].state = "queued" =>
            q.to = "rejected" \/ (q.to = "local_execution" /\ t \in GetActivatableWorkflowTask)
      /\ tasks[t].state # "queued" => q.to # "rejected"
    BY <1>1, TableOrder DEF Moved, Fits
<1>4. \A u \in Rows : tasks[u].ordinal \in Nat
    BY DEF Rows, TaskInv, TaskShape, TaskTypeOK, TaskRow
<1>5. /\ \A u, v \in Rows : tasks[u].ordinal = tasks[v].ordinal => u = v
      /\ \A u, v \in Rows : Active(u) /\ Active(v) => u = v
      /\ \A u, v \in Rows : tasks[u].state = "queued" /\ tasks[u].ordinal < tasks[v].ordinal =>
            tasks[v].state \in {"queued", "rejected"}
    BY DEF TaskInv, TaskShape, TaskTypeOK, OneTaskAtATimeInOrder
<1>6. t \in GetActivatableWorkflowTask =>
         /\ \A u \in Rows : ~Active(u)
         /\ \A u \in Rows : tasks[u].state = "queued" => tasks[t].ordinal <= tasks[u].ordinal
    BY DEF GetActivatableWorkflowTask
<1>7. ASSUME NEW u \in Rows, NEW v \in Rows, Active(u)', Active(v)' PROVE u = v
    BY <1>2, <1>3, <1>5, <1>6, <1>7 DEF Active
<1>8. ASSUME NEW u \in Rows, NEW v \in Rows, tasks'[u].state = "queued", tasks'[u].ordinal < tasks'[v].ordinal
      PROVE  tasks'[v].state \in {"queued", "rejected"}
  <2>1. u # t /\ tasks'[u] = tasks[u] /\ tasks'[v].ordinal = tasks[v].ordinal
      BY <1>2, <1>3, <1>8
  <2>2. CASE v # t
      BY <1>2, <1>5, <1>8, <2>1, <2>2
  <2>3. CASE v = t
      BY <1>2, <1>3, <1>4, <1>5, <1>6, <1>8, <2>1, <2>3
  <2> QED
      BY <2>2, <2>3
<1> QED
    BY <1>2, <1>7, <1>8 DEF OneTaskAtATimeInOrder

\* The other requests stand: the task that moved has left the queue for good,
\* and another head of the queue is still the head.
LEMMA MovedKeepsRequests ==
    ASSUME TaskInv, NEW q \in Transition, Moved(q), UNCHANGED <<candidate, reviewed>>,
           NEW p \in Transition, Stands(p)
    PROVE  Stands(p)'
<1>1. PICK t \in Rows, u \in Rows : t = q.task /\ u = p.task
    BY DEF Moved, Stands
<1>2. /\ Rows' = Rows /\ tasks'[t].state = q.to /\ tasks'[t].ordinal = tasks[t].ordinal
      /\ \A v \in Rows : v # t => tasks'[v] = tasks[v]
      /\ tasks'[t].route = IF q.event = "TASK_ACTIVATED" THEN q.route ELSE tasks[t].route
    BY <1>1 DEF Moved
<1>3. CASE t = u
  <2>1. q.to # "queued" /\ (q.event = "TASK_ACTIVATED" => tasks[t].state = "queued")
      BY <1>1, TableOrder DEF Moved, Fits
  <2>2. <<p.event, p.to>> \in workflowTaskTransition(u, p.from)
      BY <1>1 DEF Stands
  <2>3. (<<p.event, p.to>> \in workflowTaskTransition(u, p.from))'
    <3>1. CASE p.from = "local_execution"
      <4>1. tasks'[u].route = tasks[u].route
          BY <1>1, <1>2, <1>3, <2>1, <3>1 DEF Stands
      <4> QED
          BY <2>2, <4>1 DEF workflowTaskTransition, AfterResult
    <3>2. CASE p.from # "local_execution"
        BY <2>2, <3>2 DEF workflowTaskTransition
    <3> QED
        BY <3>1, <3>2
  <2> QED
      BY <1>1, <1>2, <1>3, <2>1, <2>3 DEF Stands
<1>4. CASE t # u
  <2>1. tasks'[u] = tasks[u]
      BY <1>2, <1>4
  <2>2. \A state : workflowTaskTransition(u, state)' = workflowTaskTransition(u, state)
      BY <2>1 DEF workflowTaskTransition, AfterResult
  <2>3. ASSUME u \in GetActivatableWorkflowTask PROVE (u \in GetActivatableWorkflowTask)'
    <3>1. /\ tasks[u].state = "queued" /\ \A v \in Rows : ~Active(v)
          /\ \A v \in Rows : tasks[v].state = "queued" => tasks[u].ordinal <= tasks[v].ordinal
        BY <2>3 DEF GetActivatableWorkflowTask
    <3>2. tasks[t].state = "queued" /\ t \notin GetActivatableWorkflowTask
      <4>1. tasks[t].state = "queued"
          BY <1>1, <3>1, TableOrder DEF Moved, Fits, Active
      <4>2. t \in GetActivatableWorkflowTask => tasks[t].ordinal <= tasks[u].ordinal
          BY <3>1 DEF GetActivatableWorkflowTask
      <4>3. tasks[t].ordinal \in Nat /\ tasks[u].ordinal \in Nat /\ tasks[t].ordinal # tasks[u].ordinal
          BY <1>4 DEF Rows, TaskInv, TaskShape, TaskTypeOK, TaskRow
      <4> QED
          BY <3>1, <4>1, <4>2, <4>3
    <3>3. q.to = "rejected"
        BY <1>1, <3>2, TableOrder DEF Moved, Fits
    <3>4. \A v \in Rows : ~Active(v)'
        BY <1>2, <3>1, <3>3 DEF Active
    <3> QED
        BY <1>2, <2>1, <3>1, <3>3, <3>4 DEF GetActivatableWorkflowTask
  <2> QED
      BY <1>1, <1>2, <2>1, <2>2, <2>3 DEF Stands
<1> QED
    BY <1>3, <1>4

\* The milestones are reached along the table, and the request that reaches
\* one stands.
LEMMA MovedKeepsMilestones ==
    ASSUME TaskInv, NEW q \in Transition, Stands(q), Moved(q), UNCHANGED <<candidate, reviewed>>
    PROVE  Milestones'
<1>1. PICK t \in Rows : t = q.task
    BY DEF Moved
<1>2. /\ Rows' = Rows /\ \A u \in Rows : u # t => tasks'[u] = tasks[u]
      /\ tasks'[t].state = q.to
      /\ tasks'[t].route = (IF q.event = "TASK_ACTIVATED" THEN q.route ELSE tasks[t].route)
    BY <1>1 DEF Moved
<1>3. /\ q.event = "TASK_ACTIVATED" => q.to = "local_execution"
      /\ q.to = "rag_readback_required" => q.event = "LEARNING_PROMOTED" /\ tasks[t].state = "promotion_required"
      /\ q.to = "promotion_required" => tasks[t].state = "validation_required"
      /\ q.to = "validation_required" /\ tasks[t].route = "cloud_review" =>
            q.event = "LOCAL_REVISION_RECORDED" /\ tasks[t].state = "local_revision_required"
      /\ q.to = "local_revision_required" =>
            q.event = "CLOUD_REVIEW_RECORDED" \/ tasks[t].state = "validation_required"
    BY <1>1, TableOrder DEF Moved, Fits
<1>4. /\ q.event = "LEARNING_PROMOTED" => candidate[t].status = "approved"
      /\ q.event = "LOCAL_REVISION_RECORDED" => candidate[t].version >= 2
    BY <1>1 DEF Stands
<1>5. q.event = "CLOUD_REVIEW_RECORDED" => reviewed[t] # 0
    BY <1>1 DEF Stands
<1>6. Milestones
    BY DEF TaskInv
<1> QED
    BY ONLY <1>2, <1>3, <1>4, <1>5, <1>6, UNCHANGED <<candidate, reviewed>> DEF Milestones

\* The transaction, committed or refused.
LEMMA TransitionWorkflowTaskKeepsInv ==
    ASSUME TaskInv, NEW c \in Clients, TransitionWorkflowTask(c)
    PROVE  TaskInv'
<1>1. PICK q \in Transition : q = asked[c] /\ q # None
    BY DEF TransitionWorkflowTask, TaskInv, TaskShape
<1>2. Stands(q)
    BY <1>1 DEF TaskInv, RequestsStand
<1>3. UNCHANGED <<candidate, certified, eligible, used, reviewed>>
    BY DEF TransitionWorkflowTask
<1>4. CASE asked' = [asked EXCEPT ![c] = None] /\ UNCHANGED <<tasks, validations>>
    BY <1>3, <1>4, AskKeepsInv
<1>5. CASE /\ Unchanged(q) /\ tasks[q.task].version < MaxTaskVersion[q.task]
           /\ Locally(q)
           /\ tasks' = [tasks EXCEPT ![q.task].state = q.to, ![q.task].version = @ + 1,
                           ![q.task].route = IF q.event = "TASK_ACTIVATED" THEN q.route ELSE @]
           /\ validations' = [validations EXCEPT ![q.task] = Validated(q)]
           /\ asked' = [asked EXCEPT ![c] =
                  IF q.to \in {"completed", "rejected"} THEN [kind |-> "activate"] ELSE None]
  <2>1. Moved(q)
      BY <1>1, <1>5, CommitMoves
  <2>2. OneTaskAtATimeInOrder' /\ Milestones'
      BY <1>2, <1>3, <1>5, <2>1, MovedKeepsOrder, MovedKeepsMilestones
  <2>3. PICK t \in Rows : t = q.task /\ t \in Tasks
      BY <1>2 DEF Stands, Rows
  <2>4. Rows' = Rows /\ \A u \in Rows : tasks'[u].ordinal = tasks[u].ordinal
      BY <2>1, <2>3 DEF Moved
  <2>5. Numbered'
      BY <2>4 DEF TaskInv, Numbered
  <2>6. PICK x \in {None} \cup [kind : {"activate"}] : asked' = [asked EXCEPT ![c] = x] /\ (x # None => x \notin Transition)
    <3>1. [kind |-> "activate"] \in [kind : {"activate"}] /\ [kind |-> "activate"] \notin Transition
        BY DEF Transition
    <3> QED
        BY <1>5, <3>1
  <2>7. RequestsStand'
    <3>1. \A d \in Clients : asked'[d] = IF d = c THEN x ELSE asked[d]
        BY <2>6 DEF TaskInv, TaskShape
    <3>2. \A p \in Transition : Stands(p) => Stands(p)'
        BY <1>3, <2>1, MovedKeepsRequests
    <3> QED
        BY <2>6, <3>1, <3>2 DEF TaskInv, RequestsStand
  <2>8. validations' \in [Tasks -> SUBSET Nat] /\ \A u \in Tasks : validations'[u] \subseteq 1 .. MaxRevision[u]
    <3>1. Validated(q) \subseteq 1 .. MaxRevision[t]
        BY <1>5, <2>3 DEF Validated, Locally, TaskInv, TaskShape, TaskTypeOK
    <3>2. validations \in [Tasks -> SUBSET Nat] /\ \A u \in Tasks : validations[u] \subseteq 1 .. MaxRevision[u]
        BY DEF TaskInv, TaskShape, TaskTypeOK
    <3>3. 1 .. MaxRevision[t] \subseteq Nat
        BY <2>3, TasksAssumption DEF TasksAssumption
    <3> HIDE DEF Validated
    <3> QED
        BY <1>5, <2>3, <3>1, <3>2, <3>3
  <2>9. TaskTypeOK'
    <3>1. ASSUME NEW u \in Rows
          PROVE  /\ tasks'[u].version \in 1 .. MaxTaskVersion[u]
                 /\ tasks'[u].state \notin {"queued", "rejected"} => tasks'[u].route # "pending"
      <4>1. /\ tasks[u].version \in 1 .. MaxTaskVersion[u] /\ MaxTaskVersion[u] \in Nat
            /\ tasks[u].state \notin {"queued", "rejected"} => tasks[u].route # "pending"
          BY TasksAssumption DEF TaskInv, TaskShape, TaskTypeOK, TasksAssumption, Rows
      <4>2. CASE u # t
          BY <2>1, <2>3, <4>1, <4>2 DEF Moved
      <4>3. CASE u = t
        <5>1. /\ tasks'[t].state = q.to /\ tasks'[t].version = tasks[t].version + 1
              /\ tasks'[t].version <= MaxTaskVersion[t]
              /\ tasks'[t].route = (IF q.event = "TASK_ACTIVATED" THEN q.route ELSE tasks[t].route)
            BY <2>1, <2>3 DEF Moved
        <5>2. q.route # "pending"
            BY DEF Transition, Routes
        <5>3. /\ tasks[t].state \notin {"completed", "rejected"}
              /\ tasks[t].state = "queued" => q.event = "TASK_ACTIVATED" \/ q.to = "rejected"
            BY <2>1, <2>3, TableOrder DEF Moved, Fits
        <5> QED
            BY <4>1, <4>3, <5>1, <5>2, <5>3
      <4> QED
          BY <4>2, <4>3
    <3> QED
        BY <2>1, <2>4, <2>8, <3>1 DEF TaskTypeOK, Moved, TaskInv, TaskShape
  <2>10. TaskShape'
    <3>1. asked' \in [Clients -> {None} \cup [kind : {"activate"}] \cup Transition]
        BY <2>6 DEF TaskInv, TaskShape
    <3> QED
        BY <1>3, <2>8, <2>9, <3>1 DEF TaskInv, TaskShape
  <2> QED
      BY <2>2, <2>5, <2>7, <2>10 DEF TaskInv
<1> QED
    BY <1>1, <1>4, <1>5 DEF TransitionWorkflowTask

LEMMA TaskStepInv == TaskInv /\ [TaskNext]_taskVars => TaskInv'
<1> SUFFICES ASSUME TaskInv, [TaskNext]_taskVars PROVE TaskInv'
    OBVIOUS
<1>1. CASE UNCHANGED taskVars
  <2>1. KnowledgeMoves
      BY <1>1 DEF taskVars, KnowledgeMoves, TaskInv, TaskShape, Candidate
  <2> QED
      BY <1>1, <2>1, KnowledgeKeepsInv DEF taskVars, TaskInv, TaskShape
<1>2. CASE TaskNext
    BY <1>2, BeginWorkflowTaskKeepsInv, RequestsKeepInv, TransitionWorkflowTaskKeepsInv, EnvironmentKeepsInv
    DEF TaskNext
<1> QED
    BY <1>1, <1>2

\* One task of a run at a time, in the order of the queue, however many
\* clients race for its head (GetActivatableWorkflowTask, TransitionWorkflowTask).
THEOREM OneTaskInOrder == TaskSpec => []OneTaskAtATimeInOrder
<1>1. TaskInv => OneTaskAtATimeInOrder
    BY DEF TaskInv
<1> QED
    BY <1>1, TaskInitInv, TaskStepInv, PTL DEF TaskSpec

\* The rows keep their types, and every task has an ordinal of its own
\* (CreateWorkflowTask).
THEOREM TaskTypes == TaskSpec => []TaskTypeOK
<1>1. TaskInv => TaskTypeOK
    BY DEF TaskInv, TaskShape
<1> QED
    BY <1>1, TaskInitInv, TaskStepInv, PTL DEF TaskSpec

-----------------------------------------------------------------------------
(* Completion *)

\* Only a committed transition changes the rows there are.
LEMMA OthersKeepRows ==
    ASSUME TaskInv, TaskNext, \A c \in Clients : ~TransitionWorkflowTask(c)
    PROVE  \A t \in Rows : tasks'[t] = tasks[t]
<1>1. ASSUME NEW c \in Clients, NEW t \in Tasks, BeginWorkflowTask(c, t) PROVE \A u \in Rows : tasks'[u] = tasks[u]
  <2>1. tasks \in [Tasks -> {None} \cup TaskRow]
      BY DEF TaskInv, TaskShape, TaskTypeOK
  <2>2. PICK row : tasks' = tasks \/ (tasks[t] = None /\ tasks' = [tasks EXCEPT ![t] = row])
      BY <1>1 DEF BeginWorkflowTask, CreateWorkflowTask
  <2> QED
      BY ONLY <2>1, <2>2 DEF Rows
<1>2. ASSUME UNCHANGED tasks PROVE \A u \in Rows : tasks'[u] = tasks[u]
    BY <1>2
<1> QED
    BY <1>1, <1>2
    DEF TaskNext, CheckTransition, activateWorkflowQueueHead, AbandonRequest, RecordTaskContext, CaptureOrRevise,
        ReportChanges, RecordCloudReview, CandidateDecided, ReusedMoves

\* A step that completes a task found it earned.
LEMMA StepIsEarned == TaskInv /\ [TaskNext]_taskVars => [EarnedNow]_taskVars
<1> SUFFICES ASSUME TaskInv, TaskNext PROVE EarnedNow
    OBVIOUS
<1>1. CASE \A c \in Clients : ~TransitionWorkflowTask(c)
    BY <1>1, OthersKeepRows DEF EarnedNow
<1>2. ASSUME NEW c \in Clients, TransitionWorkflowTask(c) PROVE EarnedNow
  <2>1. PICK q \in Transition : q = asked[c] /\ q # None
      BY <1>2 DEF TransitionWorkflowTask, TaskInv, TaskShape
  <2>2. CASE UNCHANGED tasks
      BY <2>2 DEF EarnedNow
  <2>3. CASE /\ Unchanged(q) /\ tasks[q.task].version < MaxTaskVersion[q.task]
             /\ verifyTaskContextCompletion(q)
             /\ tasks' = [tasks EXCEPT ![q.task].state = q.to, ![q.task].version = @ + 1,
                             ![q.task].route = IF q.event = "TASK_ACTIVATED" THEN q.route ELSE @]
             /\ validations' = [validations EXCEPT ![q.task] = Validated(q)]
    <3>1. Moved(q)
        BY <2>1, <2>3, CommitMoves
    <3>2. PICK t \in Rows : t = q.task /\ t \in Tasks
        BY <3>1 DEF Moved, Rows
    <3>3. /\ \A u \in Rows : u # t => tasks'[u] = tasks[u]
          /\ tasks'[t].state = q.to
          /\ q.to = "completed" => tasks[t].state \in {"validation_required", "rag_readback_required"}
        BY <3>1, <3>2, TableOrder DEF Moved, Fits
    <3>4. validations'[t] = Validated(q)
        BY <2>3, <3>2 DEF TaskInv, TaskShape
    <3>5. q.to = "completed" =>
             /\ used[t] # None => used[t] = "current" /\ eligible
             /\ candidate[t].version \in validations'[t] \cap certified[t]
        BY <2>3, <3>2, <3>4 DEF verifyTaskContextCompletion
    <3>6. Milestones
        BY DEF TaskInv
    <3> QED
        BY ONLY <3>2, <3>3, <3>5, <3>6 DEF EarnedNow, Milestones
  <2> QED
      BY <1>2, <2>1, <2>2, <2>3 DEF TransitionWorkflowTask
<1> QED
    BY <1>1, <1>2

\* A task completes only on a validated and still certified candidate, on
\* knowledge that is still the approved one, and on the cloud route with a
\* review and a revision of it, in either order (verifyTaskContextCompletion).
THEOREM CompletionEarned == TaskSpec => CompletionIsEarned
<1> QED
    BY TaskInitInv, TaskStepInv, StepIsEarned, PTL DEF TaskSpec, CompletionIsEarned

-----------------------------------------------------------------------------
(* Delegation *)

DelegationShape ==
    /\ DelegationTypeOK
    /\ session \in [Grants -> [at : {"none", "open", "arrived", "admitted", "denied"}, late : BOOLEAN]]
    /\ lost \subseteq Grants

\* What history calls lost is withdrawn for good, and a late call is one of a
\* grant that was lost.
LostIsWithdrawn ==
    /\ \A d \in lost : Withdrawn(d)
    /\ \A d \in Grants : session[d].late => d \in lost

\* A grant is issued once, and its token is in the file or with the command
\* that issued it, unless it is void or the command could not undo the issue.
HandedOver ==
    /\ command # None => (command.at = "issue" <=> grants[command.grant] = None)
    /\ command # None => tokenFile = "empty"
    /\ \A d \in Grants : grants[d] # None =>
          \/ grants[d].revoked \/ tokenFile = d \/ d \in orphaned
          \/ command # None /\ command.grant = d

DelegationInv == DelegationShape /\ LostIsWithdrawn /\ HandedOver /\ WithdrawnStaysWithdrawn

-----------------------------------------------------------------------------

LEMMA DelegationInitInv == DelegationInit => DelegationInv
<1> SUFFICES ASSUME DelegationInit PROVE DelegationInv
    OBVIOUS
<1>1. DelegationShape
  <2>1. role \in BOOLEAN
      BY Zenon DEF DelegationInit
  <2>2. clock \in 0 .. MaxTime
      BY DelegationAssumption DEF DelegationInit, DelegationAssumption
  <2>3. DelegationTypeOK
      BY <2>1, <2>2 DEF DelegationInit, DelegationTypeOK
  <2>4. session \in [Grants -> [at : {"none", "open", "arrived", "admitted", "denied"}, late : BOOLEAN]]
      BY DEF DelegationInit
  <2> QED
      BY <2>3, <2>4 DEF DelegationInit, DelegationShape
<1>2. LostIsWithdrawn /\ WithdrawnStaysWithdrawn
    BY DEF DelegationInit, LostIsWithdrawn, WithdrawnStaysWithdrawn
<1>3. HandedOver
    BY DEF DelegationInit, HandedOver
<1> QED
    BY <1>1, <1>2, <1>3 DEF DelegationInv

\* Authority only fades: time passes, a revoked credential is never live
\* again, an ended task stays ended, and a grant is never given more.
Fades ==
    /\ clock <= clock' /\ clock' \in 0 .. MaxTime
    /\ \A t \in Tokens : credential[t] = "revoked" => credential'[t] = "revoked"
    /\ task = "ended" => task' = "ended"
    /\ \A d \in Grants : grants[d] # None =>
          /\ grants'[d] \in GrantRow /\ grants'[d] # None /\ grants'[d].parent = grants[d].parent
          /\ grants'[d].expires = grants[d].expires /\ (grants[d].revoked => grants'[d].revoked)

LEMMA WithdrawnForGood ==
    ASSUME DelegationInv, Fades, NEW d \in Grants, Withdrawn(d)
    PROVE  Withdrawn(d)'
<1>1. grants[d] \in GrantRow /\ clock \in Nat /\ clock' \in Nat
    BY DelegationAssumption DEF Withdrawn, DelegationInv, DelegationShape, DelegationTypeOK, Fades, DelegationAssumption
<1>2. /\ grants'[d] # None /\ grants'[d].parent = grants[d].parent /\ grants'[d].expires = grants[d].expires
      /\ grants[d].revoked => grants'[d].revoked
    BY DEF Withdrawn, Fades
<1>3. grants[d].parent \in Tokens /\ grants[d].expires \in Nat
    BY <1>1 DEF GrantRow
<1>4. clock <= clock' /\ (task = "ended" => task' = "ended")
      /\ \A t \in Tokens : credential[t] = "revoked" => credential'[t] = "revoked"
    BY DEF Fades
<1>5. grants[d].expires <= clock => grants'[d].expires <= clock'
    BY <1>1, <1>2, <1>3, <1>4
<1> QED
    BY <1>2, <1>3, <1>4, <1>5 DEF Withdrawn

\* A step that keeps the sessions, and records what it withdraws or
\* withdraws nothing that was not recorded.
LEMMA FadesKeepsLost ==
    ASSUME DelegationInv, Fades, UNCHANGED session, Remember \/ UNCHANGED lost
    PROVE  LostIsWithdrawn' /\ WithdrawnStaysWithdrawn' /\ lost' \subseteq Grants
<1>1. \A d \in lost : Withdrawn(d)' /\ d \in Grants
    BY WithdrawnForGood DEF DelegationInv, LostIsWithdrawn, DelegationShape
<1>2. lost \subseteq lost' /\ lost' \subseteq Grants /\ \A d \in lost' : Withdrawn(d)'
    BY <1>1 DEF Remember
<1>3. LostIsWithdrawn'
    BY <1>2 DEF DelegationInv, LostIsWithdrawn
<1> QED
    BY <1>2, <1>3 DEF DelegationInv, WithdrawnStaysWithdrawn

\* The token of the environment is configured again, with or without the role.
LEMMA BootstrapKeepsInv ==
    ASSUME DelegationInv, NEW t \in Tokens \cup {None}, NEW bound \in BOOLEAN, BootstrapPrincipals(t, bound)
    PROVE  DelegationInv'
<1>1. /\ credential' \in [Tokens -> {"absent", "live", "revoked"}]
      /\ \A u \in Tokens : credential[u] = "revoked" => credential'[u] = "revoked"
    BY DEF BootstrapPrincipals, BootstrapCredential, DelegationInv, DelegationShape, DelegationTypeOK
<1>2. /\ UNCHANGED <<task, grants, session, command, tokenFile, clock, orphaned>> /\ role' = bound /\ Remember
    BY DEF BootstrapPrincipals
<1>3. Fades
    BY <1>1, <1>2, DelegationAssumption
    DEF Fades, DelegationInv, DelegationShape, DelegationTypeOK, DelegationAssumption
<1>4. LostIsWithdrawn' /\ WithdrawnStaysWithdrawn' /\ lost' \subseteq Grants
    BY <1>2, <1>3, FadesKeepsLost
<1>5. DelegationShape' /\ HandedOver'
    BY <1>1, <1>2, <1>4 DEF DelegationInv, DelegationShape, DelegationTypeOK, HandedOver
<1> QED
    BY <1>4, <1>5 DEF DelegationInv

\* The task moves, or time passes.
LEMMA TaskAndClockKeepInv ==
    ASSUME DelegationInv, TaskMoves \/ Tick
    PROVE  DelegationInv'
<1>1. /\ task' \in {"queued", "active", "ended"} /\ (task = "ended" => task' = "ended")
      /\ clock <= clock' /\ clock' \in 0 .. MaxTime
    BY DelegationAssumption
    DEF TaskMoves, Tick, DelegationInv, DelegationShape, DelegationTypeOK, DelegationAssumption
<1>2. UNCHANGED <<credential, role, grants, session, command, tokenFile, orphaned>> /\ Remember
    BY DEF TaskMoves, Tick
<1>3. Fades
    BY <1>1, <1>2 DEF Fades, DelegationInv, DelegationShape, DelegationTypeOK
<1>4. LostIsWithdrawn' /\ WithdrawnStaysWithdrawn' /\ lost' \subseteq Grants
    BY <1>2, <1>3, FadesKeepsLost
<1>5. DelegationShape' /\ HandedOver'
    BY <1>1, <1>2, <1>4 DEF DelegationInv, DelegationShape, DelegationTypeOK, HandedOver
<1> QED
    BY <1>4, <1>5 DEF DelegationInv

-----------------------------------------------------------------------------
(* The command that issues a credential *)

LEMMA StartCommandKeepsInv ==
    ASSUME DelegationInv, NEW d \in Grants, NEW t \in Tokens, NEW ttl \in 1 .. 2, StartCommand(d, t, ttl)
    PROVE  DelegationInv'
<1> DEFINE x == [at |-> "issue", grant |-> d, parent |-> t, ttl |-> ttl]
<1>1. x \in Command /\ x.at = "issue" /\ x.grant = d
    BY DEF Command
<1>2. /\ command' = x /\ tokenFile' = "empty" /\ grants[d] = None /\ command = None /\ tokenFile = None
      /\ UNCHANGED <<credential, role, task, grants, session, clock, lost, orphaned>>
    BY DEF StartCommand
<1> HIDE DEF x
<1>3. DelegationShape'
    BY <1>1, <1>2 DEF DelegationInv, DelegationShape, DelegationTypeOK
<1>4. LostIsWithdrawn' /\ WithdrawnStaysWithdrawn'
    BY <1>2 DEF DelegationInv, LostIsWithdrawn, Withdrawn, WithdrawnStaysWithdrawn
<1>5. HandedOver'
  <2>1. \A e \in Grants : grants[e] # None => grants[e].revoked \/ e \in orphaned
      BY <1>2, DelegationAssumption DEF DelegationInv, HandedOver, DelegationAssumption
  <2> QED
      BY <1>1, <1>2, <2>1 DEF HandedOver
<1> QED
    BY <1>3, <1>4, <1>5 DEF DelegationInv

\* The lifetime of a grant is a time, and not later than its parent's end.
LEMMA LifetimeWithinParent ==
    ASSUME DelegationInv, NEW t \in Tokens, NEW ttl \in 1 .. 2
    PROVE  Lifetime(t, ttl) \in Nat /\ (TokenExpiry[t] # None => Lifetime(t, ttl) <= TokenExpiry[t])
<1>1. clock \in Nat /\ ttl \in Nat /\ (TokenExpiry[t] # None => TokenExpiry[t] \in Nat)
    BY DelegationAssumption DEF DelegationInv, DelegationShape, DelegationTypeOK, DelegationAssumption
<1> QED
    BY <1>1 DEF Lifetime

\* The grant is issued, refused, or issued without the command learning of it.
LEMMA IssueKeepsInv ==
    ASSUME DelegationInv, NEW outcome \in {"issued", "refused", "lost"}, IssueTaskCredential(outcome)
    PROVE  DelegationInv'
<1>1. PICK x \in Command : x = command /\ x.at = "issue" /\ command # None /\ tokenFile = "empty"
    BY DEF IssueTaskCredential, DelegationInv, DelegationShape, DelegationTypeOK, HandedOver
<1>2. PICK d \in Grants, t \in Tokens, ttl \in 1 .. 2 : d = x.grant /\ t = x.parent /\ ttl = x.ttl
    BY DEF Command
<1>3. /\ grants[d] = None /\ UNCHANGED <<credential, role, task, session, clock, lost>>
      /\ orphaned' = IF outcome = "lost" THEN orphaned \cup {d} ELSE orphaned
    BY <1>1, <1>2 DEF IssueTaskCredential, DelegationInv, HandedOver
<1>4. d \notin lost
    BY <1>3 DEF DelegationInv, LostIsWithdrawn, Withdrawn
<1>5. CASE outcome # "refused"
  <2> DEFINE g == [parent |-> t, revoked |-> FALSE, expires |-> Lifetime(t, ttl)]
             y == [x EXCEPT !.at = "write"]
  <2>1. /\ grants' = [grants EXCEPT ![d] = g]
        /\ \/ outcome = "issued" /\ command' = y /\ UNCHANGED tokenFile
           \/ outcome = "lost" /\ command' = None /\ tokenFile' = None
      BY <1>1, <1>2, <1>5 DEF IssueTaskCredential, IssueTaskDelegation
  <2>2. g \in GrantRow /\ g.parent = t /\ g.expires = Lifetime(t, ttl) /\ g # None
    <3>1. g \in GrantRow /\ g.parent = t /\ g.expires = Lifetime(t, ttl)
        BY LifetimeWithinParent DEF GrantRow
    <3> QED
        BY <3>1, GrantRowAssumption DEF GrantRowAssumption
  <2>3. y \in Command /\ y.at = "write" /\ y.grant = d /\ y # None
    <3>1. y \in Command /\ y.at = "write" /\ y.grant = d
        BY <1>2 DEF Command
    <3> QED
        BY <3>1, GrantRowAssumption DEF GrantRowAssumption
  <2> HIDE DEF g, y
  <2>4. /\ grants' \in [Grants -> {None} \cup GrantRow] /\ grants'[d] = g
        /\ \A e \in Grants : e # d => grants'[e] = grants[e]
      BY <2>1, <2>2 DEF DelegationInv, DelegationShape, DelegationTypeOK
  <2>5. DelegationShape'
    <3>1. \A e \in Grants : grants'[e] # None /\ TokenExpiry[grants'[e].parent] # None =>
             grants'[e].expires <= TokenExpiry[grants'[e].parent]
        BY <2>2, <2>4, LifetimeWithinParent DEF DelegationInv, DelegationShape, DelegationTypeOK
    <3> QED
        BY <1>3, <2>1, <2>3, <2>4, <3>1 DEF DelegationInv, DelegationShape, DelegationTypeOK
  <2>6. LostIsWithdrawn' /\ WithdrawnStaysWithdrawn'
    <3>1. \A e \in lost : grants'[e] = grants[e]
        BY <1>4, <2>4 DEF DelegationInv, DelegationShape
    <3> QED
        BY <1>3, <3>1 DEF DelegationInv, LostIsWithdrawn, Withdrawn, WithdrawnStaysWithdrawn
  <2>7. HandedOver'
    <3>1. \A e \in Grants : e # d /\ grants[e] # None => grants[e].revoked \/ e \in orphaned
        BY <1>1, <1>2, DelegationAssumption DEF DelegationInv, HandedOver, DelegationAssumption
    <3>2. CASE outcome = "issued"
        BY <1>1, <1>3, <2>1, <2>2, <2>3, <2>4, <3>1, <3>2 DEF HandedOver
    <3>3. CASE outcome = "lost"
        BY <1>3, <2>1, <2>4, <3>1, <3>3 DEF HandedOver
    <3> QED
        BY <2>1, <3>2, <3>3
  <2> QED
      BY <2>5, <2>6, <2>7 DEF DelegationInv
<1>6. CASE outcome = "refused"
  <2>1. command' = None /\ tokenFile' = None /\ UNCHANGED <<grants, orphaned>>
      BY <1>6 DEF IssueTaskCredential
  <2>2. DelegationShape'
      BY <1>3, <2>1 DEF DelegationInv, DelegationShape, DelegationTypeOK
  <2>3. LostIsWithdrawn' /\ WithdrawnStaysWithdrawn'
      BY <1>3, <2>1 DEF DelegationInv, LostIsWithdrawn, Withdrawn, WithdrawnStaysWithdrawn
  <2>4. HandedOver'
      BY <1>1, <1>2, <1>3, <2>1, DelegationAssumption DEF DelegationInv, HandedOver, DelegationAssumption
  <2> QED
      BY <2>2, <2>3, <2>4 DEF DelegationInv
<1> QED
    BY <1>5, <1>6

\* The command ends where it stands.
LEMMA KilledKeepsInv ==
    ASSUME DelegationInv, CommandKilled
    PROVE  DelegationInv'
<1>1. PICK x \in Command : x = command /\ command # None
    BY DEF CommandKilled, DelegationInv, DelegationShape, DelegationTypeOK
<1>2. PICK d \in Grants : d = x.grant
    BY DEF Command
<1>3. /\ command' = None /\ UNCHANGED <<credential, role, task, grants, session, tokenFile, clock, lost>>
      /\ orphaned' = IF x.at = "write" THEN orphaned \cup {d} ELSE orphaned
    BY <1>1, <1>2 DEF CommandKilled
<1>4. x.at # "write" => grants[d] = None
    BY <1>1, <1>2 DEF Command, DelegationInv, HandedOver
<1>5. DelegationShape'
    BY <1>3 DEF DelegationInv, DelegationShape, DelegationTypeOK
<1>6. LostIsWithdrawn' /\ WithdrawnStaysWithdrawn'
    BY <1>3 DEF DelegationInv, LostIsWithdrawn, Withdrawn, WithdrawnStaysWithdrawn
<1>7. HandedOver'
    BY <1>1, <1>2, <1>3, <1>4 DEF DelegationInv, HandedOver
<1> QED
    BY <1>5, <1>6, <1>7 DEF DelegationInv

\* The token is written, or writing it fails and the grant is revoked, or
\* that fails as well.
LEMMA WriteKeepsInv ==
    ASSUME DelegationInv, WriteToken
    PROVE  DelegationInv'
<1>1. PICK x \in Command : x = command /\ x.at = "write" /\ command # None
    BY DEF WriteToken, DelegationInv, DelegationShape, DelegationTypeOK
<1>2. PICK d \in Grants : d = x.grant
    BY DEF Command
<1>3. /\ tokenFile' = d /\ command' = None /\ tokenFile = "empty"
      /\ UNCHANGED <<credential, role, task, grants, session, clock, lost, orphaned>>
    BY <1>1, <1>2 DEF WriteToken, DelegationInv, HandedOver
<1>4. DelegationShape'
    BY <1>3 DEF DelegationInv, DelegationShape, DelegationTypeOK
<1>5. LostIsWithdrawn' /\ WithdrawnStaysWithdrawn'
    BY <1>3 DEF DelegationInv, LostIsWithdrawn, Withdrawn, WithdrawnStaysWithdrawn
<1>6. HandedOver'
    BY <1>1, <1>2, <1>3, DelegationAssumption DEF DelegationInv, HandedOver, DelegationAssumption
<1> QED
    BY <1>4, <1>5, <1>6 DEF DelegationInv

\* A grant after its revocation.
LEMMA RevokedRow ==
    ASSUME DelegationInv, NEW d \in Grants, grants[d] # None, RevokeTaskDelegation(d)
    PROVE  /\ grants' \in [Grants -> {None} \cup GrantRow]
           /\ grants'[d] \in GrantRow /\ grants'[d] # None /\ grants'[d].revoked
           /\ grants'[d].parent = grants[d].parent /\ grants'[d].expires = grants[d].expires
           /\ \A e \in Grants : e # d => grants'[e] = grants[e]
<1> DEFINE g == [grants[d] EXCEPT !.revoked = TRUE]
<1>1. grants \in [Grants -> {None} \cup GrantRow] /\ grants[d] \in GrantRow
    BY DEF DelegationInv, DelegationShape, DelegationTypeOK
<1>2. g \in GrantRow /\ g.revoked /\ g.parent = grants[d].parent /\ g.expires = grants[d].expires
    BY <1>1 DEF GrantRow
<1>3. grants' = [grants EXCEPT ![d] = g]
    BY DEF RevokeTaskDelegation
<1> HIDE DEF g
<1>4. g # None
    BY <1>2, GrantRowAssumption DEF GrantRowAssumption
<1> QED
    BY <1>1, <1>2, <1>3, <1>4

LEMMA RevokeFades ==
    ASSUME DelegationInv, NEW d \in Grants, grants[d] # None, RevokeTaskDelegation(d),
           UNCHANGED <<credential, task, clock>>
    PROVE  /\ Fades
           /\ \A e \in Grants : grants'[e] # None /\ TokenExpiry[grants'[e].parent] # None =>
                 grants'[e].expires <= TokenExpiry[grants'[e].parent]
<1>1. /\ grants'[d] \in GrantRow /\ grants'[d] # None /\ grants'[d].revoked
      /\ grants'[d].parent = grants[d].parent /\ grants'[d].expires = grants[d].expires
      /\ \A e \in Grants : e # d => grants'[e] = grants[e]
    BY RevokedRow
<1>2. /\ \A e \in Grants : grants[e] # None => grants[e] \in GrantRow
      /\ clock <= clock /\ clock \in 0 .. MaxTime
      /\ \A e \in Grants : grants[e] # None /\ TokenExpiry[grants[e].parent] # None =>
            grants[e].expires <= TokenExpiry[grants[e].parent]
    BY DelegationAssumption DEF DelegationInv, DelegationShape, DelegationTypeOK, DelegationAssumption
<1> QED
    BY <1>1, <1>2 DEF Fades

LEMMA WriteFailsKeepsInv ==
    ASSUME DelegationInv, NEW revoked \in BOOLEAN, WriteTokenFails(revoked)
    PROVE  DelegationInv'
<1>1. PICK x \in Command : x = command /\ x.at = "write" /\ command # None
    BY DEF WriteTokenFails, DelegationInv, DelegationShape, DelegationTypeOK
<1>2. PICK d \in Grants : d = x.grant
    BY DEF Command
<1>3. /\ tokenFile = "empty" /\ tokenFile' = None /\ UNCHANGED <<credential, role, task, session, clock>> /\ Remember
    BY <1>1 DEF WriteTokenFails, DelegationInv, HandedOver
<1>4. CASE revoked /\ grants[d] # None
  <2>1. RevokeTaskDelegation(d) /\ command' = None /\ UNCHANGED orphaned
      BY <1>1, <1>2, <1>4 DEF WriteTokenFails, Undo
  <2>2. /\ Fades
        /\ \A e \in Grants : grants'[e] # None /\ TokenExpiry[grants'[e].parent] # None =>
              grants'[e].expires <= TokenExpiry[grants'[e].parent]
      BY <1>3, <1>4, <2>1, RevokeFades
  <2>3. LostIsWithdrawn' /\ WithdrawnStaysWithdrawn' /\ lost' \subseteq Grants
      BY <1>3, <2>2, FadesKeepsLost
  <2>4. /\ grants' \in [Grants -> {None} \cup GrantRow] /\ grants'[d].revoked
        /\ \A e \in Grants : e # d => grants'[e] = grants[e]
      BY <1>4, <2>1, RevokedRow
  <2>5. DelegationShape'
      BY <1>3, <2>1, <2>2, <2>3, <2>4 DEF DelegationInv, DelegationShape, DelegationTypeOK
  <2>6. HandedOver'
      BY <1>1, <1>2, <1>3, <2>1, <2>4, DelegationAssumption DEF DelegationInv, HandedOver, DelegationAssumption
  <2> QED
      BY <2>3, <2>5, <2>6 DEF DelegationInv
<1>5. CASE ~revoked
  <2>1. UNCHANGED grants /\ command' = None /\ orphaned' = orphaned \cup {d}
      BY <1>1, <1>2, <1>5 DEF WriteTokenFails, Undo
  <2>2. Fades
      BY <1>3, <2>1, DelegationAssumption
      DEF Fades, DelegationInv, DelegationShape, DelegationTypeOK, DelegationAssumption
  <2>3. LostIsWithdrawn' /\ WithdrawnStaysWithdrawn' /\ lost' \subseteq Grants
      BY <1>3, <2>2, FadesKeepsLost
  <2>4. DelegationShape'
      BY <1>3, <2>1, <2>3 DEF DelegationInv, DelegationShape, DelegationTypeOK
  <2>5. HandedOver'
      BY <1>1, <1>2, <1>3, <2>1, DelegationAssumption DEF DelegationInv, HandedOver, DelegationAssumption
  <2> QED
      BY <2>3, <2>4, <2>5 DEF DelegationInv
<1>6. grants[d] # None
    BY <1>1, <1>2 DEF DelegationInv, HandedOver
<1> QED
    BY <1>4, <1>5, <1>6

LEMMA RevokeKeepsInv ==
    ASSUME DelegationInv, NEW d \in Grants, RevokeTaskCredential(d)
    PROVE  DelegationInv'
<1>1. /\ grants[d] # None /\ RevokeTaskDelegation(d) /\ Remember
      /\ UNCHANGED <<credential, role, task, session, command, tokenFile, clock, orphaned>>
    BY DEF RevokeTaskCredential
<1>2. /\ Fades
      /\ \A e \in Grants : grants'[e] # None /\ TokenExpiry[grants'[e].parent] # None =>
            grants'[e].expires <= TokenExpiry[grants'[e].parent]
    BY <1>1, RevokeFades
<1>3. LostIsWithdrawn' /\ WithdrawnStaysWithdrawn' /\ lost' \subseteq Grants
    BY <1>1, <1>2, FadesKeepsLost
<1>4. /\ grants' \in [Grants -> {None} \cup GrantRow] /\ grants'[d] # None /\ grants'[d].revoked
      /\ \A e \in Grants : e # d => grants'[e] = grants[e]
    BY <1>1, RevokedRow
<1>5. DelegationShape'
    BY <1>1, <1>2, <1>3, <1>4 DEF DelegationInv, DelegationShape, DelegationTypeOK
<1>6. HandedOver'
  <2>1. command # None => command.grant \in Grants
      BY DEF DelegationInv, DelegationShape, DelegationTypeOK, Command
  <2> QED
      BY <1>1, <1>4, <2>1 DEF DelegationInv, HandedOver
<1> QED
    BY <1>3, <1>5, <1>6 DEF DelegationInv

-----------------------------------------------------------------------------
(* The calls of a delegate *)

\* A step of one session, which is not admitted when it came too late.
LEMMA SessionKeepsInv ==
    ASSUME DelegationInv, NEW d \in Grants,
           NEW at \in {"none", "open", "arrived", "admitted", "denied"}, NEW late \in BOOLEAN,
           late => d \in lost, at = "admitted" => ~late,
           session' = [session EXCEPT ![d] = [at |-> at, late |-> late]],
           UNCHANGED <<credential, role, task, grants, command, tokenFile, clock, lost, orphaned>>
    PROVE  DelegationInv'
<1> DEFINE s == [at |-> at, late |-> late]
           Sessions == [at : {"none", "open", "arrived", "admitted", "denied"}, late : BOOLEAN]
<1>1. s \in Sessions /\ s.at = at /\ s.late = late
    OBVIOUS
<1>2. session \in [Grants -> Sessions] /\ session' = [session EXCEPT ![d] = s]
    BY DEF DelegationInv, DelegationShape
<1> HIDE DEF s, Sessions
<1>3. session' \in [Grants -> Sessions] /\ \A e \in Grants : session'[e] = IF e = d THEN s ELSE session[e]
    BY ONLY <1>1, <1>2, d \in Grants
<1>4. DelegationShape'
    BY <1>3 DEF DelegationInv, DelegationShape, DelegationTypeOK, Sessions
<1>5. LostIsWithdrawn'
  <2>1. \A e \in Grants : session'[e].late => e \in lost
    <3>1. \A e \in Grants : session[e].late => e \in lost
        BY DEF DelegationInv, LostIsWithdrawn
    <3>2. s.late => d \in lost
        BY <1>1, Zenon
    <3> QED
        BY ONLY <1>3, <3>1, <3>2
  <2> QED
      BY <2>1 DEF DelegationInv, LostIsWithdrawn, Withdrawn
<1>6. WithdrawnStaysWithdrawn'
  <2>1. s.at = "admitted" => ~s.late
      BY <1>1, Zenon
  <2>2. \A e \in Grants : session[e].at = "admitted" => ~session[e].late
      BY DEF DelegationInv, WithdrawnStaysWithdrawn
  <2> QED
      BY ONLY <1>3, <2>1, <2>2 DEF WithdrawnStaysWithdrawn
<1>7. HandedOver'
    BY DEF DelegationInv, HandedOver
<1> QED
    BY <1>4, <1>5, <1>6, <1>7 DEF DelegationInv

\* A grant that history calls lost does not authenticate.
LEMMA LostIsRefused ==
    ASSUME DelegationInv, NEW d \in lost
    PROVE  ~Authenticates(d)
<1>1. Withdrawn(d) /\ d \in Grants
    BY DEF DelegationInv, LostIsWithdrawn, DelegationShape
<1>2. grants[d] \in GrantRow /\ clock \in Nat
    BY <1>1, DelegationAssumption
    DEF Withdrawn, DelegationInv, DelegationShape, DelegationTypeOK, DelegationAssumption
<1>3. grants[d].expires \in Nat
    BY <1>2 DEF GrantRow
<1> QED
    BY <1>1, <1>2, <1>3 DEF Withdrawn, Authenticates, ParentLive

\* A session opens, a call arrives, is admitted or denied, and ends.
LEMMA CallsKeepInv ==
    ASSUME DelegationInv, NEW d \in Grants,
           \/ OpenSession(d) \/ CallTool(d) \/ EndCall(d)
           \/ \E in \in ToolInputs : BeginToolOperation(d, in)
    PROVE  DelegationInv'
<1>1. PICK at \in {"none", "open", "arrived", "admitted", "denied"}, late \in BOOLEAN :
         /\ session[d] = [at |-> at, late |-> late] /\ session[d].at = at /\ session[d].late = late
    BY DEF DelegationInv, DelegationShape
<1>2. late => d \in lost
    BY <1>1 DEF DelegationInv, LostIsWithdrawn
<1>3. UNCHANGED <<credential, role, task, grants, command, tokenFile, clock, lost, orphaned>>
    BY DEF OpenSession, CallTool, EndCall, BeginToolOperation
<1>4. CASE OpenSession(d)
  <2>1. session' = [session EXCEPT ![d] = [session[d] EXCEPT !.at = "open"]]
      BY <1>4 DEF OpenSession
  <2>2. [session[d] EXCEPT !.at = "open"] = [at |-> "open", late |-> late]
      BY <1>1
  <2> QED
      BY <1>2, <1>3, <2>1, <2>2, SessionKeepsInv
<1>5. CASE CallTool(d)
  <2> DEFINE b == d \in lost
  <2>1. b \in BOOLEAN /\ (b => d \in lost)
      OBVIOUS
  <2>2. session' = [session EXCEPT ![d] = [at |-> "arrived", late |-> b]]
      BY <1>5, Zenon DEF CallTool
  <2> HIDE DEF b
  <2> QED
      BY <1>3, <2>1, <2>2, SessionKeepsInv
<1>6. CASE EndCall(d)
  <2>1. session' = [session EXCEPT ![d] = [at |-> "open", late |-> FALSE]]
      BY <1>6 DEF EndCall
  <2> QED
      BY <1>3, <2>1, SessionKeepsInv
<1>7. ASSUME NEW in \in ToolInputs, BeginToolOperation(d, in) PROVE DelegationInv'
  <2>1. PICK to \in {"admitted", "denied"} :
           /\ to = IF Recheck(d) /\ checkDelegatedTool(in) THEN "admitted" ELSE "denied"
           /\ session' = [session EXCEPT ![d].at = to]
      BY <1>7 DEF BeginToolOperation
  <2>2. session' = [session EXCEPT ![d] = [session[d] EXCEPT !.at = to]]
      BY <2>1
  <2>3. [session[d] EXCEPT !.at = to] = [at |-> to, late |-> late]
      BY <1>1
  <2>4. to = "admitted" => ~late
      BY <1>2, <2>1, LostIsRefused DEF Recheck
  <2> QED
      BY <1>2, <1>3, <2>2, <2>3, <2>4, SessionKeepsInv
<1> QED
    BY <1>4, <1>5, <1>6, <1>7

LEMMA DelegationStepInv == DelegationInv /\ [DelegationNext]_delegationVars => DelegationInv'
<1> SUFFICES ASSUME DelegationInv, [DelegationNext]_delegationVars PROVE DelegationInv'
    OBVIOUS
<1>1. CASE UNCHANGED delegationVars
    BY <1>1
    DEF delegationVars, DelegationInv, DelegationShape, DelegationTypeOK, LostIsWithdrawn, Withdrawn, HandedOver,
        WithdrawnStaysWithdrawn
<1>2. CASE DelegationNext
    BY <1>2, BootstrapKeepsInv, StartCommandKeepsInv, IssueKeepsInv, WriteKeepsInv, WriteFailsKeepsInv, KilledKeepsInv,
       RevokeKeepsInv, CallsKeepInv, TaskAndClockKeepInv
    DEF DelegationNext
<1> QED
    BY <1>1, <1>2

\* A call that arrives after its authority ended for good is never admitted
\* (RecheckTaskDelegation): not through an open session, and not after a
\* restart that configures an old token again (BootstrapPrincipals).
THEOREM WithdrawnStays == DelegationSpec => []WithdrawnStaysWithdrawn
<1>1. DelegationInv => WithdrawnStaysWithdrawn
    BY DEF DelegationInv
<1> QED
    BY <1>1, DelegationInitInv, DelegationStepInv, PTL DEF DelegationSpec

\* A credential that still authenticates was handed over, its command is still
\* running, or one of the three faults hit that the command cannot undo: a
\* commit whose answer was lost, a kill, a revocation that failed (taskCredential
\* of the admin command, IssueTaskDelegation).
THEOREM NoOrphan == DelegationSpec => []NoOrphanAuthority
<1>1. DelegationInv => NoOrphanAuthority
    BY DEF DelegationInv, HandedOver, NoOrphanAuthority, Authenticates
<1> QED
    BY <1>1, DelegationInitInv, DelegationStepInv, PTL DEF DelegationSpec

\* The rows keep their types, and no grant outlives the credential it is
\* derived from (IssueTaskDelegation).
THEOREM DelegationTypes == DelegationSpec => []DelegationTypeOK
<1>1. DelegationInv => DelegationTypeOK
    BY DEF DelegationInv, DelegationShape
<1> QED
    BY <1>1, DelegationInitInv, DelegationStepInv, PTL DEF DelegationSpec

-----------------------------------------------------------------------------
(* The governed records together *)

Parts == {"knowledge", "workflow", "tasks", "delegation", "product", "semantic", "source"}

recordsVars == <<part, governanceVars, workflowVars, taskVars, delegationVars, productVars, semanticVars, sourceVars>>

\* A behaviour of the records is a behaviour of each component: what one of
\* them does is no step of another.  So everything that is proved of a
\* component holds of the records together, the rows of the gateway's database.
THEOREM RecordsImplementComponents ==
    Spec => /\ GovernanceSpec /\ WorkflowSpec /\ TaskSpec /\ DelegationSpec
            /\ ProductSpec /\ SemanticSpec /\ SourceSpec
<1>1. Init => /\ GovernanceInit /\ WorkflowInit /\ TaskInit /\ DelegationInit
              /\ ProductInit /\ SemanticInit /\ SourceInit
    BY DEF Init
<1>2. [Next]_recordsVars =>
         /\ [GovernanceNext]_governanceVars /\ [WorkflowNext]_workflowVars /\ [TaskNext]_taskVars
         /\ [DelegationNext]_delegationVars /\ [ProductNext]_productVars
         /\ [SemanticNext]_semanticVars /\ [SourceNext]_sourceVars
    BY DEF Next, recordsVars
<1> QED
    BY <1>1, <1>2, PTL
    DEF Spec, recordsVars, GovernanceSpec, WorkflowSpec, TaskSpec, DelegationSpec, ProductSpec, SemanticSpec,
        SourceSpec

\* Whichever component is at work, its rows and requests keep the shape the
\* code maintains, for any number of items, runs, tasks, clients and sources.
THEOREM RecordsTypes == Spec => []RecordsTypeOK
<1>1. Init => part \in Parts
    BY DEF Init, Parts
<1>2. part \in Parts /\ [Next]_recordsVars => (part \in Parts)'
    BY DEF Next, recordsVars
<1>3. /\ part \in Parts /\ GovernanceTypeOK /\ WorkflowTypeOK /\ TaskTypeOK /\ DelegationTypeOK
      /\ ProductTypeOK /\ SemanticTypeOK /\ SourceTypeOK
      => RecordsTypeOK
    BY DEF Parts, RecordsTypeOK
<1>4. Spec => [](part \in Parts)
    BY <1>1, <1>2, PTL DEF Spec, recordsVars
<1> QED
    BY <1>3, <1>4, RecordsImplementComponents, GovernanceTypes, WorkflowTypes, TaskTypes, DelegationTypes,
       ProductTypes, SemanticTypes, SourceTypes, PTL
=============================================================================

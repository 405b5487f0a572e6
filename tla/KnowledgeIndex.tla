--------------------------- MODULE KnowledgeIndex ---------------------------
(***************************************************************************)
(* The outbox of index jobs and the projection of approved knowledge into  *)
(* the vector store: claims with five-minute locks, attempts and backoff   *)
(* (internal/postgres/repository.go), the worker that embeds, writes,      *)
(* reads back and records a projection, and its refresh of sources         *)
(* (internal/worker/worker.go, internal/postgres/quality.go), and the      *)
(* operator's retry of a failed job (internal/postgres/operations.go).     *)
(*                                                                         *)
(* Every statement or transaction is one action; a worker holds what it    *)
(* read between two of them.  Milvus is external: a keyed store that a     *)
(* strong read returns the last write of.  Content and version of an       *)
(* approved item cannot change (knowledge_retrieval_fields_guard), so the  *)
(* sources its current approval was validated against stand for it.        *)
(***************************************************************************)
EXTENDS Naturals, Sequences, FiniteSets

CONSTANTS
    Items,              \* knowledge items
    Workers,            \* replicas of the index worker
    Sources,            \* digests of source manifests
    VerificationIDs,    \* fresh identifiers of projection manifests
    None,
    BatchSize,          \* jobs one ClaimOutbox takes
    MaxAttempts,        \* 10 in the code
    MaxEvents,          \* bound: jobs ever enqueued
    MaxFaults,          \* bound: crashes and locks that outlast a slow batch
    MaxErrors,          \* bound: failures of Ollama, Milvus, AGE or a trace write
    MaxChanges          \* bound: source checks and validations that expire

ASSUME IndexAssumption ==
    /\ IsFiniteSet(Items)
    /\ BatchSize \in Nat \ {0} /\ MaxAttempts \in Nat \ {0}
    /\ MaxEvents \in Nat /\ MaxFaults \in Nat /\ MaxErrors \in Nat /\ MaxChanges \in Nat
    /\ None \notin Items \cup Sources \cup [source : Sources, id : VerificationIDs]

VARIABLES
    item,       \* approval of each item: sources, the job it enqueued, quality
    event,      \* outbox_events in order of id
    worker,     \* what each worker holds between two statements
    vector,     \* the manifest Milvus stores with each item's embedding
    check,      \* the manifest of knowledge_projection_checks
    env         \* how many faults, errors and changes have happened

vars == <<item, event, worker, vector, check, env>>

-----------------------------------------------------------------------------
Events == 1 .. Len(event)
Manifests == [source : Sources, id : VerificationIDs]

\* batch holds the claimed jobs that are not finished, spent those of them that
\* were claimed once too often, job the one at hand; a refresh has none.
Idle == [pc |-> "idle", batch |-> {}, spent |-> {}, job |-> 0, item |-> None,
         approval |-> 0, manifest |-> None]

NewEvent(i) == [item |-> i, attempts |-> 0, lock |-> "free", due |-> TRUE,
                completed |-> FALSE, failed |-> FALSE, retried |-> FALSE]

\* Mutant: every stored item is eligible.
Eligible_AnyItem(i) == item[i].approval \in Nat

\* knowledge_eligible: approved, validation in force, sources verified.
Eligible(i) == item[i].approval # 0 /\ item[i].valid /\ item[i].verified

InUse == {vector[i] : i \in Items} \cup {check[i] : i \in Items} \cup {worker[w].manifest : w \in Workers}
FreshIDs == {v \in VerificationIDs : \A s \in Sources : [source |-> s, id |-> v] \notin InUse}

\* NewID: a random identifier, so one that nobody holds; which does not matter.
NewID == {v \in FreshIDs : v = CHOOSE u \in FreshIDs : TRUE}

Becomes(w, record) == worker' = [worker EXCEPT ![w] = record]
Fault == env.faults < MaxFaults /\ env' = [env EXCEPT !.faults = @ + 1]
Error == env.errors < MaxErrors /\ env' = [env EXCEPT !.errors = @ + 1]
Change == env.changes < MaxChanges /\ env' = [env EXCEPT !.changes = @ + 1]

Init ==
    /\ item = [i \in Items |-> [approval |-> 0, source |-> None, valid |-> FALSE, verified |-> FALSE]]
    /\ event = << >>
    /\ worker = [w \in Workers |-> Idle]
    /\ vector = [i \in Items |-> None]
    /\ check = [i \in Items |-> None]
    /\ env = [faults |-> 0, errors |-> 0, changes |-> 0]

-----------------------------------------------------------------------------
(* Producers of jobs.  An approval and its job commit together             *)
(* (DecideKnowledge); an approved item may be approved again on a newer    *)
(* validation, whose sources may be others.                                *)

Enqueue(i) == Len(event) < MaxEvents /\ event' = Append(event, NewEvent(i))

Approve(i, s) ==
    /\ Enqueue(i)
    /\ item' = [item EXCEPT ![i] = [approval |-> Len(event) + 1, source |-> s,
                                    valid |-> TRUE, verified |-> TRUE]]
    /\ UNCHANGED <<worker, vector, check, env>>

\* One more job for every eligible item.
RequeueApprovedKnowledge ==
    LET ready == {i \in Items : Eligible(i)}
        n == Cardinality(ready)
    IN  /\ ready # {} /\ Len(event) + n <= MaxEvents
        /\ \E order \in [1 .. n -> ready] :
              /\ {order[k] : k \in 1 .. n} = ready
              /\ event' = event \o [k \in 1 .. n |-> NewEvent(order[k])]
        /\ UNCHANGED <<item, worker, vector, check, env>>

\* RetryKnowledgeIndex: one replacement for a failed job, whatever the key.
RetryKnowledgeIndex(e) ==
    /\ event[e].failed /\ ~event[e].retried
    /\ Eligible(event[e].item)
    /\ Len(event) < MaxEvents
    /\ event' = Append([event EXCEPT ![e].retried = TRUE], NewEvent(event[e].item))
    /\ UNCHANGED <<item, worker, vector, check, env>>

-----------------------------------------------------------------------------
(* ClaimOutbox *)

\* Mutant: a lock is never reclaimed.
Claimable_LocksForever(e) ==
    /\ ~event[e].completed /\ ~event[e].failed /\ event[e].due
    /\ event[e].lock = "free"

Claimable(e) ==
    /\ ~event[e].completed /\ ~event[e].failed /\ event[e].due
    /\ event[e].lock # "held"

\* The oldest claimable jobs, at most a batch of them; UPDATE ... RETURNING
\* gives them back in no particular order.
Batch == {e \in Events : Claimable(e) /\ Cardinality({d \in 1 .. e : Claimable(d)}) <= BatchSize}

ClaimOutbox(w) ==
    /\ worker[w].pc = "idle" /\ Batch # {}
    /\ event' = [e \in Events |-> IF e \in Batch THEN [event[e] EXCEPT !.lock = "held", !.attempts = @ + 1]
                                  ELSE event[e]]
    /\ Becomes(w, [Idle EXCEPT !.pc = "working", !.batch = Batch,
                               !.spent = {e \in Batch : event[e].attempts >= MaxAttempts}])
    /\ UNCHANGED <<item, vector, check, env>>

-----------------------------------------------------------------------------
(* Finishing a job.  Neither statement asks whose claim it is.             *)

NextJob(w, e) ==
    LET rest == worker[w].batch \ {e}
    IN  IF rest = {} THEN Idle
        ELSE [Idle EXCEPT !.pc = "working", !.batch = rest, !.spent = worker[w].spent \ {e}]

FailOutbox(w, e) ==
    /\ event' = [event EXCEPT ![e] = [event[e] EXCEPT !.lock = "free", !.due = FALSE,
                                                      !.failed = event[e].attempts >= MaxAttempts]]
    /\ Becomes(w, NextJob(w, e))

\* Mutant: the job is completed before its projection has been recorded.
Ready_Unchecked(w) == worker[w].pc \in {"recording", "recorded"}

Ready(w) == worker[w].pc = "recorded"

\* The graph projection succeeded too; the job is done.
CompleteOutbox(w) ==
    /\ Ready(w) /\ worker[w].job # 0
    /\ event' = [event EXCEPT ![worker[w].job] = [@ EXCEPT !.completed = TRUE, !.lock = "free"]]
    /\ Becomes(w, NextJob(w, worker[w].job))
    /\ UNCHANGED <<item, vector, check, env>>

\* Ollama, Milvus, AGE or the trace fails: the job is tried again later.
JobFails(w) ==
    /\ Error
    /\ \E e \in worker[w].batch : (worker[w].pc # "working" => e = worker[w].job) /\ FailOutbox(w, e)
    /\ UNCHANGED <<item, vector, check>>

\* A job claimed once too often is not tried again; what counts is the number
\* of attempts this claim returned.
RetryLimitExceeded(w) ==
    /\ worker[w].pc = "working"
    /\ \E e \in worker[w].batch : e \in worker[w].spent /\ FailOutbox(w, e)
    /\ UNCHANGED <<item, vector, check, env>>

\* One of the code's own checks fails; a refresh is only logged.
Refused(w) ==
    /\ IF worker[w].job = 0 THEN Becomes(w, Idle) /\ UNCHANGED event
       ELSE FailOutbox(w, worker[w].job)
    /\ UNCHANGED <<item, vector, check, env>>

-----------------------------------------------------------------------------
(* processEffect of knowledge.upsert *)

\* The item has to be eligible to be read.
GetKnowledge(w) ==
    /\ worker[w].pc = "working"
    /\ \E e \in worker[w].batch :
          /\ e \notin worker[w].spent
          /\ IF Eligible(event[e].item)
             THEN /\ Becomes(w, [worker[w] EXCEPT !.pc = "embedding", !.job = e, !.item = event[e].item])
                  /\ UNCHANGED event
             ELSE FailOutbox(w, e)
    /\ UNCHANGED <<item, vector, check, env>>

\* BuildKnowledgeProjection: the manifest names the sources of the current
\* approval and a verification of its own.
BuildKnowledgeProjection(w) ==
    /\ worker[w].pc = "embedding"
    /\ LET i == worker[w].item
       IN  IF Eligible(i)
           THEN /\ \E v \in NewID :
                      Becomes(w, [worker[w] EXCEPT !.pc = "built",
                                                   !.manifest = [source |-> item[i].source, id |-> v]])
                /\ UNCHANGED <<item, event, vector, check, env>>
           ELSE Refused(w)

Upsert(w) ==
    /\ worker[w].pc = "built"
    /\ vector' = [vector EXCEPT ![worker[w].item] = worker[w].manifest]
    /\ Becomes(w, [worker[w] EXCEPT !.pc = "verifying"])
    /\ UNCHANGED <<item, event, check, env>>

\* VerifyKnowledgeProjection: the strong read returns this very manifest.
VerifyKnowledgeProjection(w) ==
    /\ worker[w].pc = "verifying"
    /\ IF vector[worker[w].item] = worker[w].manifest
       THEN /\ Becomes(w, [worker[w] EXCEPT !.pc = "recording"])
            /\ UNCHANGED <<item, event, vector, check, env>>
       ELSE Refused(w)

\* Mutant: the sources of the manifest are not compared with the approval's.
Recordable_AnySource(w) == Eligible(worker[w].item)

Recordable(w) ==
    /\ Eligible(worker[w].item)
    /\ item[worker[w].item].source = worker[w].manifest.source

RecordProjectionCheck(w) ==
    /\ worker[w].pc = "recording"
    /\ IF Recordable(w)
       THEN /\ check' = [check EXCEPT ![worker[w].item] = worker[w].manifest]
            /\ Becomes(w, IF worker[w].job = 0 THEN Idle
                          ELSE [worker[w] EXCEPT !.pc = "recorded"])
            /\ UNCHANGED <<item, event, vector, env>>
       ELSE Refused(w)

-----------------------------------------------------------------------------
(* The refresh that precedes a claim in ProcessOnce *)

\* RefreshKnowledgeSources reads which validation is in force, then the sources.
BeginRefresh(w, i) ==
    /\ worker[w].pc = "idle" /\ item[i].approval # 0
    /\ Change
    /\ Becomes(w, [Idle EXCEPT !.pc = "checking", !.item = i, !.approval = item[i].approval])
    /\ UNCHANGED <<item, event, vector, check>>

\* RecordSourceCheck: a receipt for another validation is a conflict.
RecordSourceCheck(w, verified) ==
    /\ worker[w].pc = "checking"
    /\ LET i == worker[w].item
       IN  IF item[i].approval = worker[w].approval
           THEN /\ item' = [item EXCEPT ![i].verified = verified]
                /\ Becomes(w, IF verified THEN [worker[w] EXCEPT !.pc = "checked"] ELSE Idle)
                /\ UNCHANGED <<event, vector, check, env>>
           ELSE Refused(w)

\* GetKnowledge again, of the item this time and not of a job.
GetRefreshed(w) ==
    /\ worker[w].pc = "checked"
    /\ IF Eligible(worker[w].item)
       THEN /\ Becomes(w, [worker[w] EXCEPT !.pc = "rereading"])
            /\ UNCHANGED <<item, event, vector, check, env>>
       ELSE Refused(w)

\* The manifest recorded last is the one to find again.
KnowledgeProjection(w) ==
    /\ worker[w].pc = "rereading"
    /\ LET i == worker[w].item
       IN  IF check[i] # None
           THEN /\ Becomes(w, [worker[w] EXCEPT !.pc = "verifying", !.manifest = check[i]])
                /\ UNCHANGED <<item, event, vector, check, env>>
           ELSE Refused(w)

-----------------------------------------------------------------------------
(* Time and faults *)

Holding(e) == \E w \in Workers : e \in worker[w].batch

LockExpires(e) ==
    /\ event[e].lock = "held"
    /\ event' = [event EXCEPT ![e].lock = "stale"]
    /\ IF Holding(e) THEN Fault ELSE UNCHANGED env
    /\ UNCHANGED <<item, worker, vector, check>>

BackoffEnds(e) ==
    /\ ~event[e].due
    /\ event' = [event EXCEPT ![e].due = TRUE]
    /\ UNCHANGED <<item, worker, vector, check, env>>

ValidationExpires(i) ==
    /\ item[i].valid
    /\ Change /\ item' = [item EXCEPT ![i].valid = FALSE]
    /\ UNCHANGED <<event, worker, vector, check>>

\* The process dies, or an outbox statement fails and ProcessOnce returns:
\* the rest of the batch stays locked.
Crash(w) ==
    /\ worker[w].pc # "idle"
    /\ Fault /\ Becomes(w, Idle)
    /\ UNCHANGED <<item, event, vector, check>>

-----------------------------------------------------------------------------
Process(w) ==
    \/ GetKnowledge(w) \/ BuildKnowledgeProjection(w) \/ Upsert(w)
    \/ VerifyKnowledgeProjection(w) \/ RecordProjectionCheck(w)
    \/ CompleteOutbox(w) \/ JobFails(w) \/ RetryLimitExceeded(w)
    \/ \E verified \in BOOLEAN : RecordSourceCheck(w, verified)
    \/ GetRefreshed(w) \/ KnowledgeProjection(w)

Next ==
    \/ \E i \in Items : (\E s \in Sources : Approve(i, s)) \/ ValidationExpires(i)
    \/ RequeueApprovedKnowledge
    \/ \E e \in Events : RetryKnowledgeIndex(e) \/ LockExpires(e) \/ BackoffEnds(e)
    \/ \E w \in Workers : ClaimOutbox(w) \/ Process(w) \/ Crash(w)
    \/ \E w \in Workers, i \in Items : BeginRefresh(w, i)

Spec == Init /\ [][Next]_vars

\* A worker polls on a ticker and works through what it claimed; a lock left
\* behind and a backoff run out.
FairSpec ==
    /\ Spec
    /\ \A w \in Workers : WF_vars(ClaimOutbox(w)) /\ WF_vars(Process(w))
    /\ \A e \in 1 .. MaxEvents :
          /\ WF_vars(e \in Events /\ LockExpires(e) /\ ~Holding(e))
          /\ WF_vars(e \in Events /\ BackoffEnds(e))

-----------------------------------------------------------------------------
(* Properties *)

ItemRecord == [approval : Nat, source : Sources \cup {None}, valid : BOOLEAN, verified : BOOLEAN]
EventRecord ==
    [item : Items, attempts : Nat, lock : {"free", "held", "stale"}, due : BOOLEAN,
     completed : BOOLEAN, failed : BOOLEAN, retried : BOOLEAN]
WorkerRecord ==
    [pc : {"idle", "working", "embedding", "built", "checking", "checked", "rereading", "verifying",
           "recording", "recorded"},
     batch : SUBSET Nat, spent : SUBSET Nat, job : Nat, item : Items \cup {None}, approval : Nat,
     manifest : Manifests \cup {None}]

\* Every row and every held value has the shape the code gives it.
TypeOK ==
    /\ item \in [Items -> ItemRecord]
    /\ event \in Seq(EventRecord)
    /\ worker \in [Workers -> WorkerRecord]
    /\ vector \in [Items -> Manifests \cup {None}]
    /\ check \in [Items -> Manifests \cup {None}]
    /\ env \in [faults : Nat, errors : Nat, changes : Nat]

\* The job an approval enqueued is completed only once a projection of the
\* sources of that approval has been read back and recorded, whoever completes
\* it and however late: no re-approval is lost to a worker that had started on
\* an earlier one (processEffect, RecordProjectionCheck).
CompletedApprovalIsProjected ==
    \A i \in Items : item[i].approval # 0 /\ event[item[i].approval].completed =>
        check[i] # None /\ check[i].source = item[i].source

\* Search accepts a hit only under the manifest recorded last
\* (vectorProjectionCurrent).
Searchable(i) == vector[i] # None /\ vector[i] = check[i] /\ check[i].source = item[i].source

Unfinished(i) == {e \in Events : event[e].item = i /\ (event[e].failed \/ ~event[e].completed)}

\* "The outbox worker completes knowledge.upsert before semantic search is
\* expected to return the improvement": when every job of an eligible item is
\* completed, search returns the item.
SearchableOnceDrained ==
    \A i \in Items : Eligible(i) /\ Unfinished(i) = {} /\ (\A w \in Workers : worker[w].pc = "idle") =>
        Searchable(i)

\* Every job is completed or, after its last attempt, failed for an operator to
\* see: crashes and abandoned locks lose none (ClaimOutbox, FailOutbox).
QueueDrains ==
    \A e \in 1 .. MaxEvents : (e \in Events) ~> (e \in Events /\ (event[e].completed \/ event[e].failed))

=============================================================================

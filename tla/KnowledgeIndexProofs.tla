------------------------ MODULE KnowledgeIndexProofs ------------------------
(***************************************************************************)
(* CompletedApprovalIsProjected, and the type invariant, for any items,    *)
(* workers and bounds; SearchableOnceDrained, for any items and bounds,    *)
(* with a single worker, from SingleInv; and that finished jobs rest,      *)
(* whoever reports on them.                                                *)
(***************************************************************************)
EXTENDS KnowledgeIndex, FiniteSetTheorems, SequenceTheorems, TLAPS

CoveredIn(i, it, ch) == ch[i] # None /\ ch[i].source = it[i].source

\* An approval names the job it enqueued, which is a job of the item.
ApprovalsHaveJobs ==
    \A i \in Items : item[i].approval # 0 =>
        /\ item[i].approval \in Events /\ event[item[i].approval].item = i
        /\ item[i].source \in Sources

\* What a worker holds: jobs that exist, the item of the job at hand, and a
\* manifest once there is one.
HeldIn(held, ev) ==
    /\ held.batch \subseteq 1 .. Len(ev)
    /\ held.job # 0 => held.job \in held.batch /\ held.item = ev[held.job].item
    /\ held.pc \notin {"idle", "working"} => held.item \in Items
    /\ held.pc \in {"idle", "working"} => held.job = 0
    /\ held.pc \in {"built", "verifying", "recording", "recorded"} => held.manifest \in Manifests

WorkHeld == \A w \in Workers : HeldIn(worker[w], event)

\* A worker that has recorded the projection of its job has covered the item,
\* unless the item was approved again since.
RecordedIn(held, it, ch) ==
    held.pc = "recorded" /\ held.job # 0 /\ held.job = it[held.item].approval =>
        CoveredIn(held.item, it, ch)

RecordedIsCovered == \A w \in Workers : RecordedIn(worker[w], item, check)

Inv == TypeOK /\ ApprovalsHaveJobs /\ WorkHeld /\ RecordedIsCovered /\ CompletedApprovalIsProjected

-----------------------------------------------------------------------------
(* What a step does to the jobs *)

\* The jobs that exist stay, each of its item.
JobsKept ==
    /\ event' \in Seq(EventRecord)
    /\ Len(event') >= Len(event)
    /\ \A e \in Events : event'[e].item = event[e].item

\* No job is newly completed.
NoneCompleted ==
    \A e \in 1 .. Len(event') : event'[e].completed => e \in Events /\ event[e].completed

\* A job that is not in the outbox yet is well typed.
LEMMA NewEventType == \A i \in Items : NewEvent(i) \in EventRecord
BY DEF NewEvent, EventRecord

\* Enqueueing keeps the jobs and completes none.
LEMMA AppendKeeps ==
    ASSUME TypeOK, NEW i \in Items, event' = Append(event, NewEvent(i))
    PROVE  JobsKept /\ NoneCompleted /\ Len(event') = Len(event) + 1
           /\ event'[Len(event) + 1] = NewEvent(i)
<1>1. event \in Seq(EventRecord) /\ NewEvent(i) \in EventRecord
  BY NewEventType DEF TypeOK
<1>2. NewEvent(i).completed = FALSE
  BY DEF NewEvent
<1> QED BY <1>1, <1>2 DEF JobsKept, NoneCompleted, Events

\* Writing one job's row keeps the jobs; it completes none but that one.
LEMMA RowKeeps ==
    ASSUME TypeOK, NEW e \in Events, NEW row \in EventRecord, row.item = event[e].item,
           event' = [event EXCEPT ![e] = row]
    PROVE  /\ JobsKept /\ Len(event') = Len(event)
           /\ event'[e] = row
           /\ \A d \in Events : d # e => event'[d] = event[d]
           /\ (row.completed => event[e].completed) => NoneCompleted
<1>1. event \in Seq(EventRecord) /\ e \in 1 .. Len(event)
  BY DEF TypeOK, Events
<1>2. event' \in Seq(EventRecord) /\ Len(event') = Len(event)
      /\ \A d \in 1 .. Len(event) : event'[d] = IF d = e THEN row ELSE event[d]
  <2> DEFINE new == [event EXCEPT ![e] = row]
  <2>1. new \in Seq(EventRecord) /\ Len(new) = Len(event)
        /\ \A d \in 1 .. Len(event) : new[d] = IF d = e THEN row ELSE event[d]
    BY <1>1, ExceptSeq
  <2> HIDE DEF new
  <2> QED BY <2>1 DEF new
<1>3. Len(event) \in Nat
  BY <1>1
<1> QED BY <1>1, <1>2, <1>3 DEF JobsKept, NoneCompleted, Events

\* FailOutbox keeps the jobs and completes none.
LEMMA FailKeeps ==
    ASSUME TypeOK, NEW w \in Workers, NEW e \in Events, FailOutbox(w, e)
    PROVE  JobsKept /\ NoneCompleted /\ Len(event') = Len(event)
<1> DEFINE over == event[e].attempts >= MaxAttempts
           row == [event[e] EXCEPT !.lock = "free", !.due = FALSE, !.failed = over]
<1>1. event[e] \in EventRecord
  BY DEF TypeOK, Events
<1>2. over \in BOOLEAN
  BY <1>1, IndexAssumption DEF EventRecord
<1>3. event' = [event EXCEPT ![e] = row]
  BY DEF FailOutbox
<1> HIDE DEF over
<1>4. row \in EventRecord /\ row.item = event[e].item /\ row.completed = event[e].completed
  BY <1>1, <1>2 DEF EventRecord
<1> HIDE DEF row
<1> QED BY <1>3, <1>4, RowKeeps

-----------------------------------------------------------------------------
(* Preservation in general *)

\* The approvals are the ones there were.
ItemsKept ==
    /\ item' \in [Items -> ItemRecord]
    /\ \A i \in Items : item'[i].approval = item[i].approval /\ item'[i].source = item[i].source

\* No item loses its cover.
CoverKept == \A i \in Items : CoveredIn(i, item, check) => CoveredIn(i, item', check')

\* What a worker holds stays good while jobs, approvals and covers are kept.
LEMMA HeldKept ==
    ASSUME Inv, JobsKept, ItemsKept, CoverKept
    PROVE  \A held \in WorkerRecord :
              HeldIn(held, event) /\ RecordedIn(held, item, check) =>
                  HeldIn(held, event') /\ RecordedIn(held, item', check')
<1>1. Len(event) \in Nat /\ Len(event') \in Nat
  BY DEF Inv, TypeOK, JobsKept
<1> SUFFICES ASSUME NEW held \in WorkerRecord, HeldIn(held, event), RecordedIn(held, item, check)
             PROVE  HeldIn(held, event') /\ RecordedIn(held, item', check')
  OBVIOUS
<1>2. HeldIn(held, event')
  BY <1>1 DEF HeldIn, JobsKept, Events
<1>3. RecordedIn(held, item', check')
  BY DEF HeldIn, RecordedIn, ItemsKept, CoverKept
<1> QED BY <1>2, <1>3

\* A step of one worker that completes no job.
LEMMA WorkerStepKeeps ==
    ASSUME Inv, TypeOK', JobsKept, NoneCompleted, ItemsKept, CoverKept,
           \A w \in Workers : worker'[w] # worker[w] =>
               HeldIn(worker'[w], event') /\ RecordedIn(worker'[w], item', check')
    PROVE  Inv'
<1>1. WorkHeld' /\ RecordedIsCovered'
  <2> SUFFICES ASSUME NEW w \in Workers
               PROVE  HeldIn(worker'[w], event') /\ RecordedIn(worker'[w], item', check')
    BY DEF WorkHeld, RecordedIsCovered
  <2>1. CASE worker'[w] # worker[w]
    BY <2>1
  <2>2. CASE worker'[w] = worker[w]
    <3>1. worker[w] \in WorkerRecord /\ HeldIn(worker[w], event) /\ RecordedIn(worker[w], item, check)
      BY DEF Inv, TypeOK, WorkHeld, RecordedIsCovered
    <3> QED BY <2>2, <3>1, HeldKept
  <2> QED BY <2>1, <2>2
<1>2. Len(event) \in Nat /\ Len(event') \in Nat
  BY DEF Inv, TypeOK, JobsKept
<1>3. ApprovalsHaveJobs'
  BY <1>2 DEF Inv, ApprovalsHaveJobs, JobsKept, ItemsKept, Events
<1>4. CompletedApprovalIsProjected'
  <2> SUFFICES ASSUME NEW i \in Items, item'[i].approval # 0, event'[item'[i].approval].completed
               PROVE  CoveredIn(i, item', check')
    BY DEF CompletedApprovalIsProjected, CoveredIn
  <2>1. item[i].approval # 0 /\ item'[i].approval = item[i].approval
    BY DEF ItemsKept
  <2>2. item'[i].approval \in 1 .. Len(event')
    BY <1>3, <2>1 DEF ApprovalsHaveJobs, Events
  <2>3. event[item[i].approval].completed
    BY <2>1, <2>2 DEF NoneCompleted
  <2>4. CoveredIn(i, item, check)
    BY <2>1, <2>3 DEF Inv, CompletedApprovalIsProjected, CoveredIn
  <2> QED BY <2>4 DEF CoverKept
<1> QED BY <1>1, <1>3, <1>4 DEF Inv

-----------------------------------------------------------------------------
(* The steps *)

\* The bounded counters stay natural numbers.
LEMMA EnvType ==
    ASSUME TypeOK, Fault \/ Error \/ Change \/ env' = env
    PROVE  env' \in [faults : Nat, errors : Nat, changes : Nat]
BY DEF TypeOK, Fault, Error, Change

\* A worker that holds nothing is well typed and holds nothing wrong.
LEMMA IdleHeld ==
    \A ev \in Seq(EventRecord) : \A it, ch :
        Idle \in WorkerRecord /\ HeldIn(Idle, ev) /\ RecordedIn(Idle, it, ch)
BY DEF Idle, WorkerRecord, HeldIn, RecordedIn

\* A worker between two jobs.
LEMMA NextJobHeld ==
    ASSUME Inv, JobsKept, NEW w \in Workers, NEW e
    PROVE  /\ NextJob(w, e) \in WorkerRecord
           /\ HeldIn(NextJob(w, e), event') /\ RecordedIn(NextJob(w, e), item', check')
<1>1. worker[w] \in WorkerRecord /\ worker[w].batch \subseteq 1 .. Len(event)
  BY DEF Inv, TypeOK, WorkHeld, HeldIn
<1>2. worker[w].batch \subseteq Nat /\ worker[w].batch \subseteq 1 .. Len(event')
  BY <1>1 DEF WorkerRecord, JobsKept, Inv, TypeOK
<1>3. CASE worker[w].batch \ {e} = {}
  BY <1>3, IdleHeld DEF NextJob, JobsKept
<1>4. CASE worker[w].batch \ {e} # {}
  <2> DEFINE rest == worker[w].batch \ {e}
             spent == worker[w].spent \ {e}
             held == [Idle EXCEPT !.pc = "working", !.batch = rest, !.spent = spent]
  <2>1. NextJob(w, e) = held
    BY <1>4 DEF NextJob
  <2>2. Idle \in WorkerRecord /\ Idle.job = 0
    BY IdleHeld DEF Idle, JobsKept
  <2>3. rest \in SUBSET Nat /\ spent \in SUBSET Nat /\ rest \subseteq 1 .. Len(event')
    BY <1>1, <1>2 DEF WorkerRecord
  <2> HIDE DEF rest, spent
  <2>4. held \in WorkerRecord /\ held.pc = "working" /\ held.batch = rest /\ held.job = 0
    BY <2>2, <2>3 DEF WorkerRecord
  <2> HIDE DEF held
  <2>5. HeldIn(held, event') /\ RecordedIn(held, item', check')
    BY <2>3, <2>4 DEF HeldIn, RecordedIn
  <2> QED BY <2>1, <2>4, <2>5
<1> QED BY <1>3, <1>4

\* A failed attempt.
LEMMA FailStep ==
    ASSUME Inv, NEW w \in Workers, NEW e \in Events, FailOutbox(w, e),
           UNCHANGED <<item, vector, check>>, Error \/ env' = env
    PROVE  Inv'
<1>1. JobsKept /\ NoneCompleted
  BY FailKeeps DEF Inv
<1>2. worker' = [worker EXCEPT ![w] = NextJob(w, e)]
  BY DEF FailOutbox, Becomes
<1>3. NextJob(w, e) \in WorkerRecord /\ HeldIn(NextJob(w, e), event') /\ RecordedIn(NextJob(w, e), item', check')
  BY <1>1, NextJobHeld
<1>4. worker \in [Workers -> WorkerRecord]
  BY DEF Inv, TypeOK
<1>5. worker' \in [Workers -> WorkerRecord]
      /\ \A v \in Workers : worker'[v] # worker[v] => worker'[v] = NextJob(w, e)
  BY <1>2, <1>3, <1>4
<1>6. TypeOK'
  BY <1>1, <1>5, EnvType DEF Inv, TypeOK, JobsKept
<1>7. ItemsKept /\ CoverKept
  BY DEF ItemsKept, CoverKept, CoveredIn, Inv, TypeOK
<1> QED BY <1>1, <1>3, <1>5, <1>6, <1>7, WorkerStepKeeps

\* A check of the worker's own that fails.
LEMMA RefusedStep ==
    ASSUME Inv, NEW w \in Workers, Refused(w)
    PROVE  Inv'
<1>1. CASE worker[w].job # 0
  <2>1. worker[w].job \in Events
    BY <1>1 DEF Inv, WorkHeld, HeldIn, Events
  <2> QED BY <1>1, <2>1, FailStep DEF Refused
<1>2. CASE worker[w].job = 0
  <2>1. worker' = [worker EXCEPT ![w] = Idle] /\ UNCHANGED <<item, event, vector, check, env>>
    BY <1>2 DEF Refused, Becomes
  <2>2. JobsKept /\ NoneCompleted /\ ItemsKept /\ CoverKept
    BY <2>1 DEF JobsKept, NoneCompleted, ItemsKept, CoverKept, CoveredIn, Inv, TypeOK, Events
  <2>3. Idle \in WorkerRecord /\ HeldIn(Idle, event') /\ RecordedIn(Idle, item', check')
    BY <2>2, IdleHeld DEF JobsKept
  <2>4. worker \in [Workers -> WorkerRecord]
    BY DEF Inv, TypeOK
  <2>5. worker' \in [Workers -> WorkerRecord] /\ \A v \in Workers : worker'[v] # worker[v] => worker'[v] = Idle
    BY <2>1, <2>3, <2>4
  <2>6. TypeOK'
    BY <2>1, <2>5 DEF Inv, TypeOK
  <2> QED BY <2>2, <2>3, <2>5, <2>6, WorkerStepKeeps
<1> QED BY <1>1, <1>2

\* A step in which one worker takes over a new record and no job changes.
LEMMA HoldStep ==
    ASSUME Inv, NEW w \in Workers, NEW held \in WorkerRecord,
           worker' = [worker EXCEPT ![w] = held], event' = event, ItemsKept, CoverKept,
           vector' \in [Items -> Manifests \cup {None}], check' \in [Items -> Manifests \cup {None}],
           env' \in [faults : Nat, errors : Nat, changes : Nat],
           HeldIn(held, event), RecordedIn(held, item', check')
    PROVE  Inv'
<1>1. JobsKept /\ NoneCompleted
  BY DEF JobsKept, NoneCompleted, Inv, TypeOK, Events
<1>2. worker \in [Workers -> WorkerRecord]
  BY DEF Inv, TypeOK
<1>3. worker' \in [Workers -> WorkerRecord] /\ \A v \in Workers : worker'[v] # worker[v] => worker'[v] = held
  BY <1>2
<1>4. TypeOK'
  BY <1>1, <1>3 DEF TypeOK, JobsKept, ItemsKept
<1> QED BY <1>1, <1>3, <1>4, WorkerStepKeeps

\* The steps of an index job, and of a refresh, that only move the worker on.
LEMMA HandleStep ==
    ASSUME Inv, NEW w \in Workers,
           GetKnowledge(w) \/ BuildKnowledgeProjection(w) \/ Upsert(w)
           \/ VerifyKnowledgeProjection(w) \/ GetRefreshed(w) \/ KnowledgeProjection(w)
    PROVE  Inv'
<1>0. worker[w] \in WorkerRecord /\ HeldIn(worker[w], event)
  BY DEF Inv, TypeOK, WorkHeld
<1>1. /\ item \in [Items -> ItemRecord] /\ vector \in [Items -> Manifests \cup {None}]
      /\ check \in [Items -> Manifests \cup {None}] /\ env \in [faults : Nat, errors : Nat, changes : Nat]
      /\ event \in Seq(EventRecord)
  BY DEF Inv, TypeOK
<1>2. CASE GetKnowledge(w)
  <2>1. PICK e \in worker[w].batch :
            IF Eligible(event[e].item)
            THEN /\ Becomes(w, [worker[w] EXCEPT !.pc = "embedding", !.job = e, !.item = event[e].item])
                 /\ UNCHANGED event
            ELSE FailOutbox(w, e)
    BY <1>2 DEF GetKnowledge
  <2>2. e \in Events /\ e \in 1 .. Len(event) /\ event[e] \in EventRecord
    BY <1>0, <1>1 DEF HeldIn, Events
  <2>3. e \in Nat \ {0} /\ event[e].item \in Items
    BY <2>2, <1>1 DEF EventRecord
  <2>4. UNCHANGED <<item, vector, check, env>>
    BY <1>2 DEF GetKnowledge
  <2>5. CASE ~Eligible(event[e].item)
    BY <2>1, <2>2, <2>4, <2>5, FailStep
  <2>6. CASE Eligible(event[e].item)
    <3> DEFINE held == [worker[w] EXCEPT !.pc = "embedding", !.job = e, !.item = event[e].item]
    <3>1. held \in WorkerRecord /\ HeldIn(held, event) /\ RecordedIn(held, item', check')
      BY <1>0, <2>2, <2>3 DEF WorkerRecord, HeldIn, RecordedIn
    <3>2. ItemsKept /\ CoverKept
      BY <1>1, <2>4 DEF ItemsKept, CoverKept, CoveredIn
    <3>3. worker' = [worker EXCEPT ![w] = held] /\ event' = event
      BY <2>1, <2>6 DEF Becomes
    <3> HIDE DEF held
    <3> QED BY <1>1, <2>4, <3>1, <3>2, <3>3, HoldStep
  <2> QED BY <2>5, <2>6
<1>3. CASE BuildKnowledgeProjection(w)
  <2>1. CASE ~Eligible(worker[w].item)
    BY <1>3, <2>1, RefusedStep DEF BuildKnowledgeProjection
  <2>2. CASE Eligible(worker[w].item)
    <3> DEFINE i == worker[w].item
    <3>1. PICK v \in FreshIDs :
             worker' = [worker EXCEPT ![w] = [worker[w] EXCEPT !.pc = "built",
                                                !.manifest = [source |-> item[i].source, id |-> v]]]
      BY <1>3, <2>2 DEF BuildKnowledgeProjection, Becomes, NewID
    <3>2. i \in Items /\ item[i].approval # 0
      BY <1>0, <1>3, <2>2 DEF HeldIn, BuildKnowledgeProjection, Eligible
    <3>3. item[i].source \in Sources /\ v \in VerificationIDs
      BY <3>2, <3>1 DEF Inv, ApprovalsHaveJobs, FreshIDs
    <3>4. [source |-> item[i].source, id |-> v] \in Manifests
      BY <3>3 DEF Manifests
    <3> DEFINE m == [source |-> item[i].source, id |-> v]
               held == [worker[w] EXCEPT !.pc = "built", !.manifest = m]
    <3> HIDE DEF m
    <3>5. held \in WorkerRecord /\ HeldIn(held, event) /\ RecordedIn(held, item', check')
      BY <1>0, <1>3, <3>2, <3>4 DEF WorkerRecord, HeldIn, RecordedIn, m, BuildKnowledgeProjection
    <3>6. ItemsKept /\ CoverKept /\ UNCHANGED <<event, vector, check, env>>
      BY <1>1, <1>3, <2>2 DEF BuildKnowledgeProjection, ItemsKept, CoverKept, CoveredIn
    <3>7. worker' = [worker EXCEPT ![w] = held]
      BY <3>1 DEF m
    <3> HIDE DEF held
    <3> QED BY <1>1, <3>5, <3>6, <3>7, HoldStep
  <2> QED BY <2>1, <2>2
<1>4. CASE Upsert(w)
  <2> DEFINE held == [worker[w] EXCEPT !.pc = "verifying"]
  <2>1. worker' = [worker EXCEPT ![w] = held]
    BY <1>4 DEF Upsert, Becomes
  <2>2. held \in WorkerRecord /\ HeldIn(held, event) /\ RecordedIn(held, item', check')
    BY <1>0, <1>4 DEF WorkerRecord, HeldIn, RecordedIn, Upsert
  <2>3. ItemsKept /\ CoverKept /\ UNCHANGED <<event, check, env>>
    BY <1>1, <1>4 DEF Upsert, ItemsKept, CoverKept, CoveredIn
  <2>4. worker[w].manifest \in Manifests /\ vector' = [vector EXCEPT ![worker[w].item] = worker[w].manifest]
    BY <1>0, <1>4 DEF HeldIn, Upsert
  <2>5. vector' \in [Items -> Manifests \cup {None}]
    BY <1>1, <2>4
  <2> HIDE DEF held
  <2> QED BY <1>1, <2>1, <2>2, <2>3, <2>5, HoldStep
<1>5. CASE VerifyKnowledgeProjection(w)
  <2>1. CASE vector[worker[w].item] # worker[w].manifest
    BY <1>5, <2>1, RefusedStep DEF VerifyKnowledgeProjection
  <2>2. CASE vector[worker[w].item] = worker[w].manifest
    <3> DEFINE held == [worker[w] EXCEPT !.pc = "recording"]
    <3>1. worker' = [worker EXCEPT ![w] = held]
      BY <1>5, <2>2 DEF VerifyKnowledgeProjection, Becomes
    <3>2. held \in WorkerRecord /\ HeldIn(held, event) /\ RecordedIn(held, item', check')
      BY <1>0, <1>5 DEF WorkerRecord, HeldIn, RecordedIn, VerifyKnowledgeProjection
    <3>3. ItemsKept /\ CoverKept /\ UNCHANGED <<event, vector, check, env>>
      BY <1>1, <1>5, <2>2 DEF VerifyKnowledgeProjection, ItemsKept, CoverKept, CoveredIn
    <3> HIDE DEF held
    <3> QED BY <1>1, <3>1, <3>2, <3>3, HoldStep
  <2> QED BY <2>1, <2>2
<1>6. CASE KnowledgeProjection(w)
  <2> DEFINE i == worker[w].item
  <2>1. CASE check[i] = None
    BY <1>6, <2>1, RefusedStep DEF KnowledgeProjection
  <2>2. CASE check[i] # None
    <3> DEFINE held == [worker[w] EXCEPT !.pc = "verifying", !.manifest = check[i]]
    <3>1. worker' = [worker EXCEPT ![w] = held]
      BY <1>6, <2>2 DEF KnowledgeProjection, Becomes
    <3>2. i \in Items /\ check[i] \in Manifests
      BY <1>0, <1>1, <1>6, <2>2 DEF HeldIn, KnowledgeProjection
    <3>3. held \in WorkerRecord /\ HeldIn(held, event) /\ RecordedIn(held, item', check')
      BY <1>0, <3>2, <1>6 DEF WorkerRecord, HeldIn, RecordedIn, KnowledgeProjection
    <3>4. ItemsKept /\ CoverKept /\ UNCHANGED <<event, vector, check, env>>
      BY <1>1, <1>6, <2>2 DEF KnowledgeProjection, ItemsKept, CoverKept, CoveredIn
    <3> HIDE DEF held
    <3> QED BY <1>1, <3>1, <3>3, <3>4, HoldStep
  <2> QED BY <2>1, <2>2
<1>7. CASE GetRefreshed(w)
  <2>1. CASE ~Eligible(worker[w].item)
    BY <1>7, <2>1, RefusedStep DEF GetRefreshed
  <2>2. CASE Eligible(worker[w].item)
    <3> DEFINE held == [worker[w] EXCEPT !.pc = "rereading"]
    <3>1. worker' = [worker EXCEPT ![w] = held]
      BY <1>7, <2>2 DEF GetRefreshed, Becomes
    <3>2. held \in WorkerRecord /\ HeldIn(held, event) /\ RecordedIn(held, item', check')
      BY <1>0, <1>7 DEF WorkerRecord, HeldIn, RecordedIn, GetRefreshed
    <3>3. ItemsKept /\ CoverKept /\ UNCHANGED <<event, vector, check, env>>
      BY <1>1, <1>7, <2>2 DEF GetRefreshed, ItemsKept, CoverKept, CoveredIn
    <3> HIDE DEF held
    <3> QED BY <1>1, <3>1, <3>2, <3>3, HoldStep
  <2> QED BY <2>1, <2>2
<1> QED BY <1>2, <1>3, <1>4, <1>5, <1>6, <1>7

\* Recording a projection covers the item for whoever is at work on it.
LEMMA RecordStep ==
    ASSUME Inv, NEW w \in Workers, RecordProjectionCheck(w)
    PROVE  Inv'
<1>0. worker[w] \in WorkerRecord /\ HeldIn(worker[w], event) /\ worker[w].pc = "recording"
  BY DEF Inv, TypeOK, WorkHeld, RecordProjectionCheck
<1>1. /\ item \in [Items -> ItemRecord] /\ vector \in [Items -> Manifests \cup {None}]
      /\ check \in [Items -> Manifests \cup {None}] /\ env \in [faults : Nat, errors : Nat, changes : Nat]
      /\ event \in Seq(EventRecord)
  BY DEF Inv, TypeOK
<1>2. CASE ~Recordable(w)
  BY <1>2, RefusedStep DEF RecordProjectionCheck
<1>3. CASE Recordable(w)
  <2> DEFINE i == worker[w].item
             held == IF worker[w].job = 0 THEN Idle ELSE [worker[w] EXCEPT !.pc = "recorded"]
  <2>1. i \in Items /\ worker[w].manifest \in Manifests
    BY <1>0 DEF HeldIn
  <2>2. check' = [check EXCEPT ![i] = worker[w].manifest] /\ worker' = [worker EXCEPT ![w] = held]
        /\ UNCHANGED <<item, event, vector, env>>
    BY <1>3 DEF RecordProjectionCheck, Becomes
  <2>3. check' \in [Items -> Manifests \cup {None}] /\ check'[i] = worker[w].manifest
    BY <1>1, <2>1, <2>2
  <2>4. None \notin Manifests
    BY IndexAssumption DEF Manifests
  <2>5. CoveredIn(i, item', check')
    BY <1>3, <2>1, <2>2, <2>3, <2>4 DEF CoveredIn, Recordable
  <2>6. ItemsKept /\ CoverKept
    BY <1>1, <2>1, <2>2, <2>5 DEF ItemsKept, CoverKept, CoveredIn
  <2>7. held \in WorkerRecord /\ HeldIn(held, event) /\ RecordedIn(held, item', check')
    <3>1. CASE worker[w].job = 0
      BY <1>1, <3>1, IdleHeld
    <3>2. CASE worker[w].job # 0
      BY <1>0, <3>2, <2>1, <2>5 DEF WorkerRecord, HeldIn, RecordedIn
    <3> QED BY <3>1, <3>2
  <2> HIDE DEF held
  <2> QED BY <1>1, <2>2, <2>3, <2>6, <2>7, HoldStep
<1> QED BY <1>2, <1>3

\* A worker that dies, begins a refresh or records a source check.
LEMMA OtherWorkerStep ==
    ASSUME Inv, NEW w \in Workers,
           Crash(w) \/ (\E i \in Items : BeginRefresh(w, i)) \/ (\E b \in BOOLEAN : RecordSourceCheck(w, b))
    PROVE  Inv'
<1>0. worker[w] \in WorkerRecord /\ HeldIn(worker[w], event)
  BY DEF Inv, TypeOK, WorkHeld
<1>1. /\ item \in [Items -> ItemRecord] /\ vector \in [Items -> Manifests \cup {None}]
      /\ check \in [Items -> Manifests \cup {None}] /\ env \in [faults : Nat, errors : Nat, changes : Nat]
      /\ event \in Seq(EventRecord)
  BY DEF Inv, TypeOK
<1>2. CASE Crash(w)
  <2>1. worker' = [worker EXCEPT ![w] = Idle] /\ UNCHANGED <<item, event, vector, check>>
    BY <1>2 DEF Crash, Becomes
  <2>2. env' \in [faults : Nat, errors : Nat, changes : Nat]
    BY <1>2, EnvType DEF Crash, Inv
  <2>3. ItemsKept /\ CoverKept
    BY <1>1, <2>1 DEF ItemsKept, CoverKept, CoveredIn
  <2>4. Idle \in WorkerRecord /\ HeldIn(Idle, event) /\ RecordedIn(Idle, item', check')
    BY <1>1, IdleHeld
  <2> QED BY <1>1, <2>1, <2>2, <2>3, <2>4, HoldStep
<1>3. ASSUME NEW i \in Items, BeginRefresh(w, i)
      PROVE  Inv'
  <2> DEFINE held == [Idle EXCEPT !.pc = "checking", !.item = i, !.approval = item[i].approval]
  <2>1. worker' = [worker EXCEPT ![w] = held] /\ UNCHANGED <<item, event, vector, check>>
    BY <1>3 DEF BeginRefresh, Becomes
  <2>2. env' \in [faults : Nat, errors : Nat, changes : Nat]
    BY <1>3, EnvType DEF BeginRefresh, Inv
  <2>3. ItemsKept /\ CoverKept
    BY <1>1, <2>1 DEF ItemsKept, CoverKept, CoveredIn
  <2>4. item[i].approval \in Nat
    BY <1>1 DEF ItemRecord
  <2>5. Idle \in WorkerRecord /\ Idle.batch = {} /\ Idle.job = 0
    BY <1>1, IdleHeld DEF Idle
  <2>6. held \in WorkerRecord
    BY <2>4, <2>5 DEF WorkerRecord
  <2>7. held.batch = {} /\ held.job = 0 /\ held.item = i /\ held.pc = "checking"
    BY <2>5 DEF WorkerRecord
  <2> HIDE DEF held
  <2>8. HeldIn(held, event) /\ RecordedIn(held, item', check')
    BY <2>7 DEF HeldIn, RecordedIn
  <2> QED BY <1>1, <2>1, <2>2, <2>3, <2>6, <2>8, HoldStep
<1>4. ASSUME NEW b \in BOOLEAN, RecordSourceCheck(w, b)
      PROVE  Inv'
  <2> DEFINE i == worker[w].item
             held == IF b THEN [worker[w] EXCEPT !.pc = "checked"] ELSE Idle
  <2>1. CASE item[i].approval # worker[w].approval
    BY <1>4, <2>1, RefusedStep DEF RecordSourceCheck
  <2>2. CASE item[i].approval = worker[w].approval
    <3>1. worker' = [worker EXCEPT ![w] = held] /\ item' = [item EXCEPT ![i].verified = b]
          /\ UNCHANGED <<event, vector, check, env>> /\ worker[w].pc = "checking"
      BY <1>4, <2>2 DEF RecordSourceCheck, Becomes
    <3>2. i \in Items
      BY <1>0, <3>1 DEF HeldIn
    <3>3. item[i] \in ItemRecord
      BY <1>1, <3>2
    <3>4. item' = [item EXCEPT ![i] = [item[i] EXCEPT !.verified = b]]
      BY <3>1
    <3> DEFINE row == [item[i] EXCEPT !.verified = b]
    <3>5. row \in ItemRecord /\ row.approval = item[i].approval /\ row.source = item[i].source
      BY <3>3, <1>4 DEF ItemRecord
    <3> HIDE DEF row
    <3>6. ItemsKept
      BY <1>1, <3>2, <3>4, <3>5 DEF ItemsKept, row
    <3>7. CoverKept
      BY <3>1, <3>6 DEF CoverKept, CoveredIn, ItemsKept
    <3>8. held \in WorkerRecord /\ HeldIn(held, event) /\ RecordedIn(held, item', check')
      <4>1. CASE b
        BY <1>0, <3>1, <3>2, <4>1 DEF WorkerRecord, HeldIn, RecordedIn
      <4>2. CASE ~b
        BY <1>1, <4>2, IdleHeld
      <4> QED BY <4>1, <4>2
    <3> HIDE DEF held
    <3> QED BY <1>1, <3>1, <3>6, <3>7, <3>8, HoldStep
  <2> QED BY <2>1, <2>2
<1> QED BY <1>2, <1>3, <1>4

\* Completing a job is safe because the worker that completes it, or the job's
\* approval, is covered already.
LEMMA CompleteStep ==
    ASSUME Inv, NEW w \in Workers, CompleteOutbox(w)
    PROVE  Inv'
<1> DEFINE e == worker[w].job
           row == [event[e] EXCEPT !.completed = TRUE, !.lock = "free"]
<1>0. worker[w] \in WorkerRecord /\ HeldIn(worker[w], event) /\ RecordedIn(worker[w], item, check)
      /\ worker[w].pc = "recorded" /\ e # 0
  BY DEF Inv, TypeOK, WorkHeld, RecordedIsCovered, CompleteOutbox, Ready
<1>1. e \in Events /\ worker[w].item = event[e].item /\ worker[w].item \in Items
  BY <1>0 DEF HeldIn, Events
<1>2. event[e] \in EventRecord
  BY <1>1 DEF Inv, TypeOK, Events
<1>3. event' = [event EXCEPT ![e] = row] /\ worker' = [worker EXCEPT ![w] = NextJob(w, e)]
      /\ UNCHANGED <<item, vector, check, env>>
  BY DEF CompleteOutbox, Becomes
<1>4. row \in EventRecord /\ row.item = event[e].item
  BY <1>2 DEF EventRecord
<1>5. /\ JobsKept /\ Len(event') = Len(event)
      /\ \A d \in Events : d # e => event'[d] = event[d]
  <2> HIDE DEF row, e
  <2>1. TypeOK
    BY DEF Inv
  <2> QED BY <1>1, <1>3, <1>4, <2>1, RowKeeps
<1>6. ItemsKept /\ CoverKept
  BY <1>3 DEF ItemsKept, CoverKept, CoveredIn, Inv, TypeOK
<1>7. NextJob(w, e) \in WorkerRecord /\ HeldIn(NextJob(w, e), event') /\ RecordedIn(NextJob(w, e), item', check')
  BY <1>5, NextJobHeld
<1>8. worker \in [Workers -> WorkerRecord] /\ worker' \in [Workers -> WorkerRecord]
      /\ \A v \in Workers : worker'[v] = worker[v] \/ worker'[v] = NextJob(w, e)
  BY <1>3, <1>7 DEF Inv, TypeOK
<1>9. TypeOK'
  BY <1>3, <1>5, <1>8 DEF Inv, TypeOK, JobsKept
<1>10. WorkHeld' /\ RecordedIsCovered'
  <2> SUFFICES ASSUME NEW v \in Workers
               PROVE  HeldIn(worker'[v], event') /\ RecordedIn(worker'[v], item', check')
    BY DEF WorkHeld, RecordedIsCovered
  <2>1. worker[v] \in WorkerRecord /\ HeldIn(worker[v], event) /\ RecordedIn(worker[v], item, check)
    BY DEF Inv, TypeOK, WorkHeld, RecordedIsCovered
  <2> QED BY <1>5, <1>6, <1>7, <1>8, <2>1, HeldKept
<1>11. ApprovalsHaveJobs'
  BY <1>3, <1>5 DEF Inv, ApprovalsHaveJobs, JobsKept, Events
<1>12. CompletedApprovalIsProjected'
  <2> SUFFICES ASSUME NEW i \in Items, item[i].approval # 0, event'[item[i].approval].completed
               PROVE  CoveredIn(i, item, check)
    BY <1>3 DEF CompletedApprovalIsProjected, CoveredIn
  <2>1. item[i].approval \in Events /\ event[item[i].approval].item = i
    BY DEF Inv, ApprovalsHaveJobs
  <2>2. CASE item[i].approval = e
    BY <1>0, <1>1, <2>1, <2>2 DEF RecordedIn
  <2>3. CASE item[i].approval # e
    BY <1>5, <2>1, <2>3 DEF Inv, CompletedApprovalIsProjected, CoveredIn
  <2> QED BY <2>2, <2>3
<1> QED BY <1>9, <1>10, <1>11, <1>12 DEF Inv

\* A job that fails, or was claimed once too often.
LEMMA JobFailsStep ==
    ASSUME Inv, NEW w \in Workers, JobFails(w) \/ RetryLimitExceeded(w)
    PROVE  Inv'
<1>1. PICK e \in worker[w].batch : FailOutbox(w, e)
  BY DEF JobFails, RetryLimitExceeded
<1>2. e \in Events
  BY DEF Inv, WorkHeld, HeldIn, Events
<1>3. UNCHANGED <<item, vector, check>> /\ (Error \/ env' = env)
  BY DEF JobFails, RetryLimitExceeded
<1> QED BY <1>1, <1>2, <1>3, FailStep

-----------------------------------------------------------------------------
(* Steps of the queue *)

\* A step that only changes the queue, keeps its jobs and completes none.
LEMMA QueueStep ==
    ASSUME Inv, JobsKept, NoneCompleted, UNCHANGED <<item, worker, vector, check>>,
           Fault \/ env' = env
    PROVE  Inv'
<1>1. env' \in [faults : Nat, errors : Nat, changes : Nat]
  BY EnvType DEF Inv
<1>2. TypeOK'
  BY <1>1 DEF Inv, TypeOK, JobsKept
<1>3. ItemsKept /\ CoverKept
  BY DEF ItemsKept, CoverKept, CoveredIn, Inv, TypeOK
<1> QED BY <1>2, <1>3, WorkerStepKeeps

\* A lock or a backoff that runs out.
LEMMA TimeStep ==
    ASSUME Inv, NEW e \in Events, LockExpires(e) \/ BackoffEnds(e)
    PROVE  Inv' /\ JobsKept /\ NoneCompleted
<1>1. event[e] \in EventRecord /\ TypeOK
  BY DEF Inv, TypeOK, Events
<1>2. CASE LockExpires(e)
  <2> DEFINE row == [event[e] EXCEPT !.lock = "stale"]
  <2>1. event' = [event EXCEPT ![e] = row]
    BY <1>2 DEF LockExpires
  <2>2. row \in EventRecord /\ row.item = event[e].item /\ row.completed = event[e].completed
    BY <1>1 DEF EventRecord
  <2>3. JobsKept /\ NoneCompleted
    <3> HIDE DEF row
    <3> QED BY <1>1, <2>1, <2>2, RowKeeps
  <2> QED BY <1>2, <2>3, QueueStep DEF LockExpires
<1>3. CASE BackoffEnds(e)
  <2> DEFINE row == [event[e] EXCEPT !.due = TRUE]
  <2>1. event' = [event EXCEPT ![e] = row]
    BY <1>3 DEF BackoffEnds
  <2>2. row \in EventRecord /\ row.item = event[e].item /\ row.completed = event[e].completed
    BY <1>1 DEF EventRecord
  <2>3. JobsKept /\ NoneCompleted
    <3> HIDE DEF row
    <3> QED BY <1>1, <2>1, <2>2, RowKeeps
  <2> QED BY <1>3, <2>3, QueueStep DEF BackoffEnds
<1> QED BY <1>2, <1>3

\* The operator's replacement for a failed job.
LEMMA RetryStep ==
    ASSUME Inv, NEW e \in Events, RetryKnowledgeIndex(e)
    PROVE  Inv' /\ JobsKept /\ NoneCompleted
<1> DEFINE row == [event[e] EXCEPT !.retried = TRUE]
           marked == [event EXCEPT ![e] = row]
           new == NewEvent(event[e].item)
<1>1. event[e] \in EventRecord /\ event \in Seq(EventRecord) /\ e \in 1 .. Len(event)
  BY DEF Inv, TypeOK, Events
<1>2. row \in EventRecord /\ row.item = event[e].item /\ row.completed = event[e].completed
  BY <1>1 DEF EventRecord
<1>3. event[e].item \in Items
  BY <1>1 DEF EventRecord
<1>4. new \in EventRecord /\ new.completed = FALSE
  BY <1>3, NewEventType DEF NewEvent
<1>5. event' = Append(marked, new)
  BY DEF RetryKnowledgeIndex
<1> HIDE DEF row, new
<1>6. marked \in Seq(EventRecord) /\ Len(marked) = Len(event)
      /\ \A d \in 1 .. Len(event) : marked[d] = IF d = e THEN row ELSE event[d]
  BY <1>1, <1>2, ExceptSeq
<1> HIDE DEF marked
<1>7. JobsKept /\ NoneCompleted
  BY <1>1, <1>2, <1>4, <1>5, <1>6 DEF JobsKept, NoneCompleted, Events
<1> QED BY <1>7, QueueStep DEF RetryKnowledgeIndex

\* One more job for each eligible item.
LEMMA RequeueStep ==
    ASSUME Inv, RequeueApprovedKnowledge
    PROVE  Inv' /\ JobsKept /\ NoneCompleted
<1> DEFINE ready == {i \in Items : Eligible(i)}
           n == Cardinality(ready)
<1>1. PICK order \in [1 .. n -> ready] : event' = event \o [k \in 1 .. n |-> NewEvent(order[k])]
  BY DEF RequeueApprovedKnowledge
<1> DEFINE added == [k \in 1 .. n |-> NewEvent(order[k])]
<1>2. ready \subseteq Items /\ IsFiniteSet(ready)
  BY IndexAssumption, FS_Subset
<1>3. n \in Nat
  BY <1>2, FS_CardinalityType
<1> HIDE DEF n, ready
<1>4. \A k \in 1 .. n : added[k] \in EventRecord /\ added[k].completed = FALSE
  BY <1>2, NewEventType DEF NewEvent
<1>5. added \in Seq(EventRecord) /\ Len(added) = n
  BY <1>3, <1>4, IsASeq, LenProperties
<1>6. event \in Seq(EventRecord) /\ event' = event \o added
  BY <1>1 DEF Inv, TypeOK
<1> HIDE DEF added
<1>7. JobsKept /\ NoneCompleted
  BY <1>3, <1>4, <1>5, <1>6, ConcatProperties DEF JobsKept, NoneCompleted, Events
<1> QED BY <1>7, QueueStep DEF RequeueApprovedKnowledge

\* A claim marks the jobs of its batch, which exist, and completes none.
LEMMA ClaimStep ==
    ASSUME Inv, NEW w \in Workers, ClaimOutbox(w)
    PROVE  Inv' /\ JobsKept /\ NoneCompleted
<1> DEFINE row(e) == IF e \in Batch THEN [event[e] EXCEPT !.lock = "held", !.attempts = @ + 1] ELSE event[e]
           new == [e \in Events |-> row(e)]
<1>1. event \in Seq(EventRecord) /\ Len(event) \in Nat /\ Events = 1 .. Len(event)
  BY DEF Inv, TypeOK, Events
<1>2. ASSUME NEW e \in Events
      PROVE  row(e) \in EventRecord /\ row(e).item = event[e].item /\ row(e).completed = event[e].completed
  <2>1. event[e] \in EventRecord
    BY <1>1
  <2>2. event[e].attempts + 1 \in Nat
    BY <2>1 DEF EventRecord
  <2> QED BY <2>1, <2>2 DEF EventRecord
<1>3. event' = new
  BY DEF ClaimOutbox
<1> HIDE DEF row
<1>4. new \in Seq(EventRecord) /\ Len(new) = Len(event)
  BY <1>1, <1>2, IsASeq, LenProperties
<1>5. \A e \in Events : new[e] = row(e)
  OBVIOUS
<1> HIDE DEF new
<1>6. JobsKept /\ NoneCompleted
  BY <1>1, <1>2, <1>3, <1>4, <1>5 DEF JobsKept, NoneCompleted
<1> DEFINE spent == {e \in Batch : event[e].attempts >= MaxAttempts}
           held == [Idle EXCEPT !.pc = "working", !.batch = Batch, !.spent = spent]
<1>7. worker' = [worker EXCEPT ![w] = held] /\ UNCHANGED <<item, vector, check, env>>
  BY DEF ClaimOutbox, Becomes
<1>8. Batch \subseteq 1 .. Len(event) /\ Batch \subseteq Nat /\ spent \subseteq Nat
  BY <1>1 DEF Batch
<1>9. Idle \in WorkerRecord /\ Idle.job = 0
  BY <1>1, IdleHeld DEF Idle
<1>10. held \in WorkerRecord /\ held.pc = "working" /\ held.job = 0 /\ held.batch = Batch
  <2> HIDE DEF Batch, spent
  <2> QED BY <1>8, <1>9 DEF WorkerRecord
<1> HIDE DEF held
<1>11. HeldIn(held, event') /\ RecordedIn(held, item', check')
  BY <1>3, <1>4, <1>8, <1>10 DEF HeldIn, RecordedIn
<1>12. worker \in [Workers -> WorkerRecord]
  BY DEF Inv, TypeOK
<1>13. worker' \in [Workers -> WorkerRecord] /\ \A v \in Workers : worker'[v] # worker[v] => worker'[v] = held
  BY <1>7, <1>10, <1>12
<1>14. TypeOK'
  BY <1>6, <1>7, <1>13 DEF Inv, TypeOK, JobsKept
<1>15. ItemsKept /\ CoverKept
  BY <1>7 DEF ItemsKept, CoverKept, CoveredIn, Inv, TypeOK
<1> QED BY <1>6, <1>11, <1>13, <1>14, <1>15, WorkerStepKeeps

-----------------------------------------------------------------------------
(* Steps of an approval *)

\* A validation that expires leaves the approval what it was.
LEMMA ExpiryStep ==
    ASSUME Inv, NEW i \in Items, ValidationExpires(i)
    PROVE  Inv'
<1> DEFINE row == [item[i] EXCEPT !.valid = FALSE]
<1>1. item \in [Items -> ItemRecord] /\ item[i] \in ItemRecord /\ event \in Seq(EventRecord)
  BY DEF Inv, TypeOK
<1>2. item' = [item EXCEPT ![i] = row] /\ UNCHANGED <<event, worker, vector, check>>
  BY DEF ValidationExpires
<1>3. row \in ItemRecord /\ row.approval = item[i].approval /\ row.source = item[i].source
  BY <1>1 DEF ItemRecord
<1> HIDE DEF row
<1>4. ItemsKept
  BY <1>1, <1>2, <1>3 DEF ItemsKept
<1>5. CoverKept
  BY <1>2, <1>4 DEF CoverKept, CoveredIn, ItemsKept
<1>6. JobsKept /\ NoneCompleted
  BY <1>1, <1>2 DEF JobsKept, NoneCompleted, Events
<1>7. env' \in [faults : Nat, errors : Nat, changes : Nat]
  BY EnvType DEF ValidationExpires, Inv
<1>8. TypeOK'
  BY <1>2, <1>4, <1>7 DEF Inv, TypeOK, ItemsKept
<1> QED BY <1>2, <1>4, <1>5, <1>6, <1>8, WorkerStepKeeps

\* A new approval names a job nobody has claimed, so nothing that is under way
\* can complete it without covering it.
LEMMA ApproveStep ==
    ASSUME Inv, NEW i \in Items, NEW s \in Sources, Approve(i, s)
    PROVE  Inv'
<1> DEFINE n == Len(event) + 1
           row == [approval |-> n, source |-> s, valid |-> TRUE, verified |-> TRUE]
<1>1. event \in Seq(EventRecord) /\ Len(event) \in Nat /\ item \in [Items -> ItemRecord]
  BY DEF Inv, TypeOK
<1>2. item' = [item EXCEPT ![i] = row] /\ UNCHANGED <<worker, vector, check, env>>
      /\ event' = Append(event, NewEvent(i))
  BY DEF Approve, Enqueue
<1>3. JobsKept /\ NoneCompleted /\ Len(event') = n /\ event'[n] = NewEvent(i)
  BY <1>2, AppendKeeps DEF Inv
<1>4. row \in ItemRecord /\ row.approval = n /\ row.source = s
  BY <1>1 DEF ItemRecord
<1> HIDE DEF row
<1>5. item' \in [Items -> ItemRecord] /\ item'[i] = row /\ \A j \in Items : j # i => item'[j] = item[j]
  BY <1>1, <1>2, <1>4
<1>6. TypeOK'
  BY <1>2, <1>3, <1>5 DEF Inv, TypeOK, JobsKept
<1>7. NewEvent(i).item = i /\ NewEvent(i).completed = FALSE
  BY DEF NewEvent
<1>8. ApprovalsHaveJobs'
  BY <1>1, <1>3, <1>4, <1>5, <1>7 DEF Inv, ApprovalsHaveJobs, JobsKept, Events
<1>9. WorkHeld'
  BY <1>1, <1>2, <1>3 DEF Inv, WorkHeld, HeldIn, JobsKept, Events
<1>10. RecordedIsCovered'
  <2> SUFFICES ASSUME NEW w \in Workers
               PROVE  RecordedIn(worker[w], item', check)
    BY <1>2 DEF RecordedIsCovered
  <2>1. HeldIn(worker[w], event) /\ RecordedIn(worker[w], item, check) /\ worker[w] \in WorkerRecord
    BY DEF Inv, WorkHeld, RecordedIsCovered, TypeOK
  <2>2. CASE worker[w].item = i
    BY <1>1, <1>4, <1>5, <2>1, <2>2 DEF HeldIn, RecordedIn
  <2>3. CASE worker[w].item # i
    BY <1>5, <2>1, <2>3 DEF HeldIn, RecordedIn, CoveredIn
  <2> QED BY <2>2, <2>3
<1>11. CompletedApprovalIsProjected'
  <2> SUFFICES ASSUME NEW j \in Items, item'[j].approval # 0, event'[item'[j].approval].completed
               PROVE  CoveredIn(j, item', check)
    BY <1>2 DEF CompletedApprovalIsProjected, CoveredIn
  <2>1. j # i
    BY <1>3, <1>4, <1>5, <1>7
  <2>2. item'[j] = item[j] /\ item[j].approval \in Events
    BY <1>5, <2>1 DEF Inv, ApprovalsHaveJobs
  <2>3. event[item[j].approval].completed
    BY <1>1, <1>3, <2>2 DEF NoneCompleted, Events
  <2> QED BY <2>2, <2>3 DEF Inv, CompletedApprovalIsProjected, CoveredIn
<1> QED BY <1>6, <1>8, <1>9, <1>10, <1>11 DEF Inv

-----------------------------------------------------------------------------
(* The theorems *)

\* The invariant holds before anything is approved.
LEMMA InitInv == Init => Inv
<1> SUFFICES ASSUME Init PROVE Inv
  OBVIOUS
<1>0. << >> \in Seq(EventRecord)
  BY EmptySeq
<1>1. << >> \in Seq(EventRecord) /\ Idle \in WorkerRecord /\ HeldIn(Idle, << >>)
      /\ RecordedIn(Idle, item, check)
  BY <1>0, IdleHeld
<1>2. TypeOK
  BY <1>1 DEF Init, TypeOK, ItemRecord
<1>3. ApprovalsHaveJobs /\ CompletedApprovalIsProjected
  BY DEF Init, ApprovalsHaveJobs, CompletedApprovalIsProjected
<1>4. WorkHeld /\ RecordedIsCovered
  BY <1>1 DEF Init, WorkHeld, RecordedIsCovered
<1> QED BY <1>2, <1>3, <1>4 DEF Inv

\* Every step keeps the invariant.
LEMMA NextInv == Inv /\ [Next]_vars => Inv'
<1> SUFFICES ASSUME Inv, [Next]_vars PROVE Inv'
  OBVIOUS
<1>1. CASE UNCHANGED vars
  <2>1. JobsKept /\ NoneCompleted
    BY <1>1 DEF vars, JobsKept, NoneCompleted, Inv, TypeOK, Events
  <2> QED BY <1>1, <2>1, QueueStep DEF vars
<1>2. ASSUME NEW i \in Items, (\E s \in Sources : Approve(i, s)) \/ ValidationExpires(i)
      PROVE  Inv'
  BY <1>2, ApproveStep, ExpiryStep
<1>3. ASSUME NEW e \in Events, RetryKnowledgeIndex(e) \/ LockExpires(e) \/ BackoffEnds(e)
      PROVE  Inv'
  BY <1>3, RetryStep, TimeStep
<1>4. ASSUME NEW w \in Workers, ClaimOutbox(w) \/ Process(w) \/ Crash(w)
      PROVE  Inv'
  BY <1>4, ClaimStep, HandleStep, RecordStep, CompleteStep, JobFailsStep, OtherWorkerStep DEF Process
<1>5. ASSUME NEW w \in Workers, NEW i \in Items, BeginRefresh(w, i)
      PROVE  Inv'
  BY <1>5, OtherWorkerStep
<1>6. CASE RequeueApprovedKnowledge
  BY <1>6, RequeueStep
<1> QED BY <1>1, <1>2, <1>3, <1>4, <1>5, <1>6 DEF Next

\* Every row of the outbox, every projection and everything a worker holds
\* keeps its shape, for any number of items, workers and jobs.
THEOREM IndexTypeCorrect == Spec => []TypeOK
<1>1. Inv => TypeOK
  BY DEF Inv
<1> QED BY InitInv, NextInv, <1>1, PTL DEF Spec

\* No interleaving of workers, expired locks, crashes, refreshes and
\* re-approvals completes the job of an approval before a projection of that
\* approval's own sources has been read back and recorded.
THEOREM ApprovalsProjected == Spec => []CompletedApprovalIsProjected
<1>1. Inv => CompletedApprovalIsProjected
  BY DEF Inv
<1> QED BY InitInv, NextInv, <1>1, PTL DEF Spec
-----------------------------------------------------------------------------
(* One worker *)

\* With a single worker nobody completes a job it holds, and what it means to
\* record, or has recorded, is what the vector store and the check say.
SyncIn(held, ev, vec, ch) ==
    /\ \A e \in held.batch : ~ev[e].completed
    /\ held.pc \in {"embedding", "built"} => held.job # 0
    /\ held.pc \in {"verifying", "recording"} /\ held.job = 0 => ch[held.item] = held.manifest
    /\ held.pc \in {"recording", "recorded"} => vec[held.item] = held.manifest
    /\ held.pc = "recorded" => ch[held.item] = held.manifest

\* A vector that differs from its check has a job that will mend it.
AgreedIn(ev, vec, ch) ==
    \A i \in Items : vec[i] = ch[i] \/ \E e \in 1 .. Len(ev) : ev[e].item = i /\ ~ev[e].completed

SingleInv(x) == SyncIn(worker[x], event, vector, check) /\ AgreedIn(event, vector, check)

OneWorkerInv == \A x \in Workers : Workers = {x} => SingleInv(x)

\* Steps that keep vectors, checks and jobs.
LEMMA AgreedKept ==
    ASSUME Inv, JobsKept, NoneCompleted, AgreedIn(event, vector, check), vector' = vector, check' = check
    PROVE  AgreedIn(event', vector', check')
<1>1. Len(event) \in Nat /\ Len(event') \in Nat
  BY DEF Inv, TypeOK, JobsKept
<1>2. ASSUME NEW e \in 1 .. Len(event), ~event[e].completed
      PROVE  e \in 1 .. Len(event') /\ event'[e].item = event[e].item /\ ~event'[e].completed
  BY <1>1, <1>2 DEF JobsKept, NoneCompleted, Events
<1> QED BY <1>2 DEF AgreedIn

\* ... and the worker.
LEMMA SyncKept ==
    ASSUME Inv, JobsKept, NoneCompleted, NEW x \in Workers, SingleInv(x), UNCHANGED <<worker, vector, check>>
    PROVE  SingleInv(x)'
<1>1. worker[x].batch \subseteq Events
  BY DEF Inv, WorkHeld, HeldIn, Events
<1>2. \A e \in Events : event'[e].completed => event[e].completed
  BY DEF NoneCompleted, JobsKept, Events, Inv, TypeOK
<1>3. SyncIn(worker[x], event', vector, check)
  BY <1>1, <1>2 DEF SingleInv, SyncIn
<1>4. AgreedIn(event', vector', check')
  BY AgreedKept DEF SingleInv
<1> QED BY <1>3, <1>4 DEF SingleInv

\* A worker between two jobs, and one without any, is in step with the stores.
LEMMA NextJobSync ==
    ASSUME NEW x \in Workers, NEW e, NEW ev, NEW vec, NEW ch,
           \A d \in worker[x].batch \ {e} : ~ev[d].completed
    PROVE  SyncIn(NextJob(x, e), ev, vec, ch) /\ SyncIn(Idle, ev, vec, ch)
<1>1. PICK rest : rest = worker[x].batch \ {e}
  OBVIOUS
<1>2. Idle.batch = {} /\ Idle.pc = "idle"
  BY DEF Idle
<1>3. SyncIn(Idle, ev, vec, ch)
  BY <1>2 DEF SyncIn
<1>4. CASE rest = {}
  BY <1>1, <1>3, <1>4 DEF NextJob
<1>5. CASE rest # {}
  <2>1. PICK spent : spent = worker[x].spent \ {e}
    OBVIOUS
  <2>2. NextJob(x, e) = [Idle EXCEPT !.pc = "working", !.batch = rest, !.spent = spent]
    BY <1>1, <1>5, <2>1 DEF NextJob
  <2>3. NextJob(x, e).pc = "working" /\ NextJob(x, e).batch = rest
    BY <2>2 DEF Idle
  <2> QED BY <1>1, <1>3, <2>3 DEF SyncIn
<1> QED BY <1>4, <1>5

\* A job that fails stays open.
LEMMA FailSync ==
    ASSUME Inv, NEW x \in Workers, SingleInv(x), NEW e \in worker[x].batch, FailOutbox(x, e),
           UNCHANGED <<vector, check>>
    PROVE  SingleInv(x)'
<1>1. worker[x].batch \subseteq Events /\ e \in Events /\ worker \in [Workers -> WorkerRecord]
  BY DEF Inv, WorkHeld, HeldIn, Events, TypeOK
<1>2. JobsKept /\ NoneCompleted
  BY <1>1, FailKeeps DEF Inv
<1>3. \A d \in Events : event'[d].completed => event[d].completed
  BY <1>2 DEF NoneCompleted, JobsKept, Events, Inv, TypeOK
<1>4. worker'[x] = NextJob(x, e)
  BY <1>1 DEF FailOutbox, Becomes
<1>5. SyncIn(NextJob(x, e), event', vector', check')
  <2>1. \A d \in worker[x].batch \ {e} : ~event'[d].completed
    BY <1>1, <1>3 DEF SingleInv, SyncIn
  <2> QED BY <2>1, NextJobSync
<1>6. AgreedIn(event', vector', check')
  BY <1>2, AgreedKept DEF SingleInv
<1> QED BY <1>4, <1>5, <1>6 DEF SingleInv

\* A new record in the worker's hands, while no job and no store changes.
LEMMA HoldSync ==
    ASSUME Inv, NEW x \in Workers, SingleInv(x), NEW held, worker' = [worker EXCEPT ![x] = held],
           UNCHANGED <<event, vector, check>>, SyncIn(held, event, vector, check)
    PROVE  SingleInv(x)'
<1>1. worker'[x] = held
  BY DEF Inv, TypeOK
<1> QED BY <1>1 DEF SingleInv

LEMMA IdleSync ==
    ASSUME Inv, NEW x \in Workers, SingleInv(x), worker' = [worker EXCEPT ![x] = Idle],
           UNCHANGED <<event, vector, check>>
    PROVE  SingleInv(x)'
<1>1. \A d \in worker[x].batch : ~event[d].completed
  BY DEF SingleInv, SyncIn
<1>2. SyncIn(Idle, event, vector, check)
  BY <1>1, NextJobSync
<1> QED BY <1>2, HoldSync

LEMMA RefusedSync ==
    ASSUME Inv, NEW x \in Workers, SingleInv(x), Refused(x)
    PROVE  SingleInv(x)'
<1>1. CASE worker[x].job = 0
  BY <1>1, IdleSync DEF Refused, Becomes
<1>2. CASE worker[x].job # 0
  <2>1. worker[x].job \in worker[x].batch
    BY <1>2 DEF Inv, WorkHeld, HeldIn
  <2> QED BY <1>2, <2>1, FailSync DEF Refused
<1> QED BY <1>1, <1>2

\* The steps of a job and of a refresh up to the record.
LEMMA HandleSync ==
    ASSUME Inv, NEW x \in Workers, SingleInv(x),
           GetKnowledge(x) \/ BuildKnowledgeProjection(x) \/ Upsert(x)
           \/ VerifyKnowledgeProjection(x) \/ GetRefreshed(x) \/ KnowledgeProjection(x)
    PROVE  SingleInv(x)'
<1>1. PICK held \in WorkerRecord : held = worker[x] /\ HeldIn(held, event) /\ SyncIn(held, event, vector, check)
  BY DEF Inv, TypeOK, WorkHeld, SingleInv
<1>2. CASE GetKnowledge(x)
  <2>1. PICK e \in held.batch :
            IF Eligible(event[e].item)
            THEN /\ Becomes(x, [held EXCEPT !.pc = "embedding", !.job = e, !.item = event[e].item])
                 /\ UNCHANGED event
            ELSE FailOutbox(x, e)
    BY <1>1, <1>2 DEF GetKnowledge
  <2>2. UNCHANGED <<vector, check>>
    BY <1>2 DEF GetKnowledge
  <2>3. CASE ~Eligible(event[e].item)
    BY <1>1, <2>1, <2>2, <2>3, FailSync
  <2>4. CASE Eligible(event[e].item)
    <3>1. PICK i : i = event[e].item
      OBVIOUS
    <3>2. PICK new : new = [held EXCEPT !.pc = "embedding", !.job = e, !.item = i]
      OBVIOUS
    <3>3. worker' = [worker EXCEPT ![x] = new] /\ event' = event
      BY <2>1, <2>4, <3>1, <3>2 DEF Becomes
    <3>4. new.pc = "embedding" /\ new.job = e /\ new.batch = held.batch
      BY <1>1, <3>2 DEF WorkerRecord
    <3>5. e # 0
      BY <1>1, <2>1 DEF HeldIn
    <3>6. SyncIn(new, event, vector, check)
      BY <1>1, <3>4, <3>5 DEF SyncIn
    <3> QED BY <2>2, <3>3, <3>6, HoldSync
  <2> QED BY <2>3, <2>4
<1>3. CASE BuildKnowledgeProjection(x)
  <2>1. CASE ~Eligible(held.item)
    BY <1>1, <1>3, <2>1, RefusedSync DEF BuildKnowledgeProjection
  <2>2. CASE Eligible(held.item)
    <3>1. PICK m : worker' = [worker EXCEPT ![x] = [held EXCEPT !.pc = "built", !.manifest = m]]
      BY <1>1, <1>3, <2>2 DEF BuildKnowledgeProjection, Becomes
    <3>2. PICK new : new = [held EXCEPT !.pc = "built", !.manifest = m]
      OBVIOUS
    <3>3. new.pc = "built" /\ new.job = held.job /\ new.batch = held.batch
      BY <1>1, <3>2 DEF WorkerRecord
    <3>4. SyncIn(new, event, vector, check)
      BY <1>1, <1>3, <3>3 DEF SyncIn, BuildKnowledgeProjection
    <3>5. UNCHANGED <<event, vector, check>>
      BY <1>1, <1>3, <2>2 DEF BuildKnowledgeProjection
    <3> QED BY <3>1, <3>2, <3>4, <3>5, HoldSync
  <2> QED BY <2>1, <2>2
<1>4. CASE Upsert(x)
  <2>1. PICK new : new = [held EXCEPT !.pc = "verifying"]
    OBVIOUS
  <2>2. /\ worker' = [worker EXCEPT ![x] = new] /\ vector' = [vector EXCEPT ![held.item] = held.manifest]
        /\ UNCHANGED <<event, check>> /\ held.pc = "built"
    BY <1>1, <1>4, <2>1 DEF Upsert, Becomes
  <2>3. new.pc = "verifying" /\ new.job = held.job /\ new.batch = held.batch
    BY <1>1, <2>1 DEF WorkerRecord
  <2>4. held.job # 0 /\ held.job \in held.batch /\ held.item = event[held.job].item /\ ~event[held.job].completed
    BY <1>1, <2>2 DEF SyncIn, HeldIn
  <2>5. SyncIn(new, event', vector', check')
    BY <1>1, <2>2, <2>3, <2>4 DEF SyncIn
  <2>6. AgreedIn(event', vector', check')
    <3>1. held.job \in 1 .. Len(event)
      BY <1>1, <2>4 DEF HeldIn
    <3>2. ASSUME NEW i \in Items, i # held.item PROVE vector'[i] = vector[i]
      BY <2>2, <3>2 DEF Inv, TypeOK
    <3> QED BY <2>2, <2>4, <3>1, <3>2 DEF SingleInv, AgreedIn
  <2>7. worker'[x] = new
    BY <2>2 DEF Inv, TypeOK
  <2> QED BY <2>5, <2>6, <2>7 DEF SingleInv
<1>5. CASE VerifyKnowledgeProjection(x)
  <2>1. CASE vector[held.item] # held.manifest
    BY <1>1, <1>5, <2>1, RefusedSync DEF VerifyKnowledgeProjection
  <2>2. CASE vector[held.item] = held.manifest
    <3>1. PICK new : new = [held EXCEPT !.pc = "recording"]
      OBVIOUS
    <3>2. worker' = [worker EXCEPT ![x] = new] /\ UNCHANGED <<event, vector, check>> /\ held.pc = "verifying"
      BY <1>1, <1>5, <2>2, <3>1 DEF VerifyKnowledgeProjection, Becomes
    <3>3. /\ new.pc = "recording" /\ new.job = held.job /\ new.batch = held.batch
          /\ new.item = held.item /\ new.manifest = held.manifest
      BY <1>1, <3>1 DEF WorkerRecord
    <3>4. SyncIn(new, event, vector, check)
      BY <1>1, <2>2, <3>2, <3>3 DEF SyncIn
    <3> QED BY <3>2, <3>4, HoldSync
  <2> QED BY <2>1, <2>2
<1>6. CASE GetRefreshed(x)
  <2>1. CASE ~Eligible(held.item)
    BY <1>1, <1>6, <2>1, RefusedSync DEF GetRefreshed
  <2>2. CASE Eligible(held.item)
    <3>1. PICK new : new = [held EXCEPT !.pc = "rereading"]
      OBVIOUS
    <3>2. worker' = [worker EXCEPT ![x] = new] /\ UNCHANGED <<event, vector, check>>
      BY <1>1, <1>6, <2>2, <3>1 DEF GetRefreshed, Becomes
    <3>3. new.pc = "rereading" /\ new.batch = held.batch
      BY <1>1, <3>1 DEF WorkerRecord
    <3>4. SyncIn(new, event, vector, check)
      BY <1>1, <3>3 DEF SyncIn
    <3> QED BY <3>2, <3>4, HoldSync
  <2> QED BY <2>1, <2>2
<1>7. CASE KnowledgeProjection(x)
  <2>1. CASE check[held.item] = None
    BY <1>1, <1>7, <2>1, RefusedSync DEF KnowledgeProjection
  <2>2. CASE check[held.item] # None
    <3>1. PICK m : m = check[held.item]
      OBVIOUS
    <3>2. PICK new : new = [held EXCEPT !.pc = "verifying", !.manifest = m]
      OBVIOUS
    <3>3. worker' = [worker EXCEPT ![x] = new] /\ UNCHANGED <<event, vector, check>>
      BY <1>1, <1>7, <2>2, <3>1, <3>2 DEF KnowledgeProjection, Becomes
    <3>4. new.pc = "verifying" /\ new.batch = held.batch /\ new.item = held.item /\ new.manifest = m
      BY <1>1, <3>2 DEF WorkerRecord
    <3>5. SyncIn(new, event, vector, check)
      BY <1>1, <3>1, <3>4 DEF SyncIn
    <3> QED BY <3>3, <3>5, HoldSync
  <2> QED BY <2>1, <2>2
<1> QED BY <1>2, <1>3, <1>4, <1>5, <1>6, <1>7

\* What is recorded is what the vector store was read to hold.
LEMMA RecordSync ==
    ASSUME Inv, NEW x \in Workers, SingleInv(x), RecordProjectionCheck(x)
    PROVE  SingleInv(x)'
<1>1. PICK held \in WorkerRecord :
         /\ held = worker[x] /\ HeldIn(held, event) /\ SyncIn(held, event, vector, check) /\ held.pc = "recording"
  BY DEF Inv, TypeOK, WorkHeld, SingleInv, RecordProjectionCheck
<1>2. CASE ~Recordable(x)
  BY <1>2, RefusedSync DEF RecordProjectionCheck
<1>3. CASE Recordable(x)
  <2>1. PICK new : new = IF held.job = 0 THEN Idle ELSE [held EXCEPT !.pc = "recorded"]
    OBVIOUS
  <2>2. /\ worker' = [worker EXCEPT ![x] = new] /\ check' = [check EXCEPT ![held.item] = held.manifest]
        /\ UNCHANGED <<event, vector>>
    BY <1>1, <1>3, <2>1 DEF RecordProjectionCheck, Becomes
  <2>3. held.item \in Items /\ vector[held.item] = held.manifest
    BY <1>1 DEF HeldIn, SyncIn
  <2>4. check'[held.item] = held.manifest /\ \A i \in Items : i # held.item => check'[i] = check[i]
    BY <2>2, <2>3 DEF Inv, TypeOK
  <2>5. AgreedIn(event', vector', check')
    BY <2>2, <2>3, <2>4 DEF SingleInv, AgreedIn
  <2>6. SyncIn(new, event', vector', check')
    <3>1. CASE held.job = 0
      <4>1. \A d \in worker[x].batch : ~event'[d].completed
        BY <1>1, <2>2 DEF SyncIn
      <4> QED BY <2>1, <3>1, <4>1, NextJobSync
    <3>2. CASE held.job # 0
      <4>1. /\ new.pc = "recorded" /\ new.batch = held.batch /\ new.item = held.item
            /\ new.manifest = held.manifest
        BY <1>1, <2>1, <3>2 DEF WorkerRecord
      <4> QED BY <1>1, <2>2, <2>3, <2>4, <4>1 DEF SyncIn
    <3> QED BY <3>1, <3>2
  <2>7. worker'[x] = new
    BY <2>2 DEF Inv, TypeOK
  <2> QED BY <2>5, <2>6, <2>7 DEF SingleInv
<1> QED BY <1>2, <1>3

\* A job is completed when vector and check agree.
LEMMA CompleteSync ==
    ASSUME Inv, NEW x \in Workers, SingleInv(x), CompleteOutbox(x)
    PROVE  SingleInv(x)'
<1>1. PICK held \in WorkerRecord :
         /\ held = worker[x] /\ HeldIn(held, event) /\ SyncIn(held, event, vector, check) /\ held.pc = "recorded"
         /\ held.job # 0
  BY DEF Inv, TypeOK, WorkHeld, SingleInv, CompleteOutbox, Ready
<1>2. PICK e \in Events : e = held.job /\ e \in held.batch /\ held.item = event[e].item
  BY <1>1 DEF HeldIn, Events
<1>3. event[e] \in EventRecord /\ TypeOK /\ Len(event) \in Nat
  BY DEF Inv, TypeOK, Events
<1>4. PICK row : row = [event[e] EXCEPT !.completed = TRUE, !.lock = "free"]
  OBVIOUS
<1>5. /\ event' = [event EXCEPT ![e] = row] /\ worker' = [worker EXCEPT ![x] = NextJob(x, e)]
      /\ UNCHANGED <<vector, check>>
  BY <1>1, <1>2, <1>4 DEF CompleteOutbox, Becomes
<1>6. row \in EventRecord /\ row.item = event[e].item
  BY <1>3, <1>4 DEF EventRecord
<1>7. Len(event') = Len(event) /\ \A d \in Events : d # e => event'[d] = event[d]
  BY <1>3, <1>5, <1>6, RowKeeps
<1>8. held.batch \subseteq Events
  BY <1>1 DEF HeldIn, Events
<1>9. \A d \in worker[x].batch \ {e} : ~event'[d].completed
  BY <1>1, <1>7, <1>8 DEF SyncIn
<1>10. SyncIn(NextJob(x, e), event', vector', check')
  BY <1>9, NextJobSync
<1>11. AgreedIn(event', vector', check')
  <2> SUFFICES ASSUME NEW i \in Items, vector[i] # check[i]
               PROVE  \E d \in 1 .. Len(event') : event'[d].item = i /\ ~event'[d].completed
    BY <1>5 DEF AgreedIn
  <2>1. PICK d \in Events : event[d].item = i /\ ~event[d].completed
    BY DEF SingleInv, AgreedIn, Events
  <2>2. vector[held.item] = check[held.item]
    BY <1>1 DEF SyncIn
  <2>3. d # e
    BY <1>2, <2>1, <2>2
  <2> QED BY <1>7, <2>1, <2>3 DEF Events
<1>12. worker'[x] = NextJob(x, e)
  BY <1>5 DEF Inv, TypeOK
<1> QED BY <1>10, <1>11, <1>12 DEF SingleInv

\* A worker that dies, begins a refresh or records a source check.
LEMMA OtherSync ==
    ASSUME Inv, NEW x \in Workers, SingleInv(x),
           Crash(x) \/ (\E i \in Items : BeginRefresh(x, i)) \/ (\E b \in BOOLEAN : RecordSourceCheck(x, b))
    PROVE  SingleInv(x)'
<1>1. PICK held \in WorkerRecord : held = worker[x] /\ SyncIn(held, event, vector, check)
  BY DEF Inv, TypeOK, SingleInv
<1>2. CASE Crash(x)
  BY <1>2, IdleSync DEF Crash, Becomes
<1>3. ASSUME NEW i \in Items, BeginRefresh(x, i) PROVE SingleInv(x)'
  <2>1. PICK a : a = item[i].approval
    OBVIOUS
  <2>2. PICK new : new = [Idle EXCEPT !.pc = "checking", !.item = i, !.approval = a]
    OBVIOUS
  <2>3. worker' = [worker EXCEPT ![x] = new] /\ UNCHANGED <<event, vector, check>>
    BY <1>3, <2>1, <2>2 DEF BeginRefresh, Becomes
  <2>4. new.pc = "checking" /\ new.batch = {}
    BY <2>2 DEF Idle
  <2>5. SyncIn(new, event, vector, check)
    BY <2>4 DEF SyncIn
  <2> QED BY <2>3, <2>5, HoldSync
<1>4. ASSUME NEW b \in BOOLEAN, RecordSourceCheck(x, b) PROVE SingleInv(x)'
  <2>1. CASE Refused(x)
    BY <2>1, RefusedSync
  <2>2. CASE ~Refused(x)
    <3>1. PICK new : new = IF b THEN [held EXCEPT !.pc = "checked"] ELSE Idle
      OBVIOUS
    <3>2. worker' = [worker EXCEPT ![x] = new] /\ UNCHANGED <<event, vector, check>>
      BY <1>1, <1>4, <2>2, <3>1 DEF RecordSourceCheck, Becomes
    <3>3. CASE ~b
      BY <3>1, <3>2, <3>3, IdleSync
    <3>4. CASE b
      <4>1. new.pc = "checked" /\ new.batch = held.batch
        BY <1>1, <3>1, <3>4 DEF WorkerRecord
      <4>2. SyncIn(new, event, vector, check)
        BY <1>1, <4>1 DEF SyncIn
      <4> QED BY <3>2, <4>2, HoldSync
    <3> QED BY <3>3, <3>4
  <2> QED BY <2>1, <2>2
<1> QED BY <1>2, <1>3, <1>4

\* The claimed jobs are open.
LEMMA ClaimSync ==
    ASSUME Inv, NEW x \in Workers, SingleInv(x), ClaimOutbox(x)
    PROVE  SingleInv(x)'
<1>1. JobsKept /\ NoneCompleted
  BY ClaimStep
<1>2. PICK batch, spent : batch = Batch /\ spent = {e \in Batch : event[e].attempts >= MaxAttempts}
  OBVIOUS
<1>3. PICK new : new = [Idle EXCEPT !.pc = "working", !.batch = batch, !.spent = spent]
  OBVIOUS
<1>4. worker' = [worker EXCEPT ![x] = new] /\ UNCHANGED <<vector, check>>
  BY <1>2, <1>3 DEF ClaimOutbox, Becomes
<1>5. new.pc = "working" /\ new.batch = batch
  BY <1>3 DEF Idle
<1>6. \A e \in batch : e \in Events /\ ~event[e].completed
  BY <1>2 DEF Batch, Claimable
<1>7. \A e \in batch : ~event'[e].completed
  BY <1>1, <1>6 DEF NoneCompleted, JobsKept, Events, Inv, TypeOK
<1>8. SyncIn(new, event', vector', check')
  BY <1>5, <1>7 DEF SyncIn
<1>9. AgreedIn(event', vector', check')
  BY <1>1, <1>4, AgreedKept DEF SingleInv
<1>10. worker'[x] = new
  BY <1>4 DEF Inv, TypeOK
<1> QED BY <1>8, <1>9, <1>10 DEF SingleInv

\* Every step keeps what is known of a single worker.
LEMMA NextOneWorker == Inv /\ OneWorkerInv /\ [Next]_vars => OneWorkerInv'
<1> SUFFICES ASSUME Inv, OneWorkerInv, [Next]_vars, NEW x \in Workers, Workers = {x} PROVE SingleInv(x)'
  BY DEF OneWorkerInv
<1>0. SingleInv(x) /\ (\A w \in Workers : w = x) /\ TypeOK
  BY DEF OneWorkerInv, Inv
<1>1. CASE UNCHANGED vars
  BY <1>0, <1>1 DEF vars, SingleInv
<1>2. ASSUME NEW i \in Items, (\E s \in Sources : Approve(i, s)) \/ ValidationExpires(i)
      PROVE  SingleInv(x)'
  <2>1. CASE ValidationExpires(i)
    BY <1>0, <2>1 DEF ValidationExpires, SingleInv
  <2>2. ASSUME NEW s \in Sources, Approve(i, s) PROVE SingleInv(x)'
    <3>1. JobsKept /\ NoneCompleted
      BY <1>0, <2>2, AppendKeeps DEF Approve, Enqueue
    <3> QED BY <1>0, <2>2, <3>1, SyncKept DEF Approve
  <2> QED BY <1>2, <2>1, <2>2
<1>3. ASSUME NEW e \in Events, RetryKnowledgeIndex(e) \/ LockExpires(e) \/ BackoffEnds(e)
      PROVE  SingleInv(x)'
  <2>1. JobsKept /\ NoneCompleted
    BY <1>3, RetryStep, TimeStep
  <2>2. UNCHANGED <<worker, vector, check>>
    BY <1>3 DEF RetryKnowledgeIndex, LockExpires, BackoffEnds
  <2> QED BY <1>0, <2>1, <2>2, SyncKept
<1>4. ASSUME ClaimOutbox(x) \/ Process(x) \/ Crash(x)
      PROVE  SingleInv(x)'
  <2>1. ASSUME JobFails(x) \/ RetryLimitExceeded(x) PROVE SingleInv(x)'
    <3>1. PICK e \in worker[x].batch : FailOutbox(x, e)
      BY <2>1 DEF JobFails, RetryLimitExceeded
    <3>2. UNCHANGED <<vector, check>>
      BY <2>1 DEF JobFails, RetryLimitExceeded
    <3> QED BY <1>0, <3>1, <3>2, FailSync
  <2> QED BY <1>0, <1>4, <2>1, ClaimSync, HandleSync, RecordSync, CompleteSync, OtherSync DEF Process
<1>5. ASSUME NEW i \in Items, BeginRefresh(x, i)
      PROVE  SingleInv(x)'
  BY <1>0, <1>5, OtherSync
<1>6. CASE RequeueApprovedKnowledge
  <2>1. JobsKept /\ NoneCompleted
    BY <1>6, RequeueStep
  <2> QED BY <1>0, <1>6, <2>1, SyncKept DEF RequeueApprovedKnowledge
<1> QED BY <1>0, <1>1, <1>2, <1>3, <1>4, <1>5, <1>6 DEF Next

LEMMA InitOneWorker == Init => OneWorkerInv
<1> SUFFICES ASSUME Init, NEW x \in Workers PROVE SingleInv(x)
  BY DEF OneWorkerInv
<1>1. worker[x] = Idle /\ \A i \in Items : vector[i] = check[i]
  BY DEF Init
<1>2. SyncIn(Idle, event, vector, check)
  BY DEF SyncIn, Idle
<1> QED BY <1>1, <1>2 DEF SingleInv, AgreedIn

\* "The outbox worker completes knowledge.upsert before semantic search is
\* expected to return the improvement" holds of a single worker: whatever
\* crash, failure, refresh, retry or re-approval happened, once the jobs of an
\* eligible item are completed and the worker is idle, the vector store holds the
\* manifest recorded last, and it is of the item's sources.
THEOREM SearchableWithOneWorker ==
    ASSUME NEW x, Workers = {x}
    PROVE  Spec => []SearchableOnceDrained
<1>1. Inv /\ OneWorkerInv => SearchableOnceDrained
  <2> SUFFICES ASSUME Inv, OneWorkerInv, NEW i \in Items, Eligible(i), Unfinished(i) = {} PROVE Searchable(i)
    BY DEF SearchableOnceDrained
  <2>1. SingleInv(x)
    BY DEF OneWorkerInv
  <2>2. \A e \in Events : event[e].item = i => event[e].completed
    BY DEF Unfinished
  <2>3. vector[i] = check[i]
    BY <2>1, <2>2 DEF SingleInv, AgreedIn, Events
  <2>4. event[item[i].approval].completed /\ item[i].approval # 0
    BY <2>2 DEF Inv, ApprovalsHaveJobs, Eligible
  <2>5. check[i] # None /\ check[i].source = item[i].source
    BY <2>4 DEF Inv, CompletedApprovalIsProjected
  <2> QED BY <2>3, <2>5 DEF Searchable
<1> QED BY InitInv, NextInv, InitOneWorker, NextOneWorker, <1>1, PTL DEF Spec

-----------------------------------------------------------------------------
(* A job that is finished rests.  Neither CompleteOutbox nor FailOutbox    *)
(* asks whose claim it is, so a worker may report on a job that another    *)
(* has finished; what keeps the job finished is that its attempts are not  *)
(* counted any more and that a failed job has used them up.                *)

\* FailOutbox marks a job failed only when its attempts are used up.
SpentRow(row) == row.failed => row.attempts >= MaxAttempts
FailedAreSpent == \A e \in Events : SpentRow(event[e])

\* One job, before and after a step.
RowRests(old, new) ==
    /\ new.item = old.item /\ new.attempts >= old.attempts
    /\ old.completed => new.completed
    /\ old.failed => new.failed
    /\ old.retried => new.retried
    /\ old.completed \/ old.failed => new.attempts = old.attempts

\* No step loses a job, reopens one or claims a finished one, and none takes
\* back that a failed job has had its replacement (ClaimOutbox, CompleteOutbox,
\* FailOutbox, RetryKnowledgeIndex).
FinishedJobsRest ==
    [][Len(event') >= Len(event) /\ \A e \in Events : RowRests(event[e], event'[e])]_vars

\* What every step does to the jobs.
JobsStep ==
    /\ Len(event') >= Len(event)
    /\ \A e \in Events : RowRests(event[e], event'[e])
    /\ FailedAreSpent'

\* Leaving the jobs alone.
LEMMA SameJobs ==
    ASSUME Inv, FailedAreSpent, UNCHANGED event
    PROVE  JobsStep
<1>1. \A e \in Events : event[e] \in EventRecord
  BY DEF Inv, TypeOK, Events
<1>2. Len(event) \in Nat /\ Events' = Events
  BY DEF Inv, TypeOK, Events
<1> QED BY <1>1, <1>2 DEF JobsStep, RowRests, FailedAreSpent, SpentRow, EventRecord

\* Writing one row.
LEMMA RowStep ==
    ASSUME Inv, FailedAreSpent, NEW e \in Events, NEW row \in EventRecord,
           RowRests(event[e], row), SpentRow(row), event' = [event EXCEPT ![e] = row]
    PROVE  JobsStep
<1>0. \A d \in Events : event[d] \in EventRecord
  BY DEF Inv, TypeOK, Events
<1>1. \A d \in Events : RowRests(event[d], event[d])
  BY <1>0 DEF RowRests, EventRecord
<1>2. /\ Len(event') = Len(event) /\ event'[e] = row
      /\ \A d \in Events : d # e => event'[d] = event[d]
  BY RowKeeps DEF Inv, RowRests
<1>3. Len(event) \in Nat /\ Events' = Events
  BY <1>2 DEF Inv, TypeOK, Events
<1> QED BY <1>1, <1>2, <1>3 DEF JobsStep, FailedAreSpent

\* A late failure marks a job failed only if its attempts are used up, and
\* counts none.
LEMMA FailRests ==
    ASSUME Inv, FailedAreSpent, NEW w \in Workers, NEW e \in Events, FailOutbox(w, e)
    PROVE  JobsStep
<1> DEFINE over == event[e].attempts >= MaxAttempts
           row == [event[e] EXCEPT !.lock = "free", !.due = FALSE, !.failed = over]
<1>1. event[e] \in EventRecord /\ SpentRow(event[e])
  BY DEF Inv, TypeOK, Events, FailedAreSpent
<1>2. over \in BOOLEAN /\ event[e].attempts \in Nat
  BY <1>1, IndexAssumption DEF EventRecord
<1>3. event' = [event EXCEPT ![e] = row]
  BY DEF FailOutbox
<1>4. event[e].failed => over
  BY <1>1 DEF SpentRow
<1>5. over => event[e].attempts >= MaxAttempts
  OBVIOUS
<1> HIDE DEF over
<1>6. /\ row \in EventRecord /\ row.item = event[e].item /\ row.completed = event[e].completed
      /\ row.attempts = event[e].attempts /\ row.retried = event[e].retried /\ row.failed = over
  BY <1>1, <1>2 DEF EventRecord
<1> HIDE DEF row
<1>7. RowRests(event[e], row) /\ SpentRow(row)
  BY <1>2, <1>4, <1>5, <1>6 DEF RowRests, SpentRow
<1> QED BY <1>3, <1>6, <1>7, RowStep

\* Only jobs that are open are claimed, and only a claim counts an attempt.
LEMMA ClaimRests ==
    ASSUME Inv, FailedAreSpent, NEW w \in Workers, ClaimOutbox(w)
    PROVE  JobsStep
<1>1. event \in Seq(EventRecord) /\ Len(event) \in Nat /\ Events = 1 .. Len(event)
  BY DEF Inv, TypeOK, Events
<1>2. PICK batch : batch = Batch
  OBVIOUS
<1>3. PICK new : new = [e \in Events |-> IF e \in batch THEN [event[e] EXCEPT !.lock = "held", !.attempts = @ + 1]
                                         ELSE event[e]]
  OBVIOUS
<1>4. event' = new
  BY <1>2, <1>3 DEF ClaimOutbox
<1>5. ASSUME NEW e \in Events PROVE new[e] \in EventRecord /\ RowRests(event[e], new[e]) /\ SpentRow(new[e])
  <2>1. event[e] \in EventRecord /\ SpentRow(event[e])
    BY <1>1 DEF FailedAreSpent
  <2>2. PICK n \in Nat : n = event[e].attempts + 1
    BY <2>1 DEF EventRecord
  <2>3. CASE e \notin batch
    <3>1. new[e] = event[e]
      BY <1>3, <2>3
    <3> QED BY <2>1, <3>1 DEF RowRests, EventRecord
  <2>4. CASE e \in batch
    <3>1. ~event[e].completed /\ ~event[e].failed
      BY <1>2, <2>4 DEF Batch, Claimable
    <3>2. new[e] = [event[e] EXCEPT !.lock = "held", !.attempts = n]
      BY <1>3, <2>2, <2>4
    <3>3. /\ new[e] \in EventRecord /\ new[e].item = event[e].item /\ new[e].attempts = n
          /\ new[e].completed = event[e].completed /\ new[e].failed = event[e].failed
          /\ new[e].retried = event[e].retried
      BY <2>1, <2>2, <3>2 DEF EventRecord
    <3>4. event[e].attempts \in Nat
      BY <2>1 DEF EventRecord
    <3> QED BY <2>2, <3>1, <3>3, <3>4 DEF RowRests, SpentRow
  <2> QED BY <2>3, <2>4
<1>6. new \in Seq(EventRecord) /\ Len(new) = Len(event)
  <2>1. DOMAIN new = 1 .. Len(event) /\ new = [e \in 1 .. Len(event) |-> new[e]]
    BY <1>1, <1>3
  <2> QED BY <1>1, <1>5, <2>1, IsASeq, LenProperties
<1>7. Events' = Events
  BY <1>1, <1>4, <1>6 DEF Events
<1> QED BY <1>1, <1>4, <1>5, <1>6, <1>7 DEF JobsStep, FailedAreSpent

\* New jobs come after the ones there are.
LEMMA AddRests ==
    ASSUME Inv, FailedAreSpent,
           NEW marked \in Seq(EventRecord), Len(marked) = Len(event),
           \A e \in Events : RowRests(event[e], marked[e]) /\ SpentRow(marked[e]),
           NEW added \in Seq(EventRecord), \A k \in 1 .. Len(added) : ~added[k].failed,
           event' = marked \o added
    PROVE  JobsStep
<1>1. Len(event) \in Nat /\ Len(added) \in Nat /\ Events = 1 .. Len(event)
  BY DEF Inv, TypeOK, Events
<1>2. /\ Len(event') = Len(event) + Len(added)
      /\ \A e \in 1 .. Len(event) : event'[e] = marked[e]
      /\ \A e \in Len(event) + 1 .. Len(event) + Len(added) : event'[e] = added[e - Len(event)]
  <2>1. PICK new : new = marked \o added
    OBVIOUS
  <2>2. /\ Len(new) = Len(marked) + Len(added)
        /\ \A e \in 1 .. Len(marked) : new[e] = marked[e]
        /\ \A e \in Len(marked) + 1 .. Len(marked) + Len(added) : new[e] = added[e - Len(marked)]
    <3>1. Len(marked) \in Nat
      OBVIOUS
    <3>2. /\ Len(new) = Len(marked) + Len(added)
          /\ \A e \in 1 .. Len(marked) + Len(added) :
                new[e] = IF e <= Len(marked) THEN marked[e] ELSE added[e - Len(marked)]
      BY <2>1, ConcatProperties
    <3> QED BY <1>1, <3>1, <3>2
  <2> QED BY <2>1, <2>2
<1>3. ASSUME NEW e \in Events' PROVE SpentRow(event'[e])
  <2>1. e \in 1 .. Len(event) + Len(added)
    BY <1>2, <1>3 DEF Events
  <2>2. CASE e \in 1 .. Len(event)
    BY <1>1, <1>2, <2>2
  <2>3. CASE e \notin 1 .. Len(event)
    <3>1. e \in Len(event) + 1 .. Len(event) + Len(added) /\ e - Len(event) \in 1 .. Len(added)
      BY <1>1, <2>1, <2>3
    <3> QED BY <1>2, <3>1 DEF SpentRow
  <2> QED BY <2>2, <2>3
<1>4. FailedAreSpent'
  BY <1>3 DEF FailedAreSpent
<1> QED BY <1>1, <1>2, <1>4 DEF JobsStep

\* The producers of jobs.
LEMMA ProducersRest ==
    ASSUME Inv, FailedAreSpent,
           \/ \E i \in Items, s \in Sources : Approve(i, s)
           \/ RequeueApprovedKnowledge
           \/ \E e \in Events : RetryKnowledgeIndex(e)
    PROVE  JobsStep
<1>1. event \in Seq(EventRecord) /\ Len(event) \in Nat /\ Events = 1 .. Len(event)
  BY DEF Inv, TypeOK, Events
<1>2. \A e \in Events : event[e] \in EventRecord /\ RowRests(event[e], event[e]) /\ SpentRow(event[e])
  <2>1. \A e \in Events : event[e] \in EventRecord
    BY <1>1
  <2>2. \A e \in Events : RowRests(event[e], event[e])
    BY <2>1 DEF RowRests, EventRecord
  <2> QED BY <2>1, <2>2 DEF FailedAreSpent
<1>3. ASSUME NEW i \in Items, NEW marked \in Seq(EventRecord), Len(marked) = Len(event),
             \A e \in Events : RowRests(event[e], marked[e]) /\ SpentRow(marked[e]),
             event' = Append(marked, NewEvent(i))
      PROVE  JobsStep
  <2>1. PICK new \in EventRecord : new = NewEvent(i) /\ ~new.failed
    BY NewEventType DEF NewEvent
  <2>2. event' = marked \o <<new>> /\ <<new>> \in Seq(EventRecord) /\ Len(<<new>>) = 1 /\ <<new>>[1] = new
    BY <1>3, <2>1, AppendIsConcat
  <2>3. \A k \in 1 .. Len(<<new>>) : ~(<<new>>[k]).failed
    BY <2>1, <2>2
  <2> QED BY <1>3, <2>2, <2>3, AddRests
<1>4. CASE \E i \in Items, s \in Sources : Approve(i, s)
  BY <1>1, <1>2, <1>3, <1>4 DEF Approve, Enqueue
<1>5. CASE RequeueApprovedKnowledge
  <2> DEFINE ready == {i \in Items : Eligible(i)}
             n == Cardinality(ready)
  <2>1. PICK order \in [1 .. n -> ready] : event' = event \o [k \in 1 .. n |-> NewEvent(order[k])]
    BY <1>5 DEF RequeueApprovedKnowledge
  <2> DEFINE added == [k \in 1 .. n |-> NewEvent(order[k])]
  <2>2. ready \subseteq Items /\ IsFiniteSet(ready)
    BY IndexAssumption, FS_Subset
  <2>3. n \in Nat
    BY <2>2, FS_CardinalityType
  <2> HIDE DEF n, ready
  <2>4. \A k \in 1 .. n : added[k] \in EventRecord /\ added[k].failed = FALSE
    BY <2>2, NewEventType DEF NewEvent
  <2>5. added \in Seq(EventRecord) /\ Len(added) = n
    BY <2>3, <2>4, IsASeq, LenProperties
  <2>6. event' = event \o added
    BY <2>1
  <2> HIDE DEF added
  <2> QED BY <1>1, <1>2, <2>4, <2>5, <2>6, AddRests
<1>6. ASSUME NEW e \in Events, RetryKnowledgeIndex(e) PROVE JobsStep
  <2>1. PICK row : row = [event[e] EXCEPT !.retried = TRUE]
    OBVIOUS
  <2>2. PICK marked : marked = [event EXCEPT ![e] = row]
    OBVIOUS
  <2>3. event' = Append(marked, NewEvent(event[e].item))
    BY <1>6, <2>1, <2>2 DEF RetryKnowledgeIndex
  <2>4. /\ row \in EventRecord /\ row.item = event[e].item /\ row.completed = event[e].completed
        /\ row.attempts = event[e].attempts /\ row.retried /\ row.failed = event[e].failed
    BY <1>2, <2>1 DEF EventRecord
  <2>5. event[e].item \in Items /\ event[e].attempts \in Nat
    BY <1>2 DEF EventRecord
  <2>6. RowRests(event[e], row) /\ SpentRow(row)
    BY <1>2, <2>4, <2>5 DEF RowRests, SpentRow
  <2>7. marked \in Seq(EventRecord) /\ Len(marked) = Len(event)
        /\ \A d \in 1 .. Len(event) : marked[d] = IF d = e THEN row ELSE event[d]
    BY <1>1, <2>2, <2>4, ExceptSeq
  <2> QED BY <1>1, <1>2, <1>3, <2>3, <2>5, <2>6, <2>7
<1> QED BY <1>4, <1>5, <1>6

\* What a worker and time do to the jobs.
LEMMA WorkRests ==
    ASSUME Inv, FailedAreSpent,
           \/ \E w \in Workers : Process(w) \/ Crash(w)
           \/ \E e \in Events : LockExpires(e) \/ BackoffEnds(e)
    PROVE  JobsStep
<1>1. \A e \in Events : event[e] \in EventRecord /\ SpentRow(event[e])
  BY DEF Inv, TypeOK, Events, FailedAreSpent
<1>2. \A w \in Workers : worker[w].batch \subseteq Events /\ (worker[w].job # 0 => worker[w].job \in Events)
  BY DEF Inv, WorkHeld, HeldIn, Events
<1>3. \A w \in Workers : Refused(w) => JobsStep
  BY <1>2, SameJobs, FailRests DEF Refused
<1>4. ASSUME NEW e \in Events, NEW row,
             /\ \/ row = [event[e] EXCEPT !.lock = "stale"]
                \/ row = [event[e] EXCEPT !.due = TRUE]
                \/ row = [event[e] EXCEPT !.completed = TRUE, !.lock = "free"],
             event' = [event EXCEPT ![e] = row]
      PROVE  JobsStep
  <2>1. /\ row \in EventRecord /\ row.item = event[e].item
        /\ row.attempts = event[e].attempts /\ row.retried = event[e].retried /\ row.failed = event[e].failed
        /\ event[e].completed => row.completed
    BY <1>1, <1>4 DEF EventRecord
  <2>2. event[e].attempts \in Nat
    BY <1>1 DEF EventRecord
  <2>3. RowRests(event[e], row) /\ SpentRow(row)
    BY <1>1, <2>1, <2>2 DEF RowRests, SpentRow
  <2> QED BY <1>4, <2>1, <2>3, RowStep
<1>5. ASSUME NEW e \in Events, LockExpires(e) \/ BackoffEnds(e) PROVE JobsStep
  BY <1>4, <1>5 DEF LockExpires, BackoffEnds
<1>6. ASSUME NEW w \in Workers, CompleteOutbox(w) PROVE JobsStep
  <2>1. worker[w].job \in Events
    BY <1>2, <1>6 DEF CompleteOutbox
  <2>2. event' = [event EXCEPT ![worker[w].job] = [event[worker[w].job] EXCEPT !.completed = TRUE, !.lock = "free"]]
    BY <1>6 DEF CompleteOutbox
  <2> QED BY <1>4, <2>1, <2>2
<1>7. ASSUME NEW w \in Workers, JobFails(w) \/ RetryLimitExceeded(w) \/ GetKnowledge(w) PROVE JobsStep
  BY <1>2, <1>7, SameJobs, FailRests DEF JobFails, RetryLimitExceeded, GetKnowledge
<1>8. ASSUME NEW w \in Workers,
             \/ BuildKnowledgeProjection(w) \/ VerifyKnowledgeProjection(w) \/ RecordProjectionCheck(w)
             \/ \E verified \in BOOLEAN : RecordSourceCheck(w, verified)
             \/ GetRefreshed(w) \/ KnowledgeProjection(w)
      PROVE  JobsStep
  BY <1>3, <1>8, SameJobs
     DEF BuildKnowledgeProjection, VerifyKnowledgeProjection, RecordProjectionCheck, RecordSourceCheck,
         GetRefreshed, KnowledgeProjection
<1>9. ASSUME NEW w \in Workers, Upsert(w) \/ Crash(w) PROVE JobsStep
  BY <1>9, SameJobs DEF Upsert, Crash
<1> QED BY <1>5, <1>6, <1>7, <1>8, <1>9 DEF Process

LEMMA NextJobs == Inv /\ FailedAreSpent /\ [Next]_vars => JobsStep
<1> SUFFICES ASSUME Inv, FailedAreSpent, [Next]_vars PROVE JobsStep
  OBVIOUS
<1>1. CASE UNCHANGED vars
  BY <1>1, SameJobs DEF vars
<1>2. ASSUME NEW i \in Items, ValidationExpires(i) PROVE JobsStep
  BY <1>2, SameJobs DEF ValidationExpires
<1>3. ASSUME NEW w \in Workers, NEW i \in Items, BeginRefresh(w, i) PROVE JobsStep
  BY <1>3, SameJobs DEF BeginRefresh
<1> QED BY <1>1, <1>2, <1>3, ProducersRest, WorkRests, ClaimRests DEF Next

\* A job, once enqueued, is never lost, and once completed or failed it stays so
\* and is not claimed again, whichever of two workers reports on it last and
\* however late; a failed job that an operator retried stays retried, so it is
\* replaced once (FailOutbox, CompleteOutbox, RetryKnowledgeIndex).
THEOREM FinishedJobs == Spec => FinishedJobsRest
<1>1. Init => FailedAreSpent
  <2> SUFFICES ASSUME Init PROVE Events = {}
    BY DEF FailedAreSpent
  <2> QED BY DEF Init, Events
<1>2. JobsStep => FailedAreSpent'
  BY DEF JobsStep
<1>3. JobsStep => Len(event') >= Len(event) /\ \A e \in Events : RowRests(event[e], event'[e])
  BY DEF JobsStep
<1>4. Spec => []Inv
  BY InitInv, NextInv, PTL DEF Spec
<1>5. Spec => []FailedAreSpent
  BY <1>1, <1>2, <1>4, NextJobs, PTL DEF Spec
<1> QED BY <1>3, <1>4, <1>5, NextJobs, PTL DEF Spec, FinishedJobsRest

=============================================================================

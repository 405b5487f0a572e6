------------------------------ MODULE CodeGraph ------------------------------
(***************************************************************************)
(* The code graph of one repository and its two projections                *)
(* (internal/service/service.go, internal/postgres/codegraph.go,           *)
(* internal/age/projection.go and store.go, internal/graph/fallback.go,    *)
(* internal/worker/worker.go, cmd/admin/main.go).                          *)
(*                                                                         *)
(* PostgreSQL keeps every analysis and points at the active one.  Jobs     *)
(* written with an analysis copy it to the Apache AGE graph and its        *)
(* symbols to the vector store; an operator may rebuild the AGE graph,     *)
(* queue the symbols again or compact their jobs.  The copies are read     *)
(* outside the transaction that writes them, and a question is answered    *)
(* by several reads, so each may meet an analysis stored in between.       *)
(***************************************************************************)
EXTENDS Common, Sequences, FiniteSets

CONSTANTS
    Symbols,      \* code entities, by stable key: their ID is the same in every analysis
    Root,         \* the symbol the questions are about
    Indexable,    \* symbols of a kind that is embedded and not external
    Snapshots,    \* what an analyzer may return: [ents, rels], a relation being a pair of symbols
    Replicas,     \* index workers
    Hops,         \* depth of a question
    MaxRuns, MaxRequeues, MaxRebuilds   \* bounds

Repo == "repository"   \* the vertex of the repository in the AGE graph
Admin == "admin"       \* the process of an age-rebuild

\* Symbols and the relations between them.
Graphs == [ents : SUBSET Symbols, rels : SUBSET (SUBSET Symbols)]

ASSUME CodeAssumption ==
    /\ Root \in Symbols /\ Indexable \subseteq Symbols /\ Repo \notin Symbols /\ Admin \notin Replicas
    /\ Snapshots \subseteq Graphs /\ IsFiniteSet(Replicas)
    /\ Hops \in Nat /\ MaxRuns \in Nat /\ MaxRequeues \in Nat /\ MaxRebuilds \in Nat

VARIABLES
    runs,         \* code_analysis_runs, with their occurrences and relations
    projectJobs,  \* open code_graph.project events, by run
    entityJobs,   \* open code_entity.upsert events
    queued,       \* the newest batch of entity events
    projected,    \* graph_projection_heads: the run of the AGE graph, 0 before any
    age,          \* the CodeEntity vertices of the AGE graph and the edges between them
    vectors,      \* [Symbols -> the run whose occurrence was embedded, 0 if none]
    task,         \* [Replicas and Admin -> what it is doing, or None]
    asking,       \* the question under way, or None
    answer,       \* the last answer, or None
    requeues, rebuilds   \* what an operator did, counted

\* A code_entity.upsert event, n numbering the batches; what a replica or a
\* rebuild holds while it copies the graph, and while it embeds symbols.
EntityEvent == [n : Nat, e : Indexable, locked : BOOLEAN]
ProjectTask == [step : {"check", "analysis", "hydrate", "write"}, run : Nat, analysis : Nat, graph : Graphs]
EmbedTask == [step : {"embed"}, unread : SUBSET EntityEvent, read : SUBSET [e : Symbols, run : Nat],
              batch : SUBSET EntityEvent]

\* A question under way and an answer, with the history of the projection.
Question == [step : {"verify", "traverse", "again", "hydrate", "fallback"}, run : Nat,
             ids : SUBSET Symbols, moved : {"no", "away", "back"}]
Answer == [backend : {"age", "recursive"}, run : Nat, graph : Graphs, moved : {"no", "away", "back"}]

ASSUME CodeRowAssumption ==
    None \notin ProjectTask /\ None \notin EmbedTask /\ None \notin Question /\ None \notin Answer

codeVars == <<runs, projectJobs, entityJobs, queued, projected, age, vectors, task, asking, answer,
              requeues, rebuilds>>

Nothing == [ents |-> {}, rels |-> {}]

CodeInit ==
    /\ runs = <<>> /\ projectJobs = {} /\ entityJobs = {} /\ queued = 0
    /\ projected = 0 /\ age = Nothing
    /\ vectors = [e \in Symbols |-> 0]
    /\ task = [p \in Replicas \cup {Admin} |-> None]
    /\ asking = None /\ answer = None /\ requeues = 0 /\ rebuilds = 0

\* code_repository_heads: the newest analysis is the active one, 0 before any.
Head0 == Len(runs)

-----------------------------------------------------------------------------
(* Analyses *)

\* Normalize: a relation between symbols that are not listed refuses the snapshot.
Normalized(s) == \A r \in s.rels : r \subseteq s.ents

\* The entity events of an analysis, all of one batch.
EntityEvents(ents) == {[n |-> queued + 1, e |-> e, locked |-> FALSE] : e \in ents \cap Indexable}

\* The projection jobs once the next analysis is stored.
ProjectionJobs == projectJobs \cup {Head0 + 1}

\* StoreCodeGraph: one transaction stores the run, makes it the active one
\* (whatever the age of the sources it is of) and queues its jobs.  The jobs
\* that embed single relations, each named by its run, are left out.
StoreCodeGraph(s) ==
    /\ Normalized(s)
    /\ runs' = Append(runs, s)
    /\ projectJobs' = ProjectionJobs
    /\ entityJobs' = entityJobs \cup EntityEvents(s.ents)
    /\ queued' = queued + 1

\* IndexCodeRepository: the analyzer may take long, so the snapshot need not be
\* newer than the ones stored meanwhile.
IndexCodeRepository ==
    /\ Head0 < MaxRuns
    /\ \E s \in Snapshots : StoreCodeGraph(s)
    /\ UNCHANGED <<projected, age, vectors, task, asking, answer, requeues, rebuilds>>

\* GetCodeEntity, GetCodeEntitiesMany: symbols with an occurrence in the active run.
Active == IF Head0 = 0 THEN {} ELSE runs[Head0].ents

\* HydrateCodeGraph: of the given symbols those the run lists, and the run's
\* relations between them; nothing once the run is not the active one.
HydrateCodeGraph(run, ids) ==
    IF run # Head0 THEN Nothing
    ELSE LET ents == ids \cap runs[run].ents
         IN [ents |-> ents, rels |-> {r \in runs[run].rels : r \subseteq ents}]

-----------------------------------------------------------------------------
(* Projection into AGE *)

Idle(p) == task[p] = None
Doing(p, step) == task[p] # None /\ task[p].step = step

\* ClaimOutbox hands a code_graph.project event to a replica.
ClaimProjection(w) ==
    /\ Idle(w)
    /\ \E run \in projectJobs :
           task' = [task EXCEPT ![w] = [step |-> "check", run |-> run, analysis |-> 0, graph |-> Nothing]]
    /\ UNCHANGED <<runs, projectJobs, entityJobs, queued, projected, age, vectors, asking, answer, requeues, rebuilds>>

\* Rebuild begins by listing the active runs.
StartRebuild ==
    /\ Idle(Admin) /\ rebuilds < MaxRebuilds /\ Head0 # 0
    /\ task' = [task EXCEPT ![Admin] = [step |-> "check", run |-> Head0, analysis |-> 0, graph |-> Nothing]]
    /\ rebuilds' = rebuilds + 1
    /\ UNCHANGED <<runs, projectJobs, entityJobs, queued, projected, age, vectors, asking, answer, requeues>>

\* GetActiveCodeGraphForRun first asks whether the run is active.  If not, a
\* job is done and a rebuild goes on without this repository.
CheckRun(p) ==
    /\ Doing(p, "check")
    /\ \/ /\ task[p].run = Head0
          /\ task' = [task EXCEPT ![p].step = "analysis"]
          /\ UNCHANGED projectJobs
       \/ /\ task[p].run # Head0 /\ p # Admin
          /\ task' = [task EXCEPT ![p] = None]
          /\ projectJobs' = projectJobs \ {task[p].run}
       \/ /\ task[p].run # Head0 /\ p = Admin
          /\ task' = [task EXCEPT ![p].step = "write"]
          /\ UNCHANGED projectJobs
    /\ UNCHANGED <<runs, entityJobs, queued, projected, age, vectors, asking, answer, requeues, rebuilds>>

\* ... then reads the active analysis of the repository, which need not be that run ...
ReadAnalysis(p) ==
    /\ Doing(p, "analysis")
    /\ task' = [task EXCEPT ![p].step = "hydrate", ![p].analysis = Head0]
    /\ UNCHANGED <<runs, projectJobs, entityJobs, queued, projected, age, vectors, asking, answer, requeues, rebuilds>>

\* ... and the symbols of the run as that analysis has them.  With none left it
\* fails: the job stays open, the rebuild ends.
ReadGraph(p) ==
    LET t == task[p]
        graph == HydrateCodeGraph(t.analysis, runs[t.run].ents)
    IN
    /\ Doing(p, "hydrate")
    /\ task' = [task EXCEPT ![p] =
           IF graph.ents = {} THEN None ELSE [t EXCEPT !.step = "write", !.graph = graph]]
    /\ UNCHANGED <<runs, projectJobs, entityJobs, queued, projected, age, vectors, asking, answer, requeues, rebuilds>>

\* History: whether the projection left the analysis of a question, and came
\* back, between the two verifications around its traversal.
Moved(analysis) ==
    IF asking = None \/ asking.step \notin {"traverse", "again"} THEN asking
    ELSE [asking EXCEPT !.moved = IF analysis # asking.run THEN "away" ELSE IF @ = "away" THEN "back" ELSE @]

\* projectCodeGraph: the symbols of the repository are replaced, and the head of
\* the projection is set to the analysis, in one transaction.
projectCodeGraph(analysis, graph) ==
    age' = graph /\ projected' = analysis /\ asking' = Moved(analysis)

\* ProjectCodeGraph writes, and the job is completed.
ProjectCodeGraph(w) ==
    /\ w \in Replicas /\ Doing(w, "write")
    /\ projectCodeGraph(task[w].analysis, task[w].graph)
    /\ projectJobs' = projectJobs \ {task[w].run}
    /\ task' = [task EXCEPT ![w] = None]
    /\ UNCHANGED <<runs, entityJobs, queued, vectors, answer, requeues, rebuilds>>

\* Rebuild clears the graph and its heads and writes what it has read.
Rebuild ==
    /\ Doing(Admin, "write")
    /\ projectCodeGraph(task[Admin].analysis, task[Admin].graph)
    /\ task' = [task EXCEPT ![Admin] = None]
    /\ UNCHANGED <<runs, projectJobs, entityJobs, queued, vectors, answer, requeues, rebuilds>>

\* Two copies of one event.
Same(j, k) == j.n = k.n /\ j.e = k.e
In(j, events) == \E k \in events : Same(j, k)

\* FailOutbox: the events may be claimed again at once.
FailOutbox(events) ==
    entityJobs' = {j \in entityJobs : ~In(j, events)}
                  \cup {[j EXCEPT !.locked = FALSE] : j \in {k \in entityJobs : In(k, events)}}

\* AGE or the database fails, or the process dies: the job is tried again.
TaskFails(p) ==
    /\ ~Idle(p)
    /\ task' = [task EXCEPT ![p] = None]
    /\ UNCHANGED <<runs, projectJobs, queued, projected, age, vectors, asking, answer, requeues, rebuilds>>
    /\ \/ UNCHANGED entityJobs                     \* the process died
       \/ Doing(p, "embed") /\ FailOutbox(task[p].batch)

-----------------------------------------------------------------------------
(* Embedding of the symbols *)

\* ClaimOutbox hands entity events to a replica.  An event whose claim is five
\* minutes old may be claimed again.
ClaimEntities(w) ==
    /\ Idle(w)
    /\ \E batch \in SUBSET entityJobs :
           /\ batch # {}
           /\ entityJobs' = (entityJobs \ batch) \cup {[j EXCEPT !.locked = TRUE] : j \in batch}
           /\ task' = [task EXCEPT ![w] = [step |-> "embed", unread |-> batch, read |-> {}, batch |-> batch]]
    /\ UNCHANGED <<runs, projectJobs, queued, projected, age, vectors, asking, answer, requeues, rebuilds>>

\* processCodeEntityBatch reads the symbols one by one.  One that is not in the
\* active run fails its event.
ReadEntity(w) ==
    LET t == task[w] IN
    /\ Doing(w, "embed")
    /\ \E j \in t.unread :
           \/ /\ j.e \in Active
              /\ task' = [task EXCEPT ![w] = [t EXCEPT !.unread = t.unread \ {j},
                                              !.read = t.read \cup {[e |-> j.e, run |-> Head0]}]]
              /\ UNCHANGED entityJobs
           \/ /\ j.e \notin Active
              /\ task' = [task EXCEPT ![w] = [t EXCEPT !.unread = t.unread \ {j},
                                              !.batch = {k \in t.batch : ~Same(k, j)}]]
              /\ FailOutbox({j})
    /\ UNCHANGED <<runs, projectJobs, queued, projected, age, vectors, asking, answer, requeues, rebuilds>>

\* Of a symbol read twice what was read last.
LastRead(read, e) == CHOOSE n \in {r.run : r \in {q \in read : q.e = e}} : \A r \in read : r.e = e => r.run <= n

\* ... then embeds and upserts all that are left and completes their events.
UpsertCodeEntities(w) ==
    /\ Doing(w, "embed") /\ task[w].unread = {}
    /\ vectors' = [e \in Symbols |->
           IF \E r \in task[w].read : r.e = e THEN LastRead(task[w].read, e) ELSE vectors[e]]
    /\ entityJobs' = {j \in entityJobs : ~In(j, task[w].batch)}
    /\ task' = [task EXCEPT ![w] = None]
    /\ UNCHANGED <<runs, projectJobs, queued, projected, age, asking, answer, requeues, rebuilds>>

\* RequeueCodeEntities: the reindex command queues the active symbols again.
RequeueCodeEntities ==
    /\ requeues < MaxRequeues /\ Head0 # 0
    /\ entityJobs' = entityJobs \cup EntityEvents(Active)
    /\ queued' = queued + 1 /\ requeues' = requeues + 1
    /\ UNCHANGED <<runs, projectJobs, projected, age, vectors, task, asking, answer, rebuilds>>

\* Mutant: of several open events of a symbol the oldest is kept.
Keepers_Oldest == {j \in entityJobs : j.e \in Active /\ \A k \in entityJobs : k.e = j.e => j.n <= k.n}

\* The newest open event of every active symbol, claimed or not.
Keepers == {j \in entityJobs : j.e \in Active /\ \A k \in entityJobs : k.e = j.e => k.n <= j.n}

\* CompactCodeEntityOutbox completes the unclaimed events that are not kept.
CompactCodeEntityOutbox ==
    /\ entityJobs' = {j \in entityJobs : j.locked \/ j \in Keepers}
    /\ entityJobs' # entityJobs
    /\ UNCHANGED <<runs, projectJobs, queued, projected, age, vectors, task, asking, answer, requeues, rebuilds>>

-----------------------------------------------------------------------------
(* Questions *)

\* Symbols (and the repository) at most Hops edges away from the root.
Within(edges) ==
    LET walk[k \in 0..Hops] ==
            IF k = 0 THEN {Root}
            ELSE walk[k - 1] \cup UNION {r \in edges : r \cap walk[k - 1] # {}}
    IN walk[Hops]

\* mergeRepositoryContainsCode: every symbol hangs on the vertex of its repository.
Contained(ents) == {{Repo, e} : e \in ents}
Edges(graph) == graph.rels \cup Contained(graph.ents)

\* CodeProjectionCurrent: the run is active and is the one projected.
CodeProjectionCurrent(run) == run = Head0 /\ run = projected

\* Store.ExpandCodeGraph reads the active analysis and finds the root in it.
\* Without either the recursive store finds nothing as well, if nothing changes.
OpenExpansion ==
    /\ asking = None
    /\ asking' = IF Root \in Active THEN [step |-> "verify", run |-> Head0, ids |-> {}, moved |-> "no"]
                 ELSE [step |-> "fallback", run |-> 0, ids |-> {}, moved |-> "no"]
    /\ answer' = None
    /\ UNCHANGED <<runs, projectJobs, entityJobs, queued, projected, age, vectors, task, requeues, rebuilds>>

Asked(step) == asking # None /\ asking.step = step

\* A projection that is not current sends the question to the fallback.
Verified(step) == IF CodeProjectionCurrent(asking.run) THEN step ELSE "fallback"

VerifyProjection ==
    /\ Asked("verify")
    /\ asking' = [asking EXCEPT !.step = Verified("traverse"), !.moved = "no"]
    /\ UNCHANGED <<runs, projectJobs, entityJobs, queued, projected, age, vectors, task, answer, requeues, rebuilds>>

\* queryNodes follows the edges of the AGE graph, in both directions, from the
\* root if it is there; other vertices than symbols are dropped.
Traverse ==
    /\ Asked("traverse")
    /\ asking' = [asking EXCEPT !.step = "again",
           !.ids = {Root} \cup (IF Root \in age.ents THEN Within(Edges(age)) \ {Repo} ELSE {})]
    /\ UNCHANGED <<runs, projectJobs, entityJobs, queued, projected, age, vectors, task, answer, requeues, rebuilds>>

\* Mutant: the projection is not verified again.
Reverified_Once == "hydrate"

Reverified == Verified("hydrate")

VerifyTraversal ==
    /\ Asked("again")
    /\ asking' = [asking EXCEPT !.step = Reverified]
    /\ UNCHANGED <<runs, projectJobs, entityJobs, queued, projected, age, vectors, task, answer, requeues, rebuilds>>

\* The symbols found are read from the analysis if it is still the active one.
AnswerExpansion ==
    LET graph == HydrateCodeGraph(asking.run, asking.ids) IN
    /\ Asked("hydrate")
    /\ IF graph.ents = {}
       THEN asking' = [asking EXCEPT !.step = "fallback"] /\ UNCHANGED answer
       ELSE asking' = None /\ answer' = [backend |-> "age", run |-> asking.run, graph |-> graph, moved |-> asking.moved]
    /\ UNCHANGED <<runs, projectJobs, entityJobs, queued, projected, age, vectors, task, requeues, rebuilds>>

\* GetCodeGraph: the recursive store follows the relations of the active analysis.
GetCodeGraph ==
    IF Root \notin Active THEN Nothing
    ELSE HydrateCodeGraph(Head0, Within(runs[Head0].rels))

\* FallbackStore.ExpandCodeGraph: AGE failed or was stale; the recursive store answers.
Fallback ==
    /\ asking # None
    /\ asking' = None
    /\ answer' = [backend |-> "recursive", run |-> Head0, graph |-> GetCodeGraph, moved |-> "no"]
    /\ UNCHANGED <<runs, projectJobs, entityJobs, queued, projected, age, vectors, task, requeues, rebuilds>>

\* SearchCodeEntities: vector hits with an occurrence in the active run, or a
\* search of the text of the active symbols when there are none.
SearchCodeEntities ==
    LET hits == {e \in Active : vectors[e] # 0} IN IF hits # {} THEN hits ELSE Active

-----------------------------------------------------------------------------
\* The AGE graph and the questions it answers ...
GraphNext ==
    \/ IndexCodeRepository \/ StartRebuild \/ Rebuild
    \/ OpenExpansion \/ VerifyProjection \/ Traverse \/ VerifyTraversal \/ AnswerExpansion \/ Fallback
    \/ \E w \in Replicas : ClaimProjection(w) \/ ProjectCodeGraph(w)
    \/ \E p \in Replicas \cup {Admin} : CheckRun(p) \/ ReadAnalysis(p) \/ ReadGraph(p) \/ TaskFails(p)

\* ... and the vectors of the symbols, which share no state but the analyses.
VectorNext ==
    \/ IndexCodeRepository \/ RequeueCodeEntities \/ CompactCodeEntityOutbox
    \/ \E w \in Replicas : ClaimEntities(w) \/ ReadEntity(w) \/ UpsertCodeEntities(w) \/ TaskFails(w)

CodeNext == GraphNext \/ VectorNext

CodeSpec == CodeInit /\ [][CodeNext]_codeVars

-----------------------------------------------------------------------------
(* Properties *)

IsGraph(graph) == graph.ents \subseteq Symbols /\ \A r \in graph.rels : r \subseteq graph.ents

\* Every row is of an analysis that exists, and what is stored or projected is a
\* graph: no relation without its two symbols (StoreCodeGraph, projectCodeGraph).
CodeTypeOK ==
    /\ Head0 <= MaxRuns /\ \A i \in 1..Head0 : IsGraph(runs[i])
    /\ projectJobs \subseteq 1..Head0
    /\ \A j \in entityJobs : j.n \in 1..queued /\ j.e \in Indexable /\ j.locked \in BOOLEAN
    /\ projected \in 0..Head0 /\ IsGraph(age)
    /\ vectors \in [Symbols -> 0..Head0]
    /\ asking # None => asking.run \in 0..Head0
    /\ answer # None => IsGraph(answer.graph)

\* An answer is of one analysis: all its relations between the symbols returned
\* and no other.  The recursive store returns exactly the symbols within reach of
\* the root; AGE returns none that the analysis, with the repository's vertex, does
\* not put within reach, though jobs of other analyses and a rebuild write the graph
\* while it is traversed (ExpandCodeGraph, HydrateCodeGraph, GetCodeGraph).  The one
\* exception is a projection that left the analysis and came back to it between
\* the two verifications.
AnswersFollowOneAnalysis ==
    answer # None =>
        LET ents == answer.graph.ents
            of == runs[answer.run]
        IN ents # {} =>
             /\ answer.graph.rels = {r \in of.rels : r \subseteq ents}
             /\ IF answer.backend = "age" THEN answer.moved = "back" \/ ents \subseteq Within(Edges(of))
                ELSE ents = Within(of.rels)

\* When a single replica has worked off the projection jobs and nothing was
\* rebuilt meanwhile, the AGE graph is the whole active analysis and is marked so,
\* whichever analyses were stored while jobs were under way or failed
\* (ProjectCodeGraph, GetActiveCodeGraphForRun).
ProjectionCatchesUp ==
    Cardinality(Replicas) = 1 /\ rebuilds = 0 /\ Head0 # 0 /\ projectJobs = {} =>
        projected = Head0 /\ age = runs[Head0]

\* When a single replica has worked off the events of the active symbols, each is
\* embedded as the active analysis has it and search finds it, whatever was queued
\* again or compacted while events were claimed (CompactCodeEntityOutbox,
\* processCodeEntityBatch).  Events of symbols that are not active stay open.
VectorsCatchUp ==
    Cardinality(Replicas) = 1 /\ Head0 # 0 /\ (\A j \in entityJobs : j.e \notin Active) =>
        /\ \A e \in Active \cap Indexable : vectors[e] = Head0
        /\ Active \cap Indexable \subseteq SearchCodeEntities

\* Both projections of an analysis, the AGE graph and the vectors, are of the
\* active analysis once their jobs are done (ProjectCodeGraph,
\* processCodeEntityBatch).
ProjectionsCatchUp == ProjectionCatchesUp /\ VectorsCatchUp
=============================================================================

-------------------------- MODULE CodeGraphProofs ---------------------------
(***************************************************************************)
(* Proofs about CodeGraph for any symbols, snapshots, replicas, depth and  *)
(* bounds.                                                                 *)
(*                                                                         *)
(* AnswersFollowOneAnalysis is not inductive: an answer was traversed in a *)
(* graph that may be replaced since.  CodeInv adds that the AGE graph, and *)
(* what a task is about to write, is part of the analysis it is marked     *)
(* with (ProjectionIsPart, TasksFit), and that a question which was not    *)
(* overtaken knows only symbols within reach in its analysis               *)
(* (QuestionFollows).  That a smaller graph reaches less is shown by       *)
(* induction on the depth (WithinGrows).                                   *)
(*                                                                         *)
(* ProjectionsCatchUp speaks of a single replica.  OneReplicaInv adds that *)
(* a replica that works on an overtaken analysis has the job of the active *)
(* one still before it, and that every active symbol of its batch was or   *)
(* will be read, or has a newer event.                                     *)
(***************************************************************************)
EXTENDS CodeGraph, FiniteSetTheorems, SequenceTheorems, TLAPS

-----------------------------------------------------------------------------
(* The invariants *)

Processes == Replicas \cup {Admin}

\* Every row has the shape of its table, and names analyses that exist.
CodeShape ==
    /\ runs \in Seq(Graphs) /\ Len(runs) <= MaxRuns
    /\ projectJobs \subseteq 1 .. Len(runs)
    /\ entityJobs \subseteq EntityEvent /\ queued \in Nat
    /\ projected \in 0 .. Len(runs) /\ age \in Graphs
    /\ vectors \in [Symbols -> 0 .. Len(runs)]
    /\ task \in [Processes -> ProjectTask \cup EmbedTask \cup {None}]
    /\ asking \in Question \cup {None} /\ answer \in Answer \cup {None}
    /\ requeues \in Nat /\ rebuilds \in Nat

\* Events are of batches that were queued; what is stored is a graph.
RowsSound ==
    /\ \A j \in entityJobs : j.n \in 1 .. queued
    /\ \A i \in 1 .. Len(runs) : Normalized(runs[i])

\* The graph g is a part of the analysis it was read from.
PartOf(g, run) ==
    IF run = 0 THEN g = Nothing ELSE Normalized(g) /\ g.ents \subseteq runs[run].ents /\ g.rels \subseteq runs[run].rels

ProjectionIsPart == PartOf(age, projected)

\* A task that copies the graph names analyses in their order, and holds a part
\* of the one it will mark the projection with; all of it, if that is its own run.
ProjectTaskFits(p, t) ==
    t \in ProjectTask =>
        /\ t.run \in 1 .. Len(runs) /\ t.analysis \in 0 .. Len(runs)
        /\ t.step \in {"check", "analysis"} => t.analysis = 0 /\ t.graph = Nothing
        /\ t.step = "hydrate" => t.run <= t.analysis
        /\ t.step = "write" =>
              /\ PartOf(t.graph, t.analysis)
              /\ p # Admin => t.run <= t.analysis
              /\ t.run = t.analysis => t.graph = runs[t.run]

\* A task that embeds has read symbols of analyses that exist.
EmbedTaskFits(t) ==
    t \in EmbedTask =>
        /\ \A r \in t.read : r.run \in 1 .. Len(runs)
        /\ \A j \in t.batch : j.n \in 1 .. queued

TasksFit == \A p \in Processes : ProjectTaskFits(p, task[p]) /\ EmbedTaskFits(task[p])

Reach(run) == Within(Edges(runs[run]))

\* Until the projection comes back to the question's analysis, what was
\* traversed is within reach in it.
QuestionFollows ==
    asking # None =>
        /\ asking.run \in 0 .. Len(runs)
        /\ asking.step # "fallback" => asking.run # 0 /\ Root \in runs[asking.run].ents
        /\ asking.step \in {"traverse", "again"} /\ asking.moved = "no" => projected = asking.run
        /\ asking.step \in {"traverse", "again"} /\ asking.moved = "away" => projected # asking.run
        /\ asking.step \in {"again", "hydrate"} /\ asking.moved = "no" => asking.ids \subseteq Reach(asking.run)
        /\ asking.step = "hydrate" => asking.moved # "away"

\* The answer names its analysis, and is a graph.
AnswerNames ==
    answer # None =>
        answer.run \in 0 .. Len(runs) /\ Normalized(answer.graph) /\ (answer.graph.ents # {} => answer.run # 0)

CodeInv == CodeShape /\ RowsSound /\ ProjectionIsPart /\ TasksFit /\ QuestionFollows /\ AnswerNames
           /\ AnswersFollowOneAnalysis

\* One replica only: who writes an overtaken analysis has the job of the active
\* one before it, and without that job the projection is the active analysis.
ProjectionInv(w) ==
    rebuilds = 0 =>
        /\ task[Admin] = None
        /\ task[w] \in ProjectTask /\ task[w].step # "check" /\ task[w].run # Len(runs) =>
              Len(runs) \in projectJobs
        /\ Len(runs) # 0 /\ Len(runs) \notin projectJobs =>
              projected = Len(runs) /\ age = runs[Len(runs)]

\* One replica only: an active symbol without events is embedded as it is; one
\* of the batch was or will be read from the active analysis, or has a newer event.
Covered(t, e) ==
    \/ [e |-> e, run |-> Len(runs)] \in t.read
    \/ \E j \in t.unread : j.e = e
    \/ \E k \in entityJobs : k.e = e /\ \A j \in t.batch : j.e = e => j.n < k.n
    \/ (\A j \in t.batch : j.e # e) /\ (\A r \in t.read : r.e # e)

VectorInv(w) ==
    \A e \in Active \cap Indexable :
        /\ (\A j \in entityJobs : j.e # e) => vectors[e] = Len(runs)
        /\ task[w] \in EmbedTask => Covered(task[w], e)

OneReplicaInv == \A w \in Replicas : Replicas = {w} => ProjectionInv(w) /\ VectorInv(w)

-----------------------------------------------------------------------------
(* Traversals *)

\* Induction on the natural numbers, for a set.
LEMMA NatSetInduction ==
    ASSUME NEW S, 0 \in S, \A n \in Nat : n \in S => n + 1 \in S
    PROVE  Nat \subseteq S
<1>. DEFINE R == {ss \in Nat \X Nat : ss[1] < ss[2]}
<1>1. IsWellFoundedOn(R, Nat)
  BY NatLessThanWellFounded DEF OpToRel
<1>. SUFFICES ASSUME Nat \ S # {} PROVE FALSE
  OBVIOUS
<1>2. PICK x \in Nat \ S : \A y \in Nat \ S : ~(<<y, x>> \in R)
  BY <1>1, WFMin
<1>3. x # 0 /\ x - 1 \in Nat /\ x - 1 < x
  BY <1>2
<1>4. <<x - 1, x>> \in R
  BY <1>2, <1>3
<1>5. x - 1 \in S
  BY <1>2, <1>3, <1>4
<1>. QED
  BY <1>2, <1>3, <1>5

\* One edge further.
Further(edges, found) == found \cup UNION {r \in edges : r \cap found # {}}

\* f lists what is found after each of n edges.
IsWalk(f, n, edges) == f = [k \in 0 .. n |-> IF k = 0 THEN {Root} ELSE Further(edges, f[k - 1])]

\* A walk can be as long as one likes.
LEMMA WalkExists ==
    ASSUME NEW edges, NEW n \in Nat
    PROVE  \E f : IsWalk(f, n, edges)
<1>. DEFINE S == {m \in Nat : \E f : IsWalk(f, m, edges)}
<1>1. 0 \in S
  <2>. DEFINE f == [k \in 0 .. 0 |-> {Root}]
  <2>1. f = [k \in 0 .. 0 |-> IF k = 0 THEN {Root} ELSE Further(edges, f[k - 1])]
    OBVIOUS
  <2>. QED
    BY <2>1 DEF IsWalk
<1>2. ASSUME NEW m \in Nat, m \in S PROVE m + 1 \in S
  <2>1. PICK f : IsWalk(f, m, edges)
    BY <1>2
  <2>. DEFINE g == [k \in 0 .. m + 1 |-> IF k = m + 1 THEN Further(edges, f[m]) ELSE f[k]]
  <2>2. ASSUME NEW k \in 0 .. m + 1 PROVE g[k] = IF k = 0 THEN {Root} ELSE Further(edges, g[k - 1])
    <3>1. CASE k = m + 1
      BY <3>1
    <3>2. CASE k # m + 1
      <4>1. k \in 0 .. m /\ (k # 0 => k - 1 \in 0 .. m)
        BY <3>2
      <4>2. f[k] = IF k = 0 THEN {Root} ELSE Further(edges, f[k - 1])
        BY <2>1, <4>1 DEF IsWalk
      <4>. QED
        BY <4>1, <4>2
    <3>. QED
      BY <3>1, <3>2
  <2>3. g = [k \in 0 .. m + 1 |-> IF k = 0 THEN {Root} ELSE Further(edges, g[k - 1])]
    <3>1. g = [k \in 0 .. m + 1 |-> g[k]]
      OBVIOUS
    <3>. HIDE DEF g
    <3>. QED
      BY <2>2, <3>1
  <2>4. \E h : IsWalk(h, m + 1, edges)
    BY <2>3 DEF IsWalk
  <2>. QED
    BY <2>4
<1>3. Nat \subseteq S
  <2>. HIDE DEF S
  <2>. QED
    BY <1>1, <1>2, NatSetInduction
<1>. QED
  BY <1>3

\* Within is the end of a walk of the depth of the question.
LEMMA WithinIsWalk ==
    ASSUME NEW edges
    PROVE  \E f : /\ Within(edges) = f[Hops]
                  /\ f[0] = {Root}
                  /\ \A k \in 1 .. Hops : f[k] = Further(edges, f[k - 1])
<1>1. Hops \in Nat
  BY CodeAssumption DEF CodeAssumption
<1>2. \E f : f = [k \in 0 .. Hops |-> IF k = 0 THEN {Root}
                                      ELSE f[k - 1] \cup UNION {r \in edges : r \cap f[k - 1] # {}}]
  <2>1. PICK f : IsWalk(f, Hops, edges)
    BY <1>1, WalkExists
  <2>2. f = [k \in 0 .. Hops |-> IF k = 0 THEN {Root}
                                 ELSE f[k - 1] \cup UNION {r \in edges : r \cap f[k - 1] # {}}]
    BY ONLY <2>1 DEF IsWalk, Further
  <2>. QED
    BY ONLY <2>2
<1>. DEFINE f == CHOOSE f : f = [k \in 0 .. Hops |-> IF k = 0 THEN {Root}
                                      ELSE f[k - 1] \cup UNION {r \in edges : r \cap f[k - 1] # {}}]
<1>3. f = [k \in 0 .. Hops |-> IF k = 0 THEN {Root}
                               ELSE f[k - 1] \cup UNION {r \in edges : r \cap f[k - 1] # {}}]
  BY <1>2, Zenon
<1>4. Within(edges) = f[Hops]
  BY Zenon DEF Within
<1>. HIDE DEF f
<1>5. f[0] = {Root}
  BY <1>1, <1>3
<1>6. ASSUME NEW k \in 1 .. Hops PROVE f[k] = Further(edges, f[k - 1])
  <2>1. k \in 0 .. Hops /\ k # 0
    BY <1>1
  <2>. QED
    BY <1>3, <2>1 DEF Further
<1>. QED
  BY <1>4, <1>5, <1>6

\* The root is within its own reach; more edges reach more; and what the edges
\* do not leave is not left.
LEMMA WithinGrows ==
    ASSUME NEW edges, NEW more, edges \subseteq more
    PROVE  Within(edges) \subseteq Within(more)
<1>1. Hops \in Nat
  BY CodeAssumption DEF CodeAssumption
<1>2. PICK f : /\ Within(edges) = f[Hops] /\ f[0] = {Root}
               /\ \A k \in 1 .. Hops : f[k] = Further(edges, f[k - 1])
  BY WithinIsWalk
<1>3. PICK g : /\ Within(more) = g[Hops] /\ g[0] = {Root}
               /\ \A k \in 1 .. Hops : g[k] = Further(more, g[k - 1])
  BY WithinIsWalk
<1>. DEFINE S == {m \in Nat : m <= Hops => f[m] \subseteq g[m]}
<1>4. 0 \in S
  BY <1>2, <1>3
<1>5. ASSUME NEW m \in Nat, m \in S PROVE m + 1 \in S
  <2>1. CASE m + 1 <= Hops
    <3>1. /\ f[m] \subseteq g[m] /\ f[m + 1] = Further(edges, f[m]) /\ g[m + 1] = Further(more, g[m])
      <4>1. m + 1 \in 1 .. Hops /\ (m + 1) - 1 = m /\ m <= Hops
        BY <1>1, <2>1
      <4>2. f[m] \subseteq g[m]
        BY <1>5, <4>1
      <4>3. f[m + 1] = Further(edges, f[(m + 1) - 1]) /\ g[m + 1] = Further(more, g[(m + 1) - 1])
        BY <1>2, <1>3, <4>1
      <4>. QED
        BY <4>1, <4>2, <4>3
    <3>2. Further(edges, f[m]) \subseteq Further(more, g[m])
      BY <3>1 DEF Further
    <3>. QED
      BY <3>1, <3>2
  <2>2. CASE ~(m + 1 <= Hops)
    BY <2>2
  <2>. QED
    BY <2>1, <2>2
<1>6. Nat \subseteq S
  <2>. HIDE DEF S
  <2>. QED
    BY <1>4, <1>5, NatSetInduction
<1>7. f[Hops] \subseteq g[Hops]
  BY <1>1, <1>6
<1>. QED
  BY <1>2, <1>3, <1>7

LEMMA WithinStays ==
    ASSUME NEW edges, NEW X, Root \in X, \A r \in edges : r \subseteq X
    PROVE  Root \in Within(edges) /\ Within(edges) \subseteq X
<1>1. Hops \in Nat
  BY CodeAssumption DEF CodeAssumption
<1>2. PICK f : /\ Within(edges) = f[Hops] /\ f[0] = {Root}
               /\ \A k \in 1 .. Hops : f[k] = Further(edges, f[k - 1])
  BY WithinIsWalk
<1>. DEFINE S == {m \in Nat : m <= Hops => Root \in f[m] /\ f[m] \subseteq X}
<1>3. 0 \in S
  BY <1>2
<1>4. ASSUME NEW m \in Nat, m \in S PROVE m + 1 \in S
  <2>1. CASE m + 1 <= Hops
    <3>1. m + 1 \in 1 .. Hops /\ (m + 1) - 1 = m /\ m <= Hops
      BY <1>1, <2>1
    <3>2. Root \in f[m] /\ f[m] \subseteq X
      BY <1>4, <3>1
    <3>3. f[m + 1] = Further(edges, f[(m + 1) - 1])
      BY <1>2, <3>1
    <3>4. f[m + 1] = Further(edges, f[m])
      BY <3>1, <3>3
    <3>5. Root \in Further(edges, f[m]) /\ Further(edges, f[m]) \subseteq X
      BY <3>2 DEF Further
    <3>. QED
      BY <3>4, <3>5
  <2>2. CASE ~(m + 1 <= Hops)
    BY <2>2
  <2>. QED
    BY <2>1, <2>2
<1>5. Nat \subseteq S
  <2>. HIDE DEF S
  <2>. QED
    BY <1>3, <1>4, NatSetInduction
<1>6. Root \in f[Hops] /\ f[Hops] \subseteq X
  BY <1>1, <1>5
<1>. QED
  BY <1>2, <1>6

-----------------------------------------------------------------------------
(* Rows, tasks and questions that a step leaves alone *)

\* What a process is doing tells which kind of task it has.
LEMMA TaskKinds ==
    ASSUME CodeShape, NEW p \in Processes
    PROVE  /\ \A step \in {"check", "analysis", "hydrate", "write"} :
                 Doing(p, step) => task[p] \in ProjectTask /\ task[p].step = step
           /\ Doing(p, "embed") => task[p] \in EmbedTask /\ task[p] \notin ProjectTask
           /\ Idle(p) => task[p] = None
BY DEF CodeShape, Doing, Idle, ProjectTask, EmbedTask

LEMMA NoTask == None \notin ProjectTask /\ None \notin EmbedTask
BY CodeRowAssumption DEF CodeRowAssumption

LEMMA TaskStep ==
    ASSUME CodeShape, TasksFit, NEW p \in Processes, NEW t \in ProjectTask \cup EmbedTask \cup {None},
           task' = [task EXCEPT ![p] = t], runs' = runs, queued' = queued,
           ProjectTaskFits(p, t), EmbedTaskFits(t)
    PROVE  task' \in [Processes -> ProjectTask \cup EmbedTask \cup {None}] /\ TasksFit'
<1>1. task \in [Processes -> ProjectTask \cup EmbedTask \cup {None}]
  BY DEF CodeShape
<1>2. ASSUME NEW q \in Processes PROVE (ProjectTaskFits(q, task[q]) /\ EmbedTaskFits(task[q]))'
  <2>1. PICK u : u = task'[q] /\ ProjectTaskFits(q, u) /\ EmbedTaskFits(u)
    BY <1>1 DEF TasksFit
  <2>. QED
    BY <2>1 DEF ProjectTaskFits, EmbedTaskFits, PartOf
<1>. QED
  BY <1>1, <1>2 DEF TasksFit

LEMMA DropTask ==
    ASSUME CodeShape, TasksFit, NEW p \in Processes, task' = [task EXCEPT ![p] = None],
           runs' = runs, queued' = queued
    PROVE  task' \in [Processes -> ProjectTask \cup EmbedTask \cup {None}] /\ TasksFit'
BY NoTask, TaskStep DEF ProjectTaskFits, EmbedTaskFits

\* More batches do not disturb a task.
LEMMA SameTasks ==
    ASSUME CodeShape, TasksFit, task' = task, runs' = runs, queued' \in Nat, queued <= queued'
    PROVE  TasksFit'
<1>1. queued \in Nat /\ task \in [Processes -> ProjectTask \cup EmbedTask \cup {None}]
  BY DEF CodeShape
<1>2. ASSUME NEW q \in Processes PROVE ProjectTaskFits(q, task[q])'
  BY DEF TasksFit, ProjectTaskFits, PartOf
<1>3. ASSUME NEW q \in Processes, task[q] \in EmbedTask
      PROVE  /\ \A r \in task[q].read : r.run \in 1 .. Len(runs)
             /\ \A j \in task[q].batch : j.n \in 1 .. queued'
  BY <1>1, <1>3 DEF TasksFit, EmbedTaskFits
<1>. QED
  BY <1>2, <1>3 DEF TasksFit, EmbedTaskFits

LEMMA SameGraph ==
    ASSUME ProjectionIsPart, runs' = runs, projected' = projected, age' = age
    PROVE  ProjectionIsPart'
BY DEF ProjectionIsPart, PartOf

LEMMA SameQuestion ==
    ASSUME QuestionFollows, runs' = runs, projected' = projected, asking' = asking
    PROVE  QuestionFollows'
BY DEF QuestionFollows, Reach

LEMMA SameAnswer ==
    ASSUME AnswerNames, AnswersFollowOneAnalysis, runs' = runs, answer' = answer
    PROVE  AnswerNames' /\ AnswersFollowOneAnalysis'
BY DEF AnswerNames, AnswersFollowOneAnalysis

LEMMA SameRows ==
    ASSUME RowsSound, runs' = runs, entityJobs' = entityJobs, queued' = queued
    PROVE  RowsSound'
BY DEF RowsSound

\* The tables start empty.
LEMMA InitCode == CodeInit => CodeInv
<1>. SUFFICES ASSUME CodeInit PROVE CodeInv
  OBVIOUS
<1>. USE DEF CodeInit
<1>1. Len(runs) = 0 /\ runs \in Seq(Graphs)
  OBVIOUS
<1>2. Nothing \in Graphs /\ Normalized(Nothing)
  BY DEF Nothing, Graphs, Normalized
<1>3. CodeShape
  BY <1>1, <1>2, CodeAssumption DEF CodeShape, CodeAssumption, Processes
<1>4. RowsSound /\ ProjectionIsPart
  BY <1>1 DEF RowsSound, ProjectionIsPart, PartOf
<1>5. TasksFit
  BY NoTask DEF TasksFit, ProjectTaskFits, EmbedTaskFits, Processes
<1>6. QuestionFollows /\ AnswerNames /\ AnswersFollowOneAnalysis
  BY DEF QuestionFollows, AnswerNames, AnswersFollowOneAnalysis
<1>. QED
  BY <1>3, <1>4, <1>5, <1>6 DEF CodeInv

-----------------------------------------------------------------------------
(* The steps keep the invariant *)

\* The events of a batch, all under its number.
LEMMA EventsTyped ==
    ASSUME queued \in Nat, NEW ents
    PROVE  /\ EntityEvents(ents) \subseteq EntityEvent
           /\ \A j \in EntityEvents(ents) : j.n = queued + 1 /\ j.e \in ents
           /\ \A e \in ents \cap Indexable : \E j \in EntityEvents(ents) : j.e = e
<1>1. PICK m \in Nat : m = queued + 1
  OBVIOUS
<1>2. EntityEvents(ents) = {[n |-> m, e |-> e, locked |-> FALSE] : e \in ents \cap Indexable}
  BY <1>1 DEF EntityEvents
<1>3. \A e \in Indexable : [n |-> m, e |-> e, locked |-> FALSE] \in EntityEvent
  BY DEF EntityEvent
<1>4. \A j \in EntityEvents(ents) : j \in EntityEvent /\ j.n = m /\ j.e \in ents
  BY <1>2, <1>3
<1>5. ASSUME NEW e \in ents \cap Indexable PROVE \E j \in EntityEvents(ents) : j.e = e
  <2>1. PICK j : j = [n |-> m, e |-> e, locked |-> FALSE]
    OBVIOUS
  <2>. QED
    BY <1>2, <2>1
<1>. QED
  BY <1>1, <1>4, <1>5

\* What StoreCodeGraph does to the tables.
LEMMA StoreEffect ==
    ASSUME CodeShape, NEW s \in Snapshots, StoreCodeGraph(s)
    PROVE  /\ s \in Graphs /\ Normalized(s)
           /\ runs' \in Seq(Graphs) /\ Len(runs) \in Nat /\ Len(runs') = Len(runs) + 1
           /\ runs'[Len(runs) + 1] = s
           /\ \A i \in 1 .. Len(runs) : runs'[i] = runs[i] /\ i \in 1 .. Len(runs')
           /\ projectJobs' = projectJobs \cup {Len(runs) + 1}
           /\ entityJobs' = entityJobs \cup EntityEvents(s.ents) /\ queued' = queued + 1
           /\ EntityEvents(s.ents) \subseteq EntityEvent
<1>1. s \in Graphs /\ runs \in Seq(Graphs) /\ queued \in Nat
  BY CodeAssumption DEF CodeAssumption, CodeShape
<1>2. runs' = Append(runs, s) /\ projectJobs' = projectJobs \cup {Len(runs) + 1}
  BY DEF StoreCodeGraph, ProjectionJobs, Head0
<1>3. EntityEvents(s.ents) \subseteq EntityEvent
  BY <1>1, EventsTyped
<1>. QED
  BY <1>1, <1>2, <1>3 DEF StoreCodeGraph

LEMMA IndexKeeps == CodeInv /\ IndexCodeRepository => CodeInv'
<1>. SUFFICES ASSUME CodeInv, IndexCodeRepository PROVE CodeInv'
  OBVIOUS
<1>1. PICK s \in Snapshots : StoreCodeGraph(s)
  BY DEF IndexCodeRepository
<1>2. /\ Len(runs) < MaxRuns
      /\ UNCHANGED <<projected, age, vectors, task, asking, answer, requeues, rebuilds>>
  BY DEF IndexCodeRepository, Head0
<1>3. /\ CodeShape /\ RowsSound /\ ProjectionIsPart /\ TasksFit /\ QuestionFollows /\ AnswerNames
      /\ AnswersFollowOneAnalysis /\ MaxRuns \in Nat /\ queued \in Nat
  BY CodeAssumption DEF CodeInv, CodeAssumption, CodeShape
<1>4. PICK n \in Nat : n = Len(runs)
  BY <1>1, <1>3, StoreEffect
<1>5. /\ s \in Graphs /\ Normalized(s)
      /\ runs' \in Seq(Graphs) /\ Len(runs') = n + 1 /\ runs'[n + 1] = s
      /\ \A i \in 1 .. n : runs'[i] = runs[i] /\ i \in 1 .. n + 1
      /\ projectJobs' = projectJobs \cup {n + 1}
      /\ entityJobs' = entityJobs \cup EntityEvents(s.ents) /\ queued' = queued + 1
      /\ EntityEvents(s.ents) \subseteq EntityEvent
  BY <1>1, <1>3, <1>4, StoreEffect
<1>6. CodeShape'
  <2>1. /\ vectors' \in [Symbols -> 0 .. n + 1] /\ projected' \in 0 .. n + 1
        /\ projectJobs' \subseteq 1 .. n + 1
    <3>1. vectors \in [Symbols -> 0 .. n] /\ projected \in 0 .. n /\ projectJobs \subseteq 1 .. n
      BY <1>3, <1>4 DEF CodeShape
    <3>2. 0 .. n \subseteq 0 .. n + 1 /\ 1 .. n \subseteq 1 .. n + 1 /\ n + 1 \in 1 .. n + 1
      BY <1>4
    <3>3. vectors \in [Symbols -> 0 .. n + 1]
      BY <3>1, <3>2
    <3>. QED
      BY <1>2, <1>5, <3>1, <3>2, <3>3
  <2>. QED
    BY <1>2, <1>3, <1>4, <1>5, <2>1 DEF CodeShape
<1>7. RowsSound'
  <2>1. \A j \in EntityEvents(s.ents) : j.n = queued + 1
    BY <1>3, EventsTyped
  <2>2. \A j \in entityJobs' : j.n \in 1 .. queued'
    BY <1>3, <1>5, <2>1 DEF RowsSound
  <2>3. \A i \in 1 .. n + 1 : Normalized(runs'[i])
    BY <1>3, <1>4, <1>5 DEF RowsSound
  <2>. QED
    BY <1>5, <2>2, <2>3 DEF RowsSound
<1>8. ASSUME NEW g, NEW i \in 0 .. n, PartOf(g, i) PROVE PartOf(g, i)'
  BY <1>5, <1>8 DEF PartOf
<1>9. ProjectionIsPart'
  BY <1>2, <1>3, <1>4, <1>8 DEF ProjectionIsPart, CodeShape
<1>10. TasksFit'
  <2>1. ASSUME NEW p \in Processes PROVE ProjectTaskFits(p, task[p])'
    <3>1. PICK t : t = task[p] /\ t = task'[p] /\ ProjectTaskFits(p, t)
      BY <1>2, <1>3 DEF TasksFit
    <3>2. ProjectTaskFits(p, t)'
      BY <1>4, <1>5, <1>8, <3>1 DEF ProjectTaskFits
    <3>. QED
      BY <3>1, <3>2
  <2>2. ASSUME NEW p \in Processes PROVE EmbedTaskFits(task[p])'
    BY <1>2, <1>3, <1>4, <1>5 DEF TasksFit, EmbedTaskFits
  <2>. QED
    BY <2>1, <2>2 DEF TasksFit
<1>11. QuestionFollows'
  BY <1>2, <1>3, <1>4, <1>5 DEF QuestionFollows, Reach
<1>12. AnswerNames'
  BY <1>2, <1>3, <1>4, <1>5 DEF AnswerNames
<1>13. AnswersFollowOneAnalysis'
  <2>1. answer # None /\ answer.graph.ents # {} => runs'[answer.run] = runs[answer.run]
    BY <1>3, <1>4, <1>5 DEF AnswerNames
  <2>. QED
    BY <1>2, <1>3, <2>1 DEF AnswersFollowOneAnalysis
<1>. QED
  BY <1>6, <1>7, <1>9, <1>10, <1>11, <1>12, <1>13 DEF CodeInv

\* A step that only moves a task, and perhaps closes jobs, keeps the invariant
\* if the task does.
LEMMA TaskOnly ==
    ASSUME CodeInv, task' \in [Processes -> ProjectTask \cup EmbedTask \cup {None}], TasksFit',
           UNCHANGED <<runs, queued, projected, age, vectors, asking, answer, requeues>>,
           projectJobs' \subseteq projectJobs, rebuilds' \in Nat, entityJobs' \subseteq EntityEvent,
           \A j \in entityJobs' : j.n \in 1 .. queued
    PROVE  CodeInv'
<1>1. /\ CodeShape /\ RowsSound /\ ProjectionIsPart /\ TasksFit /\ QuestionFollows /\ AnswerNames
      /\ AnswersFollowOneAnalysis
  BY DEF CodeInv
<1>2. CodeShape'
  BY <1>1 DEF CodeShape
<1>3. RowsSound'
  BY <1>1 DEF RowsSound
<1>. QED
  BY <1>1, <1>2, <1>3, SameGraph, SameQuestion, SameAnswer DEF CodeInv

LEMMA ClaimProjectionKeeps ==
    ASSUME CodeInv, NEW w \in Replicas, ClaimProjection(w)
    PROVE  CodeInv'
<1>1. CodeShape /\ TasksFit /\ RowsSound /\ w \in Processes
  BY DEF CodeInv, Processes
<1>2. PICK job \in projectJobs :
         task' = [task EXCEPT ![w] = [step |-> "check", run |-> job, analysis |-> 0, graph |-> Nothing]]
  BY DEF ClaimProjection
<1>3. PICK t : t = [step |-> "check", run |-> job, analysis |-> 0, graph |-> Nothing]
  OBVIOUS
<1>4. /\ t \in ProjectTask /\ t \notin EmbedTask /\ t.step = "check" /\ t.run = job
      /\ t.analysis = 0 /\ t.graph = Nothing /\ job \in 1 .. Len(runs)
  <2>1. job \in 1 .. Len(runs) /\ job \in Nat
    BY <1>1 DEF CodeShape
  <2>2. Nothing \in Graphs
    BY DEF Nothing, Graphs
  <2>. QED
    BY <1>3, <2>1, <2>2 DEF ProjectTask, EmbedTask
<1>5. Len(runs) \in Nat
  BY <1>1 DEF CodeShape
<1>6. ProjectTaskFits(w, t) /\ EmbedTaskFits(t)
  BY <1>4, <1>5 DEF ProjectTaskFits, EmbedTaskFits
<1>. QED
  BY <1>1, <1>2, <1>3, <1>4, <1>6, TaskStep, TaskOnly DEF ClaimProjection, CodeShape, RowsSound

LEMMA StartRebuildKeeps == CodeInv /\ StartRebuild => CodeInv'
<1>. SUFFICES ASSUME CodeInv, StartRebuild PROVE CodeInv'
  OBVIOUS
<1>1. CodeShape /\ TasksFit /\ RowsSound /\ Admin \in Processes
  BY DEF CodeInv, Processes
<1>2. PICK t : t = [step |-> "check", run |-> Len(runs), analysis |-> 0, graph |-> Nothing]
  OBVIOUS
<1>3. task' = [task EXCEPT ![Admin] = t] /\ Len(runs) # 0
  BY <1>2 DEF StartRebuild, Head0
<1>4. /\ t \in ProjectTask /\ t \notin EmbedTask /\ t.step = "check" /\ t.run = Len(runs)
      /\ t.analysis = 0 /\ t.graph = Nothing /\ Len(runs) \in Nat
  <2>1. Len(runs) \in Nat
    BY <1>1 DEF CodeShape
  <2>2. Nothing \in Graphs
    BY DEF Nothing, Graphs
  <2>. QED
    BY <1>2, <2>1, <2>2 DEF ProjectTask, EmbedTask
<1>5. ProjectTaskFits(Admin, t) /\ EmbedTaskFits(t)
  BY <1>3, <1>4 DEF ProjectTaskFits, EmbedTaskFits
<1>6. /\ UNCHANGED <<runs, projectJobs, entityJobs, queued, projected, age, vectors, asking, answer, requeues>>
      /\ rebuilds' \in Nat
  BY <1>1 DEF StartRebuild, CodeShape
<1>7. task' \in [Processes -> ProjectTask \cup EmbedTask \cup {None}] /\ TasksFit'
  BY <1>1, <1>3, <1>4, <1>5, <1>6, TaskStep
<1>8. entityJobs' \subseteq EntityEvent /\ \A j \in entityJobs' : j.n \in 1 .. queued
  BY <1>1, <1>6 DEF CodeShape, RowsSound
<1>. QED
  BY <1>6, <1>7, <1>8, TaskOnly

LEMMA CheckRunKeeps ==
    ASSUME CodeInv, NEW p \in Processes, CheckRun(p)
    PROVE  CodeInv'
<1>1. /\ CodeShape /\ TasksFit /\ RowsSound /\ task[p] \in ProjectTask /\ task[p].step = "check"
      /\ ProjectTaskFits(p, task[p])
  BY TaskKinds DEF CodeInv, TasksFit, CheckRun
<1>2. /\ UNCHANGED <<runs, entityJobs, queued, projected, age, vectors, asking, answer, requeues, rebuilds>>
      /\ projectJobs' \subseteq projectJobs
  BY DEF CheckRun
<1>3. task' \in [Processes -> ProjectTask \cup EmbedTask \cup {None}] /\ TasksFit'
  <2>1. CASE task' = [task EXCEPT ![p] = None]
    BY <1>1, <1>2, <2>1, DropTask
  <2>2. ASSUME NEW step \in {"analysis", "write"}, task' = [task EXCEPT ![p].step = step],
               step = "write" => p = Admin /\ task[p].run # Len(runs)
        PROVE  task' \in [Processes -> ProjectTask \cup EmbedTask \cup {None}] /\ TasksFit'
    <3>1. PICK t : t = [task[p] EXCEPT !.step = step]
      OBVIOUS
    <3>2. task' = [task EXCEPT ![p] = t]
      BY <2>2, <3>1
    <3>3. /\ t \in ProjectTask /\ t \notin EmbedTask /\ t.step = step /\ t.run = task[p].run
          /\ t.analysis = task[p].analysis /\ t.graph = task[p].graph
      BY <1>1, <3>1 DEF ProjectTask, EmbedTask
    <3>4. ProjectTaskFits(p, t)
      <4>1. t.run \in 1 .. Len(runs) /\ t.analysis \in 0 .. Len(runs)
        BY <1>1, <3>3 DEF ProjectTaskFits
      <4>2. step = "write" => PartOf(t.graph, t.analysis) /\ t.run # t.analysis
        BY <1>1, <2>2, <3>3 DEF ProjectTaskFits, PartOf
      <4>3. t.analysis = 0 /\ t.graph = Nothing
        BY <1>1, <3>3 DEF ProjectTaskFits
      <4>. QED
        BY <2>2, <3>3, <4>1, <4>2, <4>3 DEF ProjectTaskFits
    <3>5. EmbedTaskFits(t)
      BY <3>3 DEF EmbedTaskFits
    <3>. QED
      BY <1>1, <1>2, <3>2, <3>3, <3>4, <3>5, TaskStep
  <2>. QED
    BY <2>1, <2>2 DEF CheckRun, Head0
<1>. QED
  BY <1>1, <1>2, <1>3, TaskOnly DEF CodeShape, RowsSound

LEMMA ReadAnalysisKeeps ==
    ASSUME CodeInv, NEW p \in Processes, ReadAnalysis(p)
    PROVE  CodeInv'
<1>1. /\ CodeShape /\ TasksFit /\ RowsSound /\ task[p] \in ProjectTask
      /\ ProjectTaskFits(p, task[p]) /\ Len(runs) \in Nat
  BY TaskKinds DEF CodeInv, TasksFit, ReadAnalysis, CodeShape
<1>2. UNCHANGED <<runs, projectJobs, entityJobs, queued, projected, age, vectors, asking, answer, requeues, rebuilds>>
  BY DEF ReadAnalysis
<1>3. PICK t : t = [task[p] EXCEPT !.step = "hydrate", !.analysis = Len(runs)]
  OBVIOUS
<1>4. task' = [task EXCEPT ![p] = t]
  BY <1>1, <1>3 DEF ReadAnalysis, Head0, CodeShape
<1>5. /\ t \in ProjectTask /\ t \notin EmbedTask /\ t.step = "hydrate" /\ t.run = task[p].run
      /\ t.analysis = Len(runs)
  BY <1>1, <1>3 DEF ProjectTask, EmbedTask
<1>6. ProjectTaskFits(p, t) /\ EmbedTaskFits(t)
  BY <1>1, <1>5 DEF ProjectTaskFits, EmbedTaskFits
<1>7. task' \in [Processes -> ProjectTask \cup EmbedTask \cup {None}] /\ TasksFit'
  BY <1>1, <1>2, <1>4, <1>5, <1>6, TaskStep
<1>. QED
  BY <1>1, <1>2, <1>7, TaskOnly DEF CodeShape, RowsSound

\* HydrateCodeGraph returns a part of the analysis, and all of it when it is
\* asked for all its symbols.
LEMMA HydrateIsPart ==
    ASSUME CodeInv, NEW i \in 1 .. Len(runs), NEW ids
    PROVE  /\ HydrateCodeGraph(i, ids) \in Graphs /\ Normalized(HydrateCodeGraph(i, ids))
           /\ PartOf(HydrateCodeGraph(i, ids), i)
           /\ HydrateCodeGraph(i, ids).ents # {} =>
                 /\ i = Len(runs) /\ HydrateCodeGraph(i, ids).ents = ids \cap runs[i].ents
                 /\ HydrateCodeGraph(i, ids).rels = {r \in runs[i].rels : r \subseteq ids \cap runs[i].ents}
           /\ i = Len(runs) /\ ids = runs[i].ents => HydrateCodeGraph(i, ids) = runs[i]
<1>1. runs[i] \in Graphs /\ Normalized(runs[i]) /\ i # 0
  BY DEF CodeInv, CodeShape, RowsSound
<1>2. Nothing \in Graphs /\ Normalized(Nothing) /\ Nothing.ents = {} /\ Nothing.rels = {}
  BY DEF Nothing, Graphs, Normalized
<1>3. PICK ents : ents = ids \cap runs[i].ents
  OBVIOUS
<1>4. PICK rels : rels = {r \in runs[i].rels : r \subseteq ents}
  OBVIOUS
<1>5. PICK g : g = [ents |-> ents, rels |-> rels]
  OBVIOUS
<1>6. HydrateCodeGraph(i, ids) = IF i # Len(runs) THEN Nothing ELSE g
  BY <1>3, <1>4, <1>5 DEF HydrateCodeGraph, Head0
<1>7. /\ g \in Graphs /\ g.ents = ents /\ g.rels = rels
      /\ ents \subseteq runs[i].ents /\ rels \subseteq runs[i].rels /\ \A r \in rels : r \subseteq ents
  BY <1>1, <1>3, <1>4, <1>5 DEF Graphs
<1>8. ids = runs[i].ents => g = runs[i]
  <2>. SUFFICES ASSUME ids = runs[i].ents PROVE g = runs[i]
    OBVIOUS
  <2>1. ents = runs[i].ents
    BY <1>3
  <2>2. rels = runs[i].rels
    BY <1>1, <1>4, <2>1 DEF Normalized
  <2>. QED
    BY <1>1, <1>5, <2>1, <2>2 DEF Graphs
<1>9. CASE i # Len(runs)
  BY <1>1, <1>2, <1>6, <1>9 DEF PartOf
<1>10. CASE i = Len(runs)
  <2>1. HydrateCodeGraph(i, ids) = g
    BY <1>6, <1>10
  <2>2. Normalized(g) /\ PartOf(g, i)
    BY <1>1, <1>7 DEF Normalized, PartOf
  <2>. QED
    BY <1>3, <1>4, <1>7, <1>8, <1>10, <2>1, <2>2
<1>. QED
  BY <1>9, <1>10

LEMMA ReadGraphKeeps ==
    ASSUME CodeInv, NEW p \in Processes, ReadGraph(p)
    PROVE  CodeInv'
<1>1. /\ CodeShape /\ TasksFit /\ RowsSound /\ task[p] \in ProjectTask /\ task[p].step = "hydrate"
      /\ ProjectTaskFits(p, task[p])
  BY TaskKinds DEF CodeInv, TasksFit, ReadGraph
<1>2. UNCHANGED <<runs, projectJobs, entityJobs, queued, projected, age, vectors, asking, answer, requeues, rebuilds>>
  BY DEF ReadGraph
<1>3. PICK run \in 1 .. Len(runs), i \in 1 .. Len(runs) : run = task[p].run /\ i = task[p].analysis /\ run <= i
  BY <1>1 DEF ProjectTaskFits
<1>4. PICK graph : graph = HydrateCodeGraph(i, runs[run].ents)
  OBVIOUS
<1>5. /\ graph \in Graphs /\ PartOf(graph, i)
      /\ graph.ents # {} /\ run = i => graph = runs[run]
  BY <1>4, HydrateIsPart
<1>6. task' \in [Processes -> ProjectTask \cup EmbedTask \cup {None}] /\ TasksFit'
  <2>1. CASE graph.ents = {}
    <3>1. task' = [task EXCEPT ![p] = None]
      BY <1>3, <1>4, <2>1 DEF ReadGraph
    <3>. QED
      BY <1>1, <1>2, <3>1, DropTask
  <2>2. CASE graph.ents # {}
    <3>1. PICK t : t = [task[p] EXCEPT !.step = "write", !.graph = graph]
      OBVIOUS
    <3>2. task' = [task EXCEPT ![p] = t]
      BY <1>3, <1>4, <2>2, <3>1 DEF ReadGraph
    <3>3. /\ t \in ProjectTask /\ t \notin EmbedTask /\ t.step = "write" /\ t.run = run
          /\ t.analysis = i /\ t.graph = graph
      BY <1>1, <1>3, <1>5, <3>1 DEF ProjectTask, EmbedTask
    <3>4. ProjectTaskFits(p, t) /\ EmbedTaskFits(t)
      BY <1>3, <1>5, <2>2, <3>3 DEF ProjectTaskFits, EmbedTaskFits
    <3>. QED
      BY <1>1, <1>2, <3>2, <3>3, <3>4, TaskStep
  <2>. QED
    BY <2>1, <2>2
<1>. QED
  BY <1>1, <1>2, <1>6, TaskOnly DEF CodeShape, RowsSound

\* A new projection: it is part of the analysis it is marked with, and a
\* question that is traversing the old one learns whether it was left.
LEMMA ProjectionKeeps ==
    ASSUME CodeInv, NEW p \in Processes, Doing(p, "write"),
           projectCodeGraph(task[p].analysis, task[p].graph), task' = [task EXCEPT ![p] = None],
           projectJobs' \subseteq projectJobs,
           UNCHANGED <<runs, entityJobs, queued, vectors, answer, requeues, rebuilds>>
    PROVE  CodeInv'
<1>1. /\ CodeShape /\ RowsSound /\ ProjectionIsPart /\ TasksFit /\ QuestionFollows /\ AnswerNames
      /\ AnswersFollowOneAnalysis
  BY DEF CodeInv
<1>2. task[p] \in ProjectTask /\ task[p].step = "write" /\ ProjectTaskFits(p, task[p])
  BY <1>1, TaskKinds DEF TasksFit
<1>3. PICK i \in 0 .. Len(runs), g \in Graphs :
         /\ i = task[p].analysis /\ g = task[p].graph /\ PartOf(g, i)
  BY <1>2 DEF ProjectTaskFits, ProjectTask
<1>4. age' = g /\ projected' = i /\ asking' = Moved(i)
  BY <1>3 DEF projectCodeGraph
<1>5. ProjectionIsPart'
  BY <1>3, <1>4 DEF ProjectionIsPart, PartOf
<1>6. task' \in [Processes -> ProjectTask \cup EmbedTask \cup {None}] /\ TasksFit'
  BY <1>1, DropTask
<1>7. asking' \in Question \cup {None} /\ QuestionFollows'
  <2>1. CASE asking = None
    BY <1>4, <2>1 DEF Moved, QuestionFollows
  <2>2. CASE asking # None
    <3>1. asking \in Question /\ None \notin Question
      BY <1>1, <2>2, CodeRowAssumption DEF CodeShape, CodeRowAssumption
    <3>2. CASE asking.step \notin {"traverse", "again"}
      <4>1. asking' = asking
        BY <1>4, <3>2 DEF Moved
      <4>. QED
        BY <1>1, <3>1, <3>2, <4>1 DEF QuestionFollows, Reach
    <3>3. CASE asking.step \in {"traverse", "again"}
      <4>1. PICK m : m = IF i # asking.run THEN "away" ELSE IF asking.moved = "away" THEN "back" ELSE asking.moved
        OBVIOUS
      <4>2. asking' = [asking EXCEPT !.moved = m]
        BY <1>4, <2>2, <3>3, <4>1 DEF Moved
      <4>3. m \in {"no", "away", "back"}
        BY <3>1, <4>1 DEF Question
      <4>4. /\ asking' \in Question /\ asking'.step = asking.step /\ asking'.run = asking.run
            /\ asking'.ids = asking.ids /\ asking'.moved = m
        BY <3>1, <4>2, <4>3 DEF Question
      <4>5. /\ m = "no" => i = asking.run /\ asking.moved = "no"
            /\ m = "away" => i # asking.run
        BY <3>1, <4>1 DEF Question
      <4>. QED
        BY <1>1, <1>4, <2>2, <3>3, <4>4, <4>5 DEF QuestionFollows, Reach
    <3>. QED
      BY <3>2, <3>3
  <2>. QED
    BY <2>1, <2>2
<1>8. CodeShape'
  BY <1>1, <1>3, <1>4, <1>6, <1>7 DEF CodeShape
<1>. QED
  BY <1>1, <1>5, <1>6, <1>7, <1>8, SameRows, SameAnswer DEF CodeInv

\* Giving events back keeps their numbers and their symbols.
LEMMA FailOutboxEffect ==
    ASSUME entityJobs \subseteq EntityEvent, NEW events, FailOutbox(events)
    PROVE  /\ entityJobs' \subseteq EntityEvent
           /\ \A j \in entityJobs' : \E k \in entityJobs : Same(j, k)
           /\ \A k \in entityJobs : \E j \in entityJobs' : Same(j, k)
<1>. DEFINE Free(j) == [j EXCEPT !.locked = FALSE]
<1>1. entityJobs' = {j \in entityJobs : ~In(j, events)} \cup {Free(j) : j \in {k \in entityJobs : In(k, events)}}
  BY DEF FailOutbox
<1>2. \A j \in EntityEvent : Free(j) \in EntityEvent /\ Free(j).n = j.n /\ Free(j).e = j.e
  BY DEF EntityEvent
<1>. HIDE DEF Free
<1>3. entityJobs' \subseteq EntityEvent
  BY <1>1, <1>2
<1>4. ASSUME NEW j \in entityJobs' PROVE \E k \in entityJobs : Same(j, k)
  <2>1. CASE j \in entityJobs
    BY <2>1 DEF Same
  <2>2. CASE j \notin entityJobs
    <3>1. PICK k \in entityJobs : j = Free(k)
      BY <1>1, <1>4, <2>2
    <3>. QED
      BY <1>2, <3>1 DEF Same
  <2>. QED
    BY <2>1, <2>2
<1>5. ASSUME NEW k \in entityJobs PROVE \E j \in entityJobs' : Same(j, k)
  <2>1. CASE ~In(k, events)
    <3>1. k \in entityJobs'
      BY <1>1, <2>1
    <3>. QED
      BY <3>1 DEF Same
  <2>2. CASE In(k, events)
    <3>1. Free(k) \in entityJobs'
      BY <1>1, <2>2
    <3>. QED
      BY <1>2, <3>1 DEF Same
  <2>. QED
    BY <2>1, <2>2
<1>. QED
  BY <1>3, <1>4, <1>5

LEMMA TaskFailsKeeps ==
    ASSUME CodeInv, NEW p \in Processes, TaskFails(p)
    PROVE  CodeInv'
<1>1. CodeShape /\ TasksFit /\ RowsSound
  BY DEF CodeInv
<1>2. /\ UNCHANGED <<runs, projectJobs, queued, projected, age, vectors, asking, answer, requeues, rebuilds>>
      /\ task' = [task EXCEPT ![p] = None]
      /\ entityJobs' = entityJobs \/ FailOutbox(task[p].batch)
  BY DEF TaskFails
<1>3. task' \in [Processes -> ProjectTask \cup EmbedTask \cup {None}] /\ TasksFit'
  BY <1>1, <1>2, DropTask
<1>4. entityJobs' \subseteq EntityEvent /\ \A j \in entityJobs' : j.n \in 1 .. queued
  <2>1. CASE entityJobs' = entityJobs
    BY <1>1, <2>1 DEF CodeShape, RowsSound
  <2>2. CASE FailOutbox(task[p].batch)
    <3>1. entityJobs' \subseteq EntityEvent /\ \A j \in entityJobs' : \E k \in entityJobs : Same(j, k)
      BY <1>1, <2>2, FailOutboxEffect DEF CodeShape
    <3>. QED
      BY <1>1, <3>1 DEF RowsSound, Same
  <2>. QED
    BY <1>2, <2>1, <2>2
<1>. QED
  BY <1>1, <1>2, <1>3, <1>4, TaskOnly DEF CodeShape

\* The claimed events stay, marked.
LEMMA ClaimEntitiesEffect ==
    ASSUME CodeShape, NEW w \in Replicas, ClaimEntities(w)
    PROVE  \E t \in EmbedTask :
             /\ task' = [task EXCEPT ![w] = t]
             /\ t.unread = t.batch /\ t.read = {} /\ t.batch \subseteq entityJobs
             /\ entityJobs' \subseteq EntityEvent
             /\ \A j \in entityJobs' : \E k \in entityJobs : Same(j, k)
             /\ \A k \in entityJobs : \E j \in entityJobs' : Same(j, k)
<1>1. entityJobs \subseteq EntityEvent
  BY DEF CodeShape
<1>. DEFINE Mark(j) == [j EXCEPT !.locked = TRUE]
<1>2. PICK batch \in SUBSET entityJobs :
         /\ entityJobs' = (entityJobs \ batch) \cup {Mark(j) : j \in batch}
         /\ task' = [task EXCEPT ![w] = [step |-> "embed", unread |-> batch, read |-> {}, batch |-> batch]]
  BY DEF ClaimEntities
<1>3. \A j \in EntityEvent : Mark(j) \in EntityEvent /\ Mark(j).n = j.n /\ Mark(j).e = j.e
  BY DEF EntityEvent
<1>. HIDE DEF Mark
<1>4. PICK t : t = [step |-> "embed", unread |-> batch, read |-> {}, batch |-> batch]
  OBVIOUS
<1>5. t \in EmbedTask /\ t.unread = t.batch /\ t.read = {} /\ t.batch = batch
  BY <1>1, <1>2, <1>4 DEF EmbedTask
<1>6. ASSUME NEW j \in entityJobs' PROVE j \in EntityEvent /\ \E k \in entityJobs : Same(j, k)
  <2>1. CASE j \in entityJobs
    BY <1>1, <2>1 DEF Same
  <2>2. CASE j \notin entityJobs
    <3>1. PICK k \in entityJobs : j = Mark(k)
      BY <1>2, <1>6, <2>2
    <3>. QED
      BY <1>1, <1>3, <3>1 DEF Same
  <2>. QED
    BY <2>1, <2>2
<1>7. ASSUME NEW k \in entityJobs PROVE \E j \in entityJobs' : Same(j, k)
  <2>1. CASE k \notin batch
    <3>1. k \in entityJobs'
      BY <1>2, <2>1
    <3>. QED
      BY <3>1 DEF Same
  <2>2. CASE k \in batch
    <3>1. Mark(k) \in entityJobs'
      BY <1>2, <2>2
    <3>. QED
      BY <1>1, <1>3, <3>1 DEF Same
  <2>. QED
    BY <2>1, <2>2
<1>. QED
  BY <1>2, <1>4, <1>5, <1>6, <1>7

LEMMA ClaimEntitiesKeeps ==
    ASSUME CodeInv, NEW w \in Replicas, ClaimEntities(w)
    PROVE  CodeInv'
<1>1. CodeShape /\ TasksFit /\ RowsSound /\ w \in Processes
  BY DEF CodeInv, Processes
<1>2. UNCHANGED <<runs, projectJobs, queued, projected, age, vectors, asking, answer, requeues, rebuilds>>
  BY DEF ClaimEntities
<1>3. PICK t \in EmbedTask :
         /\ task' = [task EXCEPT ![w] = t]
         /\ t.read = {} /\ t.batch \subseteq entityJobs
         /\ entityJobs' \subseteq EntityEvent
         /\ \A j \in entityJobs' : \E k \in entityJobs : Same(j, k)
  BY <1>1, ClaimEntitiesEffect
<1>4. ProjectTaskFits(w, t) /\ EmbedTaskFits(t)
  <2>1. t \notin ProjectTask
    BY DEF ProjectTask, EmbedTask
  <2>. QED
    BY <1>1, <1>3, <2>1 DEF ProjectTaskFits, EmbedTaskFits, RowsSound
<1>5. task' \in [Processes -> ProjectTask \cup EmbedTask \cup {None}] /\ TasksFit'
  BY <1>1, <1>2, <1>3, <1>4, TaskStep
<1>6. \A j \in entityJobs' : j.n \in 1 .. queued
  BY <1>1, <1>3 DEF RowsSound, Same
<1>. QED
  BY <1>1, <1>2, <1>3, <1>5, <1>6, TaskOnly DEF CodeShape

\* Numbers below a bound have a greatest one.
LEMMA GreatestExists ==
    ASSUME NEW n \in Nat, NEW S, S \subseteq 0 .. n, S # {}
    PROVE  \E m \in S : \A k \in S : k <= m
<1>. SUFFICES ASSUME \A m \in S : \E k \in S : k > m PROVE FALSE
  OBVIOUS
<1>. DEFINE T == {k \in Nat : \E m \in S : m >= k}
<1>1. 0 \in T
  <2>1. PICK m \in S : TRUE
    OBVIOUS
  <2>2. m \in S /\ m >= 0
    BY <2>1
  <2>. QED
    BY <2>2
<1>2. ASSUME NEW k \in Nat, k \in T PROVE k + 1 \in T
  <2>1. PICK m \in S : m >= k
    BY <1>2
  <2>2. PICK l \in S : l > m
    OBVIOUS
  <2>3. m \in Nat /\ l \in Nat
    OBVIOUS
  <2>4. l >= k + 1
    BY <2>1, <2>2, <2>3
  <2>. QED
    BY <2>4
<1>3. Nat \subseteq T
  <2>. HIDE DEF T
  <2>. QED
    BY <1>1, <1>2, NatSetInduction
<1>4. n + 1 \in T
  <2>. HIDE DEF T
  <2>1. n + 1 \in Nat
    OBVIOUS
  <2>. QED
    BY <1>3, <2>1
<1>5. PICK m \in S : m >= n + 1
  BY <1>4
<1>. QED
  BY <1>5

\* What reading one symbol of a batch does.
LEMMA ReadEntityEffect ==
    ASSUME CodeShape, NEW w \in Replicas, ReadEntity(w)
    PROVE  /\ task[w] \in EmbedTask
           /\ \E j \in task[w].unread, t \in EmbedTask :
                /\ task' = [task EXCEPT ![w] = t] /\ t.unread = task[w].unread \ {j}
                /\ \/ /\ j.e \in Active /\ t.read = task[w].read \cup {[e |-> j.e, run |-> Len(runs)]}
                      /\ t.batch = task[w].batch /\ entityJobs' = entityJobs
                   \/ /\ j.e \notin Active /\ t.read = task[w].read
                      /\ t.batch = {k \in task[w].batch : ~Same(k, j)} /\ FailOutbox({j})
<1>1. task[w] \in EmbedTask /\ w \in Processes /\ Len(runs) \in Nat
  BY TaskKinds DEF ReadEntity, Processes, CodeShape
<1>2. PICK s : s = task[w]
  OBVIOUS
<1>3. PICK j \in s.unread :
        \/ /\ j.e \in Active
           /\ task' = [task EXCEPT ![w] = [s EXCEPT !.unread = s.unread \ {j},
                                           !.read = s.read \cup {[e |-> j.e, run |-> Len(runs)]}]]
           /\ UNCHANGED entityJobs
        \/ /\ j.e \notin Active
           /\ task' = [task EXCEPT ![w] = [s EXCEPT !.unread = s.unread \ {j},
                                           !.batch = {k \in s.batch : ~Same(k, j)}]]
           /\ FailOutbox({j})
  BY <1>2, Zenon DEF ReadEntity, Head0
<1>4. j \in EntityEvent /\ j.e \in Symbols
  BY <1>1, <1>2, CodeAssumption DEF EmbedTask, EntityEvent, CodeAssumption
<1>5. CASE j.e \in Active
  <2>1. PICK more \in SUBSET [e : Symbols, run : Nat] : more = s.read \cup {[e |-> j.e, run |-> Len(runs)]}
    <3>1. [e |-> j.e, run |-> Len(runs)] \in [e : Symbols, run : Nat]
      BY <1>1, <1>4
    <3>2. s.read \subseteq [e : Symbols, run : Nat]
      BY <1>1, <1>2 DEF EmbedTask
    <3>. QED
      BY <3>1, <3>2
  <2>2. PICK t : t = [s EXCEPT !.unread = s.unread \ {j}, !.read = more]
    OBVIOUS
  <2>3. /\ t \in EmbedTask /\ t.unread = s.unread \ {j} /\ t.batch = s.batch
        /\ t.read = more
    BY <1>1, <1>2, <2>2 DEF EmbedTask
  <2>. QED
    BY <1>1, <1>2, <1>3, <1>5, <2>1, <2>2, <2>3
<1>6. CASE j.e \notin Active
  <2>1. PICK b : b = {k \in s.batch : ~Same(k, j)}
    OBVIOUS
  <2>2. PICK t : t = [s EXCEPT !.unread = s.unread \ {j}, !.batch = b]
    OBVIOUS
  <2>3. t \in EmbedTask /\ t.unread = s.unread \ {j} /\ t.batch = b /\ t.read = s.read
    BY <1>1, <1>2, <2>1, <2>2 DEF EmbedTask
  <2>. QED
    BY <1>1, <1>2, <1>3, <1>6, <2>1, <2>2, <2>3
<1>. QED
  BY <1>5, <1>6

LEMMA ReadEntityKeeps ==
    ASSUME CodeInv, NEW w \in Replicas, ReadEntity(w)
    PROVE  CodeInv'
<1>1. CodeShape /\ TasksFit /\ RowsSound /\ w \in Processes
  BY DEF CodeInv, Processes
<1>2. UNCHANGED <<runs, projectJobs, queued, projected, age, vectors, asking, answer, requeues, rebuilds>>
  BY DEF ReadEntity
<1>3. task[w] \in EmbedTask /\ EmbedTaskFits(task[w])
  BY <1>1, ReadEntityEffect DEF TasksFit
<1>4. PICK j \in task[w].unread, t \in EmbedTask :
         /\ task' = [task EXCEPT ![w] = t]
         /\ \/ /\ j.e \in Active /\ t.read = task[w].read \cup {[e |-> j.e, run |-> Len(runs)]}
               /\ t.batch = task[w].batch /\ entityJobs' = entityJobs
            \/ /\ t.read = task[w].read
               /\ t.batch = {k \in task[w].batch : ~Same(k, j)} /\ FailOutbox({j})
  BY <1>1, ReadEntityEffect
<1>5. /\ \A r \in t.read : r.run \in 1 .. Len(runs)
      /\ t.batch \subseteq task[w].batch
  <2>1. Len(runs) \in Nat
    BY <1>1 DEF CodeShape
  <2>2. j.e \in Active => Len(runs) \in 1 .. Len(runs)
    BY <2>1 DEF Active, Head0
  <2>3. \A r \in task[w].read : r.run \in 1 .. Len(runs)
    BY <1>3 DEF EmbedTaskFits
  <2>. QED
    BY <1>4, <2>2, <2>3
<1>6. ProjectTaskFits(w, t) /\ EmbedTaskFits(t)
  <2>1. t \notin ProjectTask
    BY DEF ProjectTask, EmbedTask
  <2>. QED
    BY <1>3, <1>5, <2>1 DEF ProjectTaskFits, EmbedTaskFits
<1>7. task' \in [Processes -> ProjectTask \cup EmbedTask \cup {None}] /\ TasksFit'
  BY <1>1, <1>2, <1>4, <1>6, TaskStep
<1>8. entityJobs' \subseteq EntityEvent /\ \A k \in entityJobs' : k.n \in 1 .. queued
  <2>1. CASE entityJobs' = entityJobs
    BY <1>1, <2>1 DEF CodeShape, RowsSound
  <2>2. CASE FailOutbox({j})
    <3>1. entityJobs' \subseteq EntityEvent /\ \A k \in entityJobs' : \E l \in entityJobs : Same(k, l)
      BY <1>1, <2>2, FailOutboxEffect DEF CodeShape
    <3>. QED
      BY <1>1, <3>1 DEF RowsSound, Same
  <2>. QED
    BY <1>4, <2>1, <2>2
<1>. QED
  BY <1>1, <1>2, <1>7, <1>8, TaskOnly DEF CodeShape

\* Of a symbol that was read the newest analysis it was read from is embedded.
LEMMA LastReadIsOne ==
    ASSUME CodeShape, NEW t \in EmbedTask, EmbedTaskFits(t), NEW e, NEW q \in t.read, q.e = e
    PROVE  /\ \E r \in t.read : r.e = e /\ LastRead(t.read, e) = r.run
           /\ \A r \in t.read : r.e = e => r.run <= LastRead(t.read, e)
<1>. DEFINE S == {r.run : r \in {x \in t.read : x.e = e}}
<1>1. S \subseteq 0 .. Len(runs) /\ q.run \in S /\ Len(runs) \in Nat
  BY DEF EmbedTaskFits, CodeShape
<1>2. PICK m \in S : \A k \in S : k <= m
  BY <1>1, GreatestExists
<1>3. \A r \in t.read : r.e = e => r.run \in S
  OBVIOUS
<1>4. \A r \in t.read : r.e = e => r.run <= m
  BY <1>2, <1>3
<1>5. LastRead(t.read, e) \in S /\ \A r \in t.read : r.e = e => r.run <= LastRead(t.read, e)
  <2>1. LastRead(t.read, e) = CHOOSE n \in S : \A r \in t.read : r.e = e => r.run <= n
    BY DEF LastRead
  <2>. HIDE DEF S
  <2>. QED
    BY <1>2, <1>4, <2>1, Zenon
<1>. QED
  BY <1>5

LEMMA UpsertKeeps ==
    ASSUME CodeInv, NEW w \in Replicas, UpsertCodeEntities(w)
    PROVE  CodeInv'
<1>1. /\ CodeShape /\ RowsSound /\ ProjectionIsPart /\ TasksFit /\ QuestionFollows /\ AnswerNames
      /\ AnswersFollowOneAnalysis /\ w \in Processes
  BY DEF CodeInv, Processes
<1>2. /\ UNCHANGED <<runs, projectJobs, queued, projected, age, asking, answer, requeues, rebuilds>>
      /\ entityJobs' \subseteq entityJobs /\ task' = [task EXCEPT ![w] = None]
  BY DEF UpsertCodeEntities
<1>3. PICK t \in EmbedTask : t = task[w] /\ EmbedTaskFits(t)
  BY <1>1, TaskKinds DEF UpsertCodeEntities, TasksFit
<1>4. vectors' = [e \in Symbols |-> IF \E r \in t.read : r.e = e THEN LastRead(t.read, e) ELSE vectors[e]]
  BY <1>3 DEF UpsertCodeEntities
<1>5. ASSUME NEW e \in Symbols
      PROVE  (IF \E r \in t.read : r.e = e THEN LastRead(t.read, e) ELSE vectors[e]) \in 0 .. Len(runs)
  <2>1. CASE \E r \in t.read : r.e = e
    <3>1. PICK r \in t.read : LastRead(t.read, e) = r.run
      BY <1>1, <1>3, <2>1, LastReadIsOne
    <3>2. r.run \in 1 .. Len(runs)
      BY <1>3 DEF EmbedTaskFits
    <3>. QED
      BY <2>1, <3>1, <3>2
  <2>2. CASE ~\E r \in t.read : r.e = e
    BY <1>1, <2>2 DEF CodeShape
  <2>. QED
    BY <2>1, <2>2
<1>6. vectors' \in [Symbols -> 0 .. Len(runs)]
  BY <1>4, <1>5
<1>7. task' \in [Processes -> ProjectTask \cup EmbedTask \cup {None}] /\ TasksFit'
  BY <1>1, <1>2, DropTask
<1>8. CodeShape'
  BY <1>1, <1>2, <1>6, <1>7 DEF CodeShape
<1>9. RowsSound'
  BY <1>1, <1>2 DEF RowsSound
<1>. QED
  BY <1>1, <1>2, <1>7, <1>8, <1>9, SameGraph, SameQuestion, SameAnswer DEF CodeInv

\* The reindex and compact commands only touch the events.
LEMMA OutboxKeeps ==
    ASSUME CodeInv,
           UNCHANGED <<runs, projectJobs, projected, age, vectors, task, asking, answer, rebuilds>>,
           queued' \in Nat, queued <= queued', requeues' \in Nat, entityJobs' \subseteq EntityEvent,
           \A j \in entityJobs' : j.n \in 1 .. queued'
    PROVE  CodeInv'
<1>1. /\ CodeShape /\ RowsSound /\ ProjectionIsPart /\ TasksFit /\ QuestionFollows /\ AnswerNames
      /\ AnswersFollowOneAnalysis
  BY DEF CodeInv
<1>2. CodeShape'
  BY <1>1 DEF CodeShape
<1>3. RowsSound'
  BY <1>1 DEF RowsSound
<1>. QED
  BY <1>1, <1>2, <1>3, SameTasks, SameGraph, SameQuestion, SameAnswer DEF CodeInv

LEMMA RequeueKeeps == CodeInv /\ RequeueCodeEntities => CodeInv'
<1>. SUFFICES ASSUME CodeInv, RequeueCodeEntities PROVE CodeInv'
  OBVIOUS
<1>1. CodeShape /\ RowsSound /\ queued \in Nat /\ requeues \in Nat
  BY DEF CodeInv, CodeShape
<1>2. /\ UNCHANGED <<runs, projectJobs, projected, age, vectors, task, asking, answer, rebuilds>>
      /\ queued' = queued + 1 /\ requeues' = requeues + 1
      /\ entityJobs' = entityJobs \cup EntityEvents(Active)
  BY DEF RequeueCodeEntities
<1>3. EntityEvents(Active) \subseteq EntityEvent /\ \A j \in EntityEvents(Active) : j.n = queued + 1
  BY <1>1, EventsTyped
<1>4. entityJobs' \subseteq EntityEvent /\ \A j \in entityJobs' : j.n \in 1 .. queued'
  BY <1>1, <1>2, <1>3 DEF CodeShape, RowsSound
<1>. QED
  BY <1>1, <1>2, <1>4, OutboxKeeps

LEMMA CompactKeeps == CodeInv /\ CompactCodeEntityOutbox => CodeInv'
<1>. SUFFICES ASSUME CodeInv, CompactCodeEntityOutbox PROVE CodeInv'
  OBVIOUS
<1>1. CodeShape /\ RowsSound /\ queued \in Nat /\ requeues \in Nat
  BY DEF CodeInv, CodeShape
<1>2. /\ UNCHANGED <<runs, projectJobs, queued, projected, age, vectors, task, asking, answer, requeues, rebuilds>>
      /\ entityJobs' \subseteq entityJobs
  BY DEF CompactCodeEntityOutbox
<1>3. entityJobs' \subseteq EntityEvent /\ \A j \in entityJobs' : j.n \in 1 .. queued'
  BY <1>1, <1>2 DEF CodeShape, RowsSound
<1>. QED
  BY <1>1, <1>2, <1>3, OutboxKeeps

\* A step of a question keeps the invariant if the question and the answer do.
LEMMA QuestionOnly ==
    ASSUME CodeInv,
           UNCHANGED <<runs, projectJobs, entityJobs, queued, projected, age, vectors, task, requeues, rebuilds>>,
           asking' \in Question \cup {None}, answer' \in Answer \cup {None},
           QuestionFollows', AnswerNames', AnswersFollowOneAnalysis'
    PROVE  CodeInv'
<1>1. CodeShape /\ RowsSound /\ ProjectionIsPart /\ TasksFit
  BY DEF CodeInv
<1>2. CodeShape'
  BY <1>1 DEF CodeShape
<1>3. queued \in Nat /\ queued <= queued'
  BY <1>1 DEF CodeShape
<1>. QED
  BY <1>1, <1>2, <1>3, SameTasks, SameRows, SameGraph DEF CodeInv

LEMMA OpenExpansionKeeps == CodeInv /\ OpenExpansion => CodeInv'
<1>. SUFFICES ASSUME CodeInv, OpenExpansion PROVE CodeInv'
  OBVIOUS
<1>1. UNCHANGED <<runs, projectJobs, entityJobs, queued, projected, age, vectors, task, requeues, rebuilds>>
  BY DEF OpenExpansion
<1>2. PICK n \in Nat : n = Len(runs)
  BY DEF CodeInv, CodeShape
<1>3. Root \in Active => n # 0 /\ Root \in runs[n].ents
  BY <1>2 DEF Active, Head0
<1>4. PICK step, run : /\ step = IF Root \in Active THEN "verify" ELSE "fallback"
                       /\ run = IF Root \in Active THEN n ELSE 0
  OBVIOUS
<1>5. asking' = [step |-> step, run |-> run, ids |-> {}, moved |-> "no"]
  BY <1>2, <1>4 DEF OpenExpansion, Head0
<1>6. asking' \in Question /\ asking'.step = step /\ asking'.run = run
  BY <1>2, <1>4, <1>5 DEF Question
<1>7. QuestionFollows'
  BY <1>1, <1>2, <1>3, <1>4, <1>6 DEF QuestionFollows
<1>8. answer' = None
  BY DEF OpenExpansion
<1>. QED
  BY <1>1, <1>6, <1>7, <1>8, QuestionOnly DEF AnswerNames, AnswersFollowOneAnalysis

\* The question of a step, with what is known of it.
LEMMA TheQuestion ==
    ASSUME CodeInv, asking # None
    PROVE  asking \in Question /\ asking.run \in 0 .. Len(runs) /\ QuestionFollows /\ None \notin Question
BY CodeRowAssumption DEF CodeInv, CodeShape, QuestionFollows, CodeRowAssumption

LEMMA VerifyProjectionKeeps == CodeInv /\ VerifyProjection => CodeInv'
<1>. SUFFICES ASSUME CodeInv, VerifyProjection PROVE CodeInv'
  OBVIOUS
<1>1. /\ UNCHANGED <<runs, projectJobs, entityJobs, queued, projected, age, vectors, task, requeues, rebuilds>>
      /\ answer' = answer
  BY DEF VerifyProjection
<1>2. asking \in Question /\ QuestionFollows /\ asking # None /\ asking.step = "verify"
  BY TheQuestion DEF VerifyProjection, Asked
<1>3. PICK step \in {"traverse", "fallback"} :
         /\ asking' = [asking EXCEPT !.step = step, !.moved = "no"]
         /\ step = "traverse" => asking.run = projected
  BY DEF VerifyProjection, Verified, CodeProjectionCurrent
<1>4. /\ asking' \in Question /\ asking'.step = step /\ asking'.run = asking.run /\ asking'.moved = "no"
  BY <1>2, <1>3 DEF Question
<1>5. QuestionFollows'
  BY <1>1, <1>2, <1>3, <1>4 DEF QuestionFollows
<1>. QED
  BY <1>1, <1>4, <1>5, QuestionOnly, SameAnswer DEF CodeInv, CodeShape

\* The edges of a graph join its symbols and the repository.
LEMMA EdgesStay ==
    ASSUME NEW g \in Graphs
    PROVE  \A r \in Edges(g) : r \subseteq Symbols \cup {Repo}
BY DEF Graphs, Edges, Contained

LEMMA TraverseKeeps == CodeInv /\ Traverse => CodeInv'
<1>. SUFFICES ASSUME CodeInv, Traverse PROVE CodeInv'
  OBVIOUS
<1>1. /\ UNCHANGED <<runs, projectJobs, entityJobs, queued, projected, age, vectors, task, requeues, rebuilds>>
      /\ answer' = answer
  BY DEF Traverse
<1>2. asking \in Question /\ QuestionFollows /\ asking # None /\ asking.step = "traverse"
  BY TheQuestion DEF Traverse, Asked
<1>3. PICK run \in 1 .. Len(runs) : run = asking.run
  BY <1>2 DEF QuestionFollows
<1>4. PICK ids : ids = {Root} \cup (IF Root \in age.ents THEN Within(Edges(age)) \ {Repo} ELSE {})
  OBVIOUS
<1>5. asking' = [asking EXCEPT !.step = "again", !.ids = ids]
  BY <1>4 DEF Traverse
<1>6. Root \in Symbols
  BY CodeAssumption DEF CodeAssumption
<1>7. age \in Graphs /\ runs[run] \in Graphs /\ ProjectionIsPart
  BY DEF CodeInv, CodeShape
<1>8. ids \subseteq Symbols
  <2>1. Within(Edges(age)) \subseteq Symbols \cup {Repo}
    BY <1>6, <1>7, EdgesStay, WithinStays
  <2>. QED
    BY <1>4, <1>6, <2>1
<1>9. projected = run => ids \subseteq Reach(run)
  <2>. SUFFICES ASSUME projected = run PROVE ids \subseteq Within(Edges(runs[run]))
    BY DEF Reach
  <2>1. age.ents \subseteq runs[run].ents /\ age.rels \subseteq runs[run].rels
    BY <1>3, <1>7 DEF ProjectionIsPart, PartOf
  <2>2. Edges(age) \subseteq Edges(runs[run])
    BY <2>1 DEF Edges, Contained
  <2>3. Within(Edges(age)) \subseteq Within(Edges(runs[run]))
    BY <2>2, WithinGrows
  <2>4. Root \in Within(Edges(runs[run]))
    BY <1>6, <1>7, EdgesStay, WithinStays
  <2>. QED
    BY <1>4, <2>3, <2>4
<1>10. /\ asking' \in Question /\ asking'.step = "again" /\ asking'.run = run
       /\ asking'.moved = asking.moved /\ asking'.ids = ids
  BY <1>2, <1>3, <1>5, <1>8 DEF Question
<1>11. QuestionFollows'
  <2>1. asking.moved = "no" => projected = run
    BY <1>2, <1>3 DEF QuestionFollows
  <2>2. asking.moved = "away" => projected # run
    BY <1>2, <1>3 DEF QuestionFollows
  <2>3. Root \in runs[run].ents
    BY <1>2, <1>3 DEF QuestionFollows
  <2>4. Reach(run)' = Reach(run)
    BY <1>1 DEF Reach
  <2>. QED
    BY <1>1, <1>3, <1>9, <1>10, <2>1, <2>2, <2>3, <2>4 DEF QuestionFollows, Reach
<1>. QED
  BY <1>1, <1>10, <1>11, QuestionOnly, SameAnswer DEF CodeInv, CodeShape

LEMMA VerifyTraversalKeeps == CodeInv /\ VerifyTraversal => CodeInv'
<1>. SUFFICES ASSUME CodeInv, VerifyTraversal PROVE CodeInv'
  OBVIOUS
<1>1. /\ UNCHANGED <<runs, projectJobs, entityJobs, queued, projected, age, vectors, task, requeues, rebuilds>>
      /\ answer' = answer
  BY DEF VerifyTraversal
<1>2. asking \in Question /\ QuestionFollows /\ asking # None /\ asking.step = "again"
  BY TheQuestion DEF VerifyTraversal, Asked
<1>3. PICK step \in {"hydrate", "fallback"} :
         /\ asking' = [asking EXCEPT !.step = step]
         /\ step = "hydrate" => asking.run = projected
  BY DEF VerifyTraversal, Reverified, Verified, CodeProjectionCurrent
<1>4. /\ asking' \in Question /\ asking'.step = step /\ asking'.run = asking.run
      /\ asking'.moved = asking.moved /\ asking'.ids = asking.ids
  BY <1>2, <1>3 DEF Question
<1>5. QuestionFollows'
  BY <1>1, <1>2, <1>3, <1>4 DEF QuestionFollows, Reach
<1>. QED
  BY <1>1, <1>4, <1>5, QuestionOnly, SameAnswer DEF CodeInv, CodeShape

\* The traversal is returned: what the active analysis has of it.
LEMMA AnswerExpansionKeeps == CodeInv /\ AnswerExpansion => CodeInv'
<1>. SUFFICES ASSUME CodeInv, AnswerExpansion PROVE CodeInv'
  OBVIOUS
<1>1. UNCHANGED <<runs, projectJobs, entityJobs, queued, projected, age, vectors, task, requeues, rebuilds>>
  BY DEF AnswerExpansion
<1>2. asking \in Question /\ QuestionFollows /\ asking # None /\ asking.step = "hydrate"
  BY TheQuestion DEF AnswerExpansion, Asked
<1>3. PICK run \in 1 .. Len(runs), ids \in SUBSET Symbols : run = asking.run /\ ids = asking.ids
  BY <1>2 DEF QuestionFollows, Question
<1>4. PICK graph : graph = HydrateCodeGraph(run, ids)
  OBVIOUS
<1>5. CASE graph.ents = {}
  <2>1. asking' = [asking EXCEPT !.step = "fallback"] /\ answer' = answer
    BY <1>3, <1>4, <1>5 DEF AnswerExpansion
  <2>2. asking' \in Question /\ asking'.step = "fallback" /\ asking'.run = run
    BY <1>2, <1>3, <2>1 DEF Question
  <2>3. QuestionFollows'
    BY <1>1, <1>3, <2>2 DEF QuestionFollows
  <2>. QED
    BY <1>1, <2>1, <2>2, <2>3, QuestionOnly, SameAnswer DEF CodeInv, CodeShape
<1>6. CASE graph.ents # {}
  <2>1. PICK moved : moved = asking.moved
    OBVIOUS
  <2>2. PICK a : a = [backend |-> "age", run |-> run, graph |-> graph, moved |-> moved]
    OBVIOUS
  <2>3. asking' = None /\ answer' = a
    BY <1>3, <1>4, <1>6, <2>1, <2>2 DEF AnswerExpansion
  <2>4. /\ graph \in Graphs /\ Normalized(graph) /\ graph.ents = ids \cap runs[run].ents
        /\ graph.rels = {r \in runs[run].rels : r \subseteq graph.ents}
    BY <1>4, <1>6, HydrateIsPart
  <2>5. moved \in {"no", "away", "back"} /\ moved # "away" /\ (moved = "no" => ids \subseteq Reach(run))
    BY <1>2, <1>3, <2>1 DEF QuestionFollows, Question
  <2>6. /\ a \in Answer /\ a.backend = "age" /\ a.run = run /\ a.graph = graph /\ a.moved = moved
    BY <2>2, <2>4, <2>5 DEF Answer
  <2>7. QuestionFollows'
    BY <2>3 DEF QuestionFollows
  <2>8. AnswerNames'
    BY <1>1, <1>3, <2>3, <2>4, <2>6 DEF AnswerNames
  <2>9. AnswersFollowOneAnalysis'
    <3>1. moved = "back" \/ graph.ents \subseteq Within(Edges(runs[run]))
      BY <2>4, <2>5 DEF Reach
    <3>. QED
      BY <1>1, <2>3, <2>4, <2>6, <3>1 DEF AnswersFollowOneAnalysis
  <2>. QED
    BY <1>1, <2>3, <2>6, <2>7, <2>8, <2>9, QuestionOnly
<1>. QED
  BY <1>5, <1>6

\* The recursive store never leaves the symbols of the active analysis.
LEMMA GetCodeGraphIsExact ==
    ASSUME CodeInv
    PROVE  /\ GetCodeGraph \in Graphs /\ Normalized(GetCodeGraph)
           /\ GetCodeGraph.ents # {} =>
                 /\ Len(runs) # 0 /\ GetCodeGraph.ents = Within(runs[Len(runs)].rels)
                 /\ GetCodeGraph.rels = {r \in runs[Len(runs)].rels : r \subseteq GetCodeGraph.ents}
<1>1. Nothing \in Graphs /\ Normalized(Nothing) /\ Nothing.ents = {}
  BY DEF Nothing, Graphs, Normalized
<1>2. CASE Root \notin Active
  <2>1. GetCodeGraph = Nothing
    BY <1>2 DEF GetCodeGraph
  <2>. QED
    BY <1>1, <2>1
<1>3. CASE Root \in Active
  <2>1. PICK n \in 1 .. Len(runs) : n = Len(runs)
    BY <1>3 DEF Active, Head0, CodeInv, CodeShape
  <2>2. Root \in runs[n].ents /\ n # 0
    BY <1>3, <2>1 DEF Active, Head0
  <2>3. Normalized(runs[n])
    BY <2>1 DEF CodeInv, RowsSound
  <2>4. PICK reach : reach = Within(runs[n].rels)
    OBVIOUS
  <2>5. reach \subseteq runs[n].ents
    BY <2>2, <2>3, <2>4, WithinStays DEF Normalized
  <2>6. PICK g : g = HydrateCodeGraph(n, reach)
    OBVIOUS
  <2>7. GetCodeGraph = g
    BY <1>3, <2>1, <2>4, <2>6 DEF GetCodeGraph, Head0
  <2>8. /\ g \in Graphs /\ Normalized(g)
        /\ g.ents # {} =>
              /\ g.ents = reach \cap runs[n].ents
              /\ g.rels = {r \in runs[n].rels : r \subseteq reach \cap runs[n].ents}
    BY <2>1, <2>6, HydrateIsPart
  <2>. QED
    BY <2>1, <2>2, <2>4, <2>5, <2>7, <2>8
<1>. QED
  BY <1>2, <1>3

LEMMA FallbackKeeps == CodeInv /\ Fallback => CodeInv'
<1>. SUFFICES ASSUME CodeInv, Fallback PROVE CodeInv'
  OBVIOUS
<1>1. /\ UNCHANGED <<runs, projectJobs, entityJobs, queued, projected, age, vectors, task, requeues, rebuilds>>
      /\ asking' = None
  BY DEF Fallback
<1>2. PICK n \in Nat : n = Len(runs)
  BY DEF CodeInv, CodeShape
<1>3. PICK graph \in Graphs :
         /\ graph = GetCodeGraph /\ Normalized(graph)
         /\ graph.ents # {} =>
               /\ n # 0 /\ graph.ents = Within(runs[n].rels)
               /\ graph.rels = {r \in runs[n].rels : r \subseteq graph.ents}
  BY <1>2, GetCodeGraphIsExact
<1>4. PICK a : a = [backend |-> "recursive", run |-> n, graph |-> graph, moved |-> "no"]
  OBVIOUS
<1>5. answer' = a
  BY <1>2, <1>3, <1>4 DEF Fallback, Head0
<1>6. a \in Answer /\ a.backend = "recursive" /\ a.run = n /\ a.graph = graph
  BY <1>2, <1>4 DEF Answer
<1>7. QuestionFollows'
  BY <1>1 DEF QuestionFollows
<1>8. AnswerNames'
  BY <1>1, <1>2, <1>3, <1>5, <1>6 DEF AnswerNames
<1>9. AnswersFollowOneAnalysis'
  BY <1>1, <1>3, <1>5, <1>6 DEF AnswersFollowOneAnalysis
<1>. QED
  BY <1>1, <1>5, <1>6, <1>7, <1>8, <1>9, QuestionOnly

LEMMA StutterKeepsCode == CodeInv /\ UNCHANGED codeVars => CodeInv'
<1>. SUFFICES ASSUME CodeInv, UNCHANGED codeVars PROVE CodeInv'
  OBVIOUS
<1>1. /\ UNCHANGED <<runs, projectJobs, entityJobs, queued, projected, age, vectors, task, requeues, rebuilds>>
      /\ asking' = asking /\ answer' = answer
  BY DEF codeVars
<1>. QED
  BY <1>1, QuestionOnly, SameQuestion, SameAnswer DEF CodeInv, CodeShape

LEMMA NextCode == CodeInv /\ [CodeNext]_codeVars => CodeInv'
<1>. SUFFICES ASSUME CodeInv, [CodeNext]_codeVars PROVE CodeInv'
  OBVIOUS
<1>1. ASSUME NEW w \in Replicas, ProjectCodeGraph(w) PROVE CodeInv'
  <2>1. w \in Processes /\ projectJobs' \subseteq projectJobs
    BY <1>1 DEF ProjectCodeGraph, Processes
  <2>. QED
    BY <1>1, <2>1, ProjectionKeeps DEF ProjectCodeGraph
<1>2. ASSUME Rebuild PROVE CodeInv'
  <2>1. Admin \in Processes /\ projectJobs' \subseteq projectJobs
    BY <1>2 DEF Rebuild, Processes
  <2>. QED
    BY <1>2, <2>1, ProjectionKeeps DEF Rebuild
<1>3. CASE UNCHANGED codeVars
  BY <1>3, StutterKeepsCode
<1>4. CASE GraphNext
  BY <1>1, <1>2, <1>4, IndexKeeps, StartRebuildKeeps, OpenExpansionKeeps, VerifyProjectionKeeps,
     TraverseKeeps, VerifyTraversalKeeps, AnswerExpansionKeeps, FallbackKeeps, ClaimProjectionKeeps,
     CheckRunKeeps, ReadAnalysisKeeps, ReadGraphKeeps, TaskFailsKeeps DEF GraphNext, Processes
<1>5. CASE VectorNext
  BY <1>5, IndexKeeps, RequeueKeeps, CompactKeeps, ClaimEntitiesKeeps, ReadEntityKeeps, UpsertKeeps,
     TaskFailsKeeps DEF VectorNext, Processes
<1>. QED
  BY <1>3, <1>4, <1>5 DEF CodeNext

LEMMA CodeInvariant == CodeSpec => []CodeInv
BY InitCode, NextCode, PTL DEF CodeSpec

\* Every row is of an analysis that exists, and what is stored, projected or
\* answered is a graph, for any number of replicas and analyses (StoreCodeGraph,
\* projectCodeGraph).
THEOREM CodeTypes == CodeSpec => []CodeTypeOK
<1>1. CodeInv => CodeTypeOK
  <2>. SUFFICES ASSUME CodeInv PROVE CodeTypeOK
    OBVIOUS
  <2>1. CodeShape /\ RowsSound /\ ProjectionIsPart /\ QuestionFollows /\ AnswerNames /\ Len(runs) \in Nat
    BY DEF CodeInv, CodeShape
  <2>2. \A g \in Graphs : Normalized(g) => IsGraph(g)
    BY DEF Graphs, Normalized, IsGraph
  <2>3. Normalized(age)
    BY <2>1 DEF ProjectionIsPart, PartOf, Normalized, Nothing
  <2>4. Len(runs) <= MaxRuns /\ \A i \in 1 .. Len(runs) : IsGraph(runs[i])
    BY <2>1, <2>2 DEF CodeShape, RowsSound
  <2>5. \A j \in entityJobs : j.n \in 1 .. queued /\ j.e \in Indexable /\ j.locked \in BOOLEAN
    BY <2>1 DEF CodeShape, RowsSound, EntityEvent
  <2>6. asking # None => asking.run \in 0 .. Len(runs)
    BY <2>1 DEF QuestionFollows
  <2>7. answer # None => IsGraph(answer.graph)
    BY <2>1, <2>2 DEF AnswerNames, CodeShape, Answer
  <2>. QED
    BY <2>1, <2>2, <2>3, <2>4, <2>5, <2>6, <2>7 DEF CodeTypeOK, Head0, CodeShape
<1>. QED
  BY <1>1, CodeInvariant, PTL

\* An answer is of one analysis, whatever jobs, rebuilds and new analyses fall
\* between the reads it is put together from (ExpandCodeGraph, HydrateCodeGraph,
\* GetCodeGraph).
THEOREM AnswerOfOneAnalysis == CodeSpec => []AnswersFollowOneAnalysis
<1>1. CodeInv => AnswersFollowOneAnalysis
  BY DEF CodeInv
<1>. QED
  BY <1>1, CodeInvariant, PTL

-----------------------------------------------------------------------------
(* One replica *)

\* What the steps of a copy do to the task and to its job: a job is only closed
\* without a copy when its run was overtaken.
LEMMA CopyEffect ==
    ASSUME CodeInv, NEW p \in Processes, CheckRun(p) \/ ReadAnalysis(p) \/ ReadGraph(p)
    PROVE  /\ ~Idle(p) /\ task[p] \in ProjectTask
           /\ \E t : /\ task' = [task EXCEPT ![p] = t] /\ t \notin EmbedTask
                     /\ \/ t = None
                        \/ /\ t \in ProjectTask /\ t.run = task[p].run
                           /\ p = Admin \/ t.run = Len(runs) \/ task[p].step # "check"
           /\ Len(runs) \in projectJobs <=> Len(runs) \in projectJobs'
           /\ UNCHANGED <<runs, entityJobs, projected, age, vectors, rebuilds>>
<1>1. CodeShape
  BY DEF CodeInv
<1>2. CASE CheckRun(p)
  <2>1. task[p] \in ProjectTask /\ task[p].step = "check" /\ ~Idle(p)
    BY <1>1, <1>2, TaskKinds DEF CheckRun, Doing, Idle
  <2>2. UNCHANGED <<runs, entityJobs, projected, age, vectors, rebuilds>>
    BY <1>2 DEF CheckRun
  <2>3. CASE task' = [task EXCEPT ![p] = None] /\ task[p].run # Len(runs) /\ projectJobs' = projectJobs \ {task[p].run}
    BY <2>1, <2>2, <2>3, NoTask
  <2>4. ASSUME NEW step \in {"analysis", "write"}, task' = [task EXCEPT ![p].step = step],
               task[p].run = Len(runs) \/ p = Admin, projectJobs' = projectJobs
        PROVE  \E t : /\ task' = [task EXCEPT ![p] = t] /\ t \notin EmbedTask
                      /\ t \in ProjectTask /\ t.run = task[p].run
    <3>1. PICK t : t = [task[p] EXCEPT !.step = step]
      OBVIOUS
    <3>2. task' = [task EXCEPT ![p] = t]
      BY <2>4, <3>1
    <3>3. t \in ProjectTask /\ t \notin EmbedTask /\ t.run = task[p].run
      BY <2>1, <3>1 DEF ProjectTask, EmbedTask
    <3>. QED
      BY <3>2, <3>3
  <2>5. CASE \E step \in {"analysis", "write"} :
                 /\ task' = [task EXCEPT ![p].step = step]
                 /\ task[p].run = Len(runs) \/ p = Admin
                 /\ projectJobs' = projectJobs
    <3>1. PICK t : /\ task' = [task EXCEPT ![p] = t] /\ t \notin EmbedTask
                   /\ t \in ProjectTask /\ t.run = task[p].run
      BY <2>4, <2>5, Zenon
    <3>2. task[p].run = Len(runs) \/ p = Admin
      BY <2>5
    <3>3. projectJobs' = projectJobs
      BY <2>5
    <3>. QED
      BY <2>1, <2>2, <3>1, <3>2, <3>3
  <2>. QED
    BY <1>2, <2>3, <2>5 DEF CheckRun, Head0
<1>3. CASE ReadAnalysis(p)
  <2>1. task[p] \in ProjectTask /\ task[p].step = "analysis" /\ ~Idle(p) /\ Len(runs) \in Nat
    BY <1>1, <1>3, TaskKinds DEF ReadAnalysis, Doing, Idle, CodeShape
  <2>2. UNCHANGED <<runs, projectJobs, entityJobs, projected, age, vectors, rebuilds>>
    BY <1>3 DEF ReadAnalysis
  <2>3. PICK t : t = [task[p] EXCEPT !.step = "hydrate", !.analysis = Len(runs)]
    OBVIOUS
  <2>4. task' = [task EXCEPT ![p] = t]
    BY <1>1, <1>3, <2>3 DEF ReadAnalysis, Head0, CodeShape
  <2>5. t \in ProjectTask /\ t \notin EmbedTask /\ t.run = task[p].run
    BY <2>1, <2>3 DEF ProjectTask, EmbedTask
  <2>. QED
    BY <2>1, <2>2, <2>4, <2>5
<1>4. CASE ReadGraph(p)
  <2>1. task[p] \in ProjectTask /\ task[p].step = "hydrate" /\ ~Idle(p) /\ ProjectTaskFits(p, task[p])
    BY <1>1, <1>4, TaskKinds DEF ReadGraph, Doing, Idle, CodeInv, TasksFit
  <2>2. UNCHANGED <<runs, projectJobs, entityJobs, projected, age, vectors, rebuilds>>
    BY <1>4 DEF ReadGraph
  <2>3. PICK run \in 1 .. Len(runs), i \in 1 .. Len(runs) : run = task[p].run /\ i = task[p].analysis
    BY <2>1 DEF ProjectTaskFits
  <2>4. PICK graph \in Graphs : graph = HydrateCodeGraph(i, runs[run].ents)
    BY HydrateIsPart
  <2>5. PICK t : t = IF graph.ents = {} THEN None ELSE [task[p] EXCEPT !.step = "write", !.graph = graph]
    OBVIOUS
  <2>6. task' = [task EXCEPT ![p] = t]
    BY <1>4, <2>3, <2>4, <2>5 DEF ReadGraph
  <2>7. t \notin EmbedTask /\ (t = None \/ (t \in ProjectTask /\ t.run = task[p].run))
    <3>1. PICK u : u = [task[p] EXCEPT !.step = "write", !.graph = graph]
      OBVIOUS
    <3>2. u \in ProjectTask /\ u \notin EmbedTask /\ u.run = task[p].run
      BY <2>1, <3>1 DEF ProjectTask, EmbedTask
    <3>. QED
      BY <2>5, <3>1, <3>2, NoTask
  <2>. QED
    BY <2>1, <2>2, <2>6, <2>7
<1>. QED
  BY <1>2, <1>3, <1>4

\* Steps that leave the analyses and the projection alone.
LEMMA ProjectionFrame ==
    ASSUME NEW w \in Replicas, ProjectionInv(w), UNCHANGED <<runs, projected, age, rebuilds>>,
           Len(runs) \in projectJobs <=> Len(runs) \in projectJobs',
           task'[Admin] = task[Admin] \/ task'[Admin] = None,
           \/ task'[w] = task[w] \/ task'[w] \notin ProjectTask
           \/ task'[w].step = "check" \/ task'[w].run = Len(runs)
           \/ task[w] \in ProjectTask /\ task[w].step # "check" /\ task'[w].run = task[w].run
    PROVE  ProjectionInv(w)'
BY DEF ProjectionInv

\* Steps that leave the analyses and the vectors alone, and every event open.
LEMMA VectorFrame ==
    ASSUME NEW w \in Replicas, VectorInv(w), UNCHANGED <<runs, vectors>>,
           \A k \in entityJobs : \E j \in entityJobs' : Same(j, k),
           task'[w] = task[w] \/ task'[w] \notin EmbedTask
    PROVE  VectorInv(w)'
<1>1. Active' = Active
  BY DEF Active, Head0
<1>2. ASSUME NEW e \in Active \cap Indexable, \A j \in entityJobs' : j.e # e PROVE vectors'[e] = Len(runs')
  <2>1. \A k \in entityJobs : k.e # e
    BY <1>2 DEF Same
  <2>. QED
    BY <2>1 DEF VectorInv
<1>3. ASSUME NEW e \in Active \cap Indexable, task'[w] \in EmbedTask PROVE Covered(task[w], e)'
  <2>1. PICK t : t = task[w] /\ t = task'[w] /\ Covered(t, e)
    BY <1>3 DEF VectorInv
  <2>2. Covered(t, e)'
    <3>1. ASSUME NEW k \in entityJobs, k.e = e, \A j \in t.batch : j.e = e => j.n < k.n
          PROVE  \E l \in entityJobs' : l.e = e /\ \A j \in t.batch : j.e = e => j.n < l.n
      BY <3>1 DEF Same
    <3>. QED
      BY <2>1, <3>1 DEF Covered
  <2>. QED
    BY <2>1, <2>2
<1>. QED
  BY <1>1, <1>2, <1>3 DEF VectorInv

\* A new batch has an event of every active symbol, newer than any claimed one.
LEMMA BatchCovers ==
    ASSUME CodeInv, NEW w \in Replicas, NEW ents, Active' \subseteq ents, queued \in Nat,
           EntityEvents(ents) \subseteq entityJobs', task' = task
    PROVE  VectorInv(w)'
<1>1. ASSUME NEW e \in Active' \cap Indexable
      PROVE  \E k \in entityJobs' : k.e = e /\ k.n = queued + 1
  BY EventsTyped
<1>2. ASSUME NEW e \in Active' \cap Indexable, task[w] \in EmbedTask PROVE Covered(task[w], e)'
  <2>1. EmbedTaskFits(task[w])
    BY DEF CodeInv, TasksFit, Processes
  <2>2. \A j \in task[w].batch : j.n \in 1 .. queued
    BY <1>2, <2>1 DEF EmbedTaskFits
  <2>3. PICK k \in entityJobs' : k.e = e /\ k.n = queued + 1
    BY <1>1
  <2>4. \A j \in task'[w].batch : j.e = e => j.n < k.n
    BY <2>2, <2>3
  <2>. QED
    BY <2>3, <2>4 DEF Covered
<1>. QED
  BY <1>1, <1>2 DEF VectorInv

\* Compaction keeps the newest event of an active symbol.
LEMMA NewestIsKept ==
    ASSUME CodeInv, CompactCodeEntityOutbox, NEW e \in Active, NEW k \in entityJobs, k.e = e
    PROVE  \E l \in entityJobs' : l.e = e /\ k.n <= l.n
<1>1. queued \in Nat /\ \A j \in entityJobs : j.n \in 1 .. queued
  BY DEF CodeInv, CodeShape, RowsSound
<1>. DEFINE S == {j.n : j \in {x \in entityJobs : x.e = e}}
<1>2. S \subseteq 0 .. queued /\ k.n \in S
  BY <1>1
<1>3. PICK m \in S : \A n \in S : n <= m
  BY <1>1, <1>2, GreatestExists
<1>4. PICK l \in entityJobs : l.e = e /\ l.n = m
  BY <1>3
<1>5. \A j \in entityJobs : j.e = l.e => j.n <= l.n
  BY <1>3, <1>4
<1>6. l \in entityJobs'
  BY <1>4, <1>5 DEF CompactCodeEntityOutbox, Keepers
<1>. QED
  BY <1>4, <1>5, <1>6

LEMMA CompactCovers ==
    ASSUME CodeInv, NEW w \in Replicas, VectorInv(w), CompactCodeEntityOutbox
    PROVE  VectorInv(w)'
<1>1. UNCHANGED <<runs, vectors, task>> /\ Active' = Active
  BY DEF CompactCodeEntityOutbox, Active, Head0
<1>2. ASSUME NEW e \in Active \cap Indexable, \A j \in entityJobs' : j.e # e PROVE vectors'[e] = Len(runs')
  <2>1. \A k \in entityJobs : k.e # e
    BY <1>2, NewestIsKept
  <2>. QED
    BY <1>1, <2>1 DEF VectorInv
<1>3. ASSUME NEW e \in Active \cap Indexable, task[w] \in EmbedTask PROVE Covered(task[w], e)'
  <2>1. PICK t : t = task[w] /\ t = task'[w] /\ Covered(t, e)
    BY <1>1, <1>3 DEF VectorInv
  <2>2. Covered(t, e)'
    <3>1. ASSUME NEW k \in entityJobs, k.e = e, \A j \in t.batch : j.e = e => j.n < k.n
          PROVE  \E l \in entityJobs' : l.e = e /\ \A j \in t.batch : j.e = e => j.n < l.n
      <4>1. PICK l \in entityJobs' : l.e = e /\ k.n <= l.n
        BY <3>1, NewestIsKept
      <4>2. entityJobs \subseteq EntityEvent /\ l \in entityJobs /\ t.batch \subseteq EntityEvent
        BY <1>3, <2>1 DEF CodeInv, CodeShape, CompactCodeEntityOutbox, EmbedTask
      <4>3. l.n \in Nat /\ k.n \in Nat /\ \A j \in t.batch : j.n \in Nat
        BY <4>2 DEF EntityEvent
      <4>. QED
        BY <3>1, <4>1, <4>3
    <3>. QED
      BY <1>1, <2>1, <3>1 DEF Covered
  <2>. QED
    BY <2>1, <2>2
<1>. QED
  BY <1>1, <1>2, <1>3 DEF VectorInv

\* A claimed batch is still to be read.
LEMMA ClaimCovers ==
    ASSUME CodeInv, NEW w \in Replicas, VectorInv(w), ClaimEntities(w)
    PROVE  VectorInv(w)' /\ task'[w] \notin ProjectTask
<1>1. UNCHANGED <<runs, vectors>> /\ Active' = Active /\ w \in Processes /\ CodeShape
  BY DEF ClaimEntities, Active, Head0, Processes, CodeInv
<1>2. PICK t \in EmbedTask :
         /\ task' = [task EXCEPT ![w] = t] /\ t.unread = t.batch /\ t.read = {}
         /\ \A k \in entityJobs : \E j \in entityJobs' : Same(j, k)
  BY <1>1, ClaimEntitiesEffect
<1>3. task'[w] = t
  BY <1>1, <1>2 DEF CodeShape
<1>4. ASSUME NEW e \in Active \cap Indexable, \A j \in entityJobs' : j.e # e PROVE vectors'[e] = Len(runs')
  <2>1. \A k \in entityJobs : k.e # e
    BY <1>2, <1>4 DEF Same
  <2>. QED
    BY <1>1, <2>1 DEF VectorInv
<1>5. ASSUME NEW e PROVE Covered(t, e)'
  BY <1>2 DEF Covered
<1>6. ASSUME NEW e \in Active \cap Indexable PROVE Covered(task[w], e)'
  BY <1>3, <1>5
<1>7. t \notin ProjectTask
  BY DEF ProjectTask, EmbedTask
<1>. QED
  BY <1>1, <1>3, <1>4, <1>6, <1>7 DEF VectorInv

\* A symbol that is read is read as it is; one that is not active is not owed.
LEMMA ReadCovers ==
    ASSUME CodeInv, NEW w \in Replicas, VectorInv(w), ReadEntity(w)
    PROVE  VectorInv(w)' /\ task'[w] \notin ProjectTask
<1>1. UNCHANGED <<runs, vectors>> /\ Active' = Active /\ w \in Processes /\ CodeShape
  BY DEF ReadEntity, Active, Head0, Processes, CodeInv
<1>2. PICK s \in EmbedTask : s = task[w]
  BY <1>1, ReadEntityEffect
<1>3. PICK j \in s.unread, t \in EmbedTask :
         /\ task' = [task EXCEPT ![w] = t] /\ t.unread = s.unread \ {j}
         /\ \/ /\ j.e \in Active /\ t.read = s.read \cup {[e |-> j.e, run |-> Len(runs)]}
               /\ t.batch = s.batch /\ entityJobs' = entityJobs
            \/ /\ j.e \notin Active /\ t.read = s.read
               /\ t.batch = {k \in s.batch : ~Same(k, j)} /\ FailOutbox({j})
  BY <1>1, <1>2, ReadEntityEffect
<1>4. task'[w] = t
  BY <1>1, <1>3 DEF CodeShape
<1>5. \A k \in entityJobs : \E l \in entityJobs' : Same(l, k)
  <2>1. CASE entityJobs' = entityJobs
    BY <2>1 DEF Same
  <2>2. CASE FailOutbox({j})
    BY <1>1, <2>2, FailOutboxEffect DEF CodeShape
  <2>. QED
    BY <1>3, <2>1, <2>2
<1>6. ASSUME NEW e \in Active \cap Indexable, \A k \in entityJobs' : k.e # e PROVE vectors'[e] = Len(runs')
  <2>1. \A k \in entityJobs : k.e # e
    BY <1>5, <1>6 DEF Same
  <2>. QED
    BY <1>1, <2>1 DEF VectorInv
<1>7. ASSUME NEW e \in Active \cap Indexable PROVE Covered(t, e)'
  <2>1. Covered(s, e)
    BY <1>2, <1>7 DEF VectorInv
  <2>2. PICK row : row = [e |-> e, run |-> Len(runs)] /\ row.e = e /\ row = [e |-> e, run |-> Len(runs')]
    BY <1>1
  <2>3. CASE j.e = e
    <3>1. row \in t.read
      BY <1>3, <2>2, <2>3
    <3>. QED
      BY <2>2, <3>1 DEF Covered
  <2>4. CASE j.e # e
    <3>1. t.batch \subseteq s.batch /\ s.read \subseteq t.read /\ (\A r \in t.read : r.e = e => r \in s.read)
      BY <1>3, <2>4
    <3>2. CASE row \in s.read
      BY <2>2, <3>1, <3>2 DEF Covered
    <3>3. CASE \E k \in s.unread : k.e = e
      <4>1. \E k \in t.unread : k.e = e
        BY <1>3, <2>4, <3>3
      <4>. QED
        BY <4>1 DEF Covered
    <3>4. CASE \E k \in entityJobs : k.e = e /\ \A b \in s.batch : b.e = e => b.n < k.n
      <4>1. PICK k \in entityJobs : k.e = e /\ \A b \in s.batch : b.e = e => b.n < k.n
        BY <3>4
      <4>2. PICK l \in entityJobs' : l.e = e /\ l.n = k.n
        BY <1>5, <4>1 DEF Same
      <4>. QED
        BY <3>1, <4>1, <4>2 DEF Covered
    <3>5. CASE (\A b \in s.batch : b.e # e) /\ (\A r \in s.read : r.e # e)
      BY <3>1, <3>5 DEF Covered
    <3>. QED
      BY <2>1, <2>2, <3>2, <3>3, <3>4, <3>5 DEF Covered
  <2>. QED
    BY <2>3, <2>4
<1>8. ASSUME NEW e \in Active \cap Indexable PROVE Covered(task[w], e)'
  BY <1>4, <1>7
<1>9. t \notin ProjectTask
  BY DEF ProjectTask, EmbedTask
<1>. QED
  BY <1>1, <1>4, <1>6, <1>8, <1>9 DEF VectorInv

\* An event is only completed when its symbol was read from the active analysis.
LEMMA UpsertCovers ==
    ASSUME CodeInv, NEW w \in Replicas, VectorInv(w), UpsertCodeEntities(w)
    PROVE  VectorInv(w)' /\ task'[w] = None
<1>1. runs' = runs /\ Active' = Active /\ w \in Processes /\ CodeShape
  BY DEF UpsertCodeEntities, Active, Head0, Processes, CodeInv
<1>2. PICK t \in EmbedTask : t = task[w] /\ EmbedTaskFits(t) /\ t.unread = {}
  BY <1>1, TaskKinds DEF UpsertCodeEntities, CodeInv, TasksFit
<1>3. /\ vectors' = [e \in Symbols |-> IF \E r \in t.read : r.e = e THEN LastRead(t.read, e) ELSE vectors[e]]
      /\ entityJobs' = {j \in entityJobs : ~In(j, t.batch)} /\ task' = [task EXCEPT ![w] = None]
  BY <1>2 DEF UpsertCodeEntities
<1>4. task'[w] = None
  BY <1>1, <1>3 DEF CodeShape
<1>5. PICK n \in Nat : n = Len(runs)
  BY <1>1 DEF CodeShape
<1>6. ASSUME NEW e \in Active \cap Indexable, \A j \in entityJobs' : j.e # e PROVE vectors'[e] = n
  <2>1. e \in Symbols
    BY CodeAssumption DEF CodeAssumption
  <2>2. Covered(t, e)
    BY <1>2, <1>6 DEF VectorInv
  <2>3. PICK row \in [e : Symbols, run : Nat] : row = [e |-> e, run |-> n] /\ row.e = e /\ row.run = n
    <3>1. PICK row : row = [e |-> e, run |-> n]
      OBVIOUS
    <3>2. row \in [e : Symbols, run : Nat] /\ row.e = e /\ row.run = n
      BY <2>1, <3>1
    <3>. QED
      BY <3>1, <3>2
  <2>4. CASE row \in t.read
    <3>1. /\ \E r \in t.read : r.e = e /\ LastRead(t.read, e) = r.run
          /\ n <= LastRead(t.read, e)
      BY <1>1, <1>2, <2>3, <2>4, LastReadIsOne
    <3>2. LastRead(t.read, e) \in 1 .. n
      BY <1>2, <1>5, <3>1 DEF EmbedTaskFits
    <3>3. LastRead(t.read, e) = n
      BY <3>1, <3>2
    <3>4. vectors'[e] = LastRead(t.read, e)
      BY <1>3, <2>1, <2>3, <2>4
    <3>. QED
      BY <3>3, <3>4
  <2>5. CASE \E k \in entityJobs : k.e = e /\ \A j \in t.batch : j.e = e => j.n < k.n
    <3>1. PICK k \in entityJobs : k.e = e /\ \A j \in t.batch : j.e = e => j.n < k.n
      BY <2>5
    <3>2. k.n \in Nat
      BY <1>1 DEF CodeShape, EntityEvent
    <3>3. ~In(k, t.batch)
      BY <3>1, <3>2 DEF In, Same
    <3>4. k \in entityJobs'
      BY <1>3, <3>3
    <3>. QED
      BY <1>6, <3>1, <3>4
  <2>6. CASE (\A j \in t.batch : j.e # e) /\ (\A r \in t.read : r.e # e)
    <3>1. \A k \in entityJobs : k.e = e => ~In(k, t.batch)
      BY <2>6 DEF In, Same
    <3>2. \A k \in entityJobs : k.e # e
      BY <1>3, <1>6, <3>1
    <3>3. vectors[e] = n
      BY <1>5, <1>6, <3>2 DEF VectorInv
    <3>4. vectors'[e] = vectors[e]
      BY <1>3, <2>1, <2>6
    <3>. QED
      BY <3>3, <3>4
  <2>. QED
    BY <1>2, <1>5, <2>2, <2>3, <2>4, <2>5, <2>6 DEF Covered
<1>. QED
  BY <1>1, <1>4, <1>5, <1>6, NoTask DEF VectorInv

\* A task that ends without success leaves its events open.
LEMMA FailureCovers ==
    ASSUME CodeInv, NEW w \in Replicas, VectorInv(w), NEW p \in Processes, TaskFails(p)
    PROVE  VectorInv(w)'
<1>1. UNCHANGED <<runs, vectors>> /\ w \in Processes /\ CodeShape /\ task' = [task EXCEPT ![p] = None]
  BY DEF TaskFails, Processes, CodeInv
<1>2. task'[w] = task[w] \/ task'[w] = None
  BY <1>1 DEF CodeShape
<1>3. \A k \in entityJobs : \E j \in entityJobs' : Same(j, k)
  <2>1. CASE entityJobs' = entityJobs
    BY <2>1 DEF Same
  <2>2. CASE FailOutbox(task[p].batch)
    BY <1>1, <2>2, FailOutboxEffect DEF CodeShape
  <2>. QED
    BY <2>1, <2>2 DEF TaskFails
<1>. QED
  BY <1>1, <1>2, <1>3, NoTask, VectorFrame

\* A new analysis has its job before it.
LEMMA IndexCatchesUp ==
    ASSUME CodeInv, NEW w \in Replicas, IndexCodeRepository, ProjectionInv(w)
    PROVE  ProjectionInv(w)' /\ VectorInv(w)'
<1>1. PICK s \in Snapshots : StoreCodeGraph(s)
  BY DEF IndexCodeRepository
<1>2. UNCHANGED <<projected, age, vectors, task, rebuilds>> /\ CodeShape /\ queued \in Nat
  BY DEF IndexCodeRepository, CodeInv, CodeShape
<1>3. PICK n \in Nat :
         /\ n = Len(runs') /\ n # 0 /\ n \in projectJobs' /\ runs'[n] = s
         /\ EntityEvents(s.ents) \subseteq entityJobs'
  BY <1>1, <1>2, StoreEffect
<1>4. ProjectionInv(w)'
  BY <1>2, <1>3 DEF ProjectionInv
<1>5. Active' = s.ents
  BY <1>3 DEF Active, Head0
<1>. QED
  BY <1>2, <1>3, <1>4, <1>5, BatchCovers

\* The replica that copies the active analysis copies all of it; one that copies
\* another leaves the job of the active one open.
LEMMA CopyCatchesUp ==
    ASSUME CodeInv, NEW w \in Replicas, ProjectCodeGraph(w), ProjectionInv(w)
    PROVE  ProjectionInv(w)' /\ task'[w] = None
<1>1. CodeShape /\ w \in Processes /\ w # Admin /\ Admin \in Processes
  BY CodeAssumption DEF CodeInv, Processes, CodeAssumption
<1>2. task[w] \in ProjectTask /\ task[w].step = "write" /\ ProjectTaskFits(w, task[w])
  BY <1>1, TaskKinds DEF ProjectCodeGraph, CodeInv, TasksFit
<1>3. PICK run \in 1 .. Len(runs), i \in 0 .. Len(runs) : run = task[w].run /\ i = task[w].analysis
  BY <1>2 DEF ProjectTaskFits
<1>4. run <= i /\ (run = i => task[w].graph = runs[run])
  BY <1>1, <1>2, <1>3 DEF ProjectTaskFits
<1>5. /\ UNCHANGED <<runs, rebuilds>> /\ task' = [task EXCEPT ![w] = None]
      /\ age' = task[w].graph /\ projected' = i /\ projectJobs' = projectJobs \ {run}
  BY <1>3 DEF ProjectCodeGraph, projectCodeGraph
<1>6. task'[w] = None /\ task'[Admin] = task[Admin]
  BY <1>1, <1>5 DEF CodeShape
<1>7. PICK n \in Nat : n = Len(runs)
  BY <1>1 DEF CodeShape
<1>8. ASSUME rebuilds = 0, n \notin projectJobs' PROVE projected' = n /\ age' = runs[n]
  <2>1. run = n
    BY <1>2, <1>3, <1>5, <1>7, <1>8 DEF ProjectionInv
  <2>2. i = n
    BY <1>3, <1>4, <1>7, <2>1
  <2>. QED
    BY <1>4, <1>5, <2>1, <2>2
<1>9. ProjectionInv(w)'
  BY <1>5, <1>6, <1>7, <1>8, NoTask DEF ProjectionInv
<1>. QED
  BY <1>6, <1>9

\* Every step keeps what is known of a single replica.
LEMMA NextOneReplica == CodeInv /\ OneReplicaInv /\ [CodeNext]_codeVars => OneReplicaInv'
<1>. SUFFICES ASSUME CodeInv, OneReplicaInv, [CodeNext]_codeVars, NEW w \in Replicas, Replicas = {w}
              PROVE  ProjectionInv(w)' /\ VectorInv(w)'
  BY DEF OneReplicaInv
<1>1. /\ ProjectionInv(w) /\ VectorInv(w) /\ CodeShape /\ w \in Processes /\ Admin \in Processes
      /\ Processes = {w, Admin} /\ w # Admin
      /\ task \in [Processes -> ProjectTask \cup EmbedTask \cup {None}] /\ queued \in Nat
  BY CodeAssumption DEF OneReplicaInv, CodeInv, CodeShape, Processes, CodeAssumption
<1>2. \A k \in entityJobs : Same(k, k)
  BY DEF Same
\* Questions, and nothing at all.
<1>3. ASSUME UNCHANGED <<runs, projectJobs, entityJobs, projected, age, vectors, task, rebuilds>>
      PROVE  ProjectionInv(w)' /\ VectorInv(w)'
  BY <1>1, <1>2, <1>3, ProjectionFrame, VectorFrame
\* The rebuilding process has no task while nothing is rebuilt.
<1>4. ASSUME ~Idle(Admin), rebuilds' = rebuilds PROVE ProjectionInv(w)'
  BY <1>1, <1>4 DEF ProjectionInv, Idle
<1>5. ASSUME IndexCodeRepository PROVE ProjectionInv(w)' /\ VectorInv(w)'
  BY <1>1, <1>5, IndexCatchesUp
<1>6. ASSUME StartRebuild PROVE ProjectionInv(w)' /\ VectorInv(w)'
  <2>1. /\ UNCHANGED <<runs, entityJobs, vectors>> /\ rebuilds' # 0
        /\ \E t : task' = [task EXCEPT ![Admin] = t]
    <3>1. rebuilds' # 0
      BY <1>1, <1>6 DEF StartRebuild, CodeShape
    <3>2. \E t : task' = [task EXCEPT ![Admin] = t]
      BY <1>6, Zenon DEF StartRebuild
    <3>. QED
      BY <1>6, <3>1, <3>2 DEF StartRebuild
  <2>2. task'[w] = task[w]
    BY <1>1, <2>1
  <2>3. ProjectionInv(w)'
    BY <2>1 DEF ProjectionInv
  <2>. QED
    BY <1>1, <1>2, <2>1, <2>2, <2>3, VectorFrame
<1>7. ASSUME Rebuild PROVE ProjectionInv(w)' /\ VectorInv(w)'
  <2>1. /\ UNCHANGED <<runs, entityJobs, vectors, rebuilds>> /\ ~Idle(Admin)
        /\ task' = [task EXCEPT ![Admin] = None]
    BY <1>7 DEF Rebuild, Doing, Idle
  <2>2. task'[w] = task[w]
    BY <1>1, <2>1
  <2>. QED
    BY <1>1, <1>2, <1>4, <2>1, <2>2, VectorFrame
<1>8. ASSUME ClaimProjection(w) PROVE ProjectionInv(w)' /\ VectorInv(w)'
  <2>1. UNCHANGED <<runs, projectJobs, entityJobs, projected, age, vectors, rebuilds>>
    BY <1>8 DEF ClaimProjection
  <2>2. PICK t : task' = [task EXCEPT ![w] = t] /\ t \notin EmbedTask /\ t.step = "check"
    <3>1. PICK job \in projectJobs :
             task' = [task EXCEPT ![w] = [step |-> "check", run |-> job, analysis |-> 0, graph |-> Nothing]]
      BY <1>8 DEF ClaimProjection
    <3>2. PICK t : t = [step |-> "check", run |-> job, analysis |-> 0, graph |-> Nothing]
      OBVIOUS
    <3>3. t \notin EmbedTask /\ t.step = "check"
      BY <3>2 DEF EmbedTask
    <3>. QED
      BY <3>1, <3>2, <3>3
  <2>3. task'[w] = t /\ task'[Admin] = task[Admin]
    BY <1>1, <2>2
  <2>. QED
    BY <1>1, <1>2, <2>1, <2>2, <2>3, ProjectionFrame, VectorFrame
<1>9. ASSUME ProjectCodeGraph(w) PROVE ProjectionInv(w)' /\ VectorInv(w)'
  <2>1. UNCHANGED <<runs, entityJobs, vectors>>
    BY <1>9 DEF ProjectCodeGraph
  <2>. QED
    BY <1>1, <1>2, <1>9, <2>1, CopyCatchesUp, VectorFrame, NoTask
<1>10. ASSUME NEW p \in Processes, CheckRun(p) \/ ReadAnalysis(p) \/ ReadGraph(p)
       PROVE  ProjectionInv(w)' /\ VectorInv(w)'
  <2>1. PICK t : /\ task' = [task EXCEPT ![p] = t] /\ t \notin EmbedTask
                 /\ \/ t = None
                    \/ /\ t \in ProjectTask /\ t.run = task[p].run
                       /\ p = Admin \/ t.run = Len(runs) \/ task[p].step # "check"
    BY <1>10, CopyEffect, Zenon
  <2>2. /\ ~Idle(p) /\ task[p] \in ProjectTask
        /\ Len(runs) \in projectJobs <=> Len(runs) \in projectJobs'
        /\ UNCHANGED <<runs, entityJobs, projected, age, vectors, rebuilds>>
    BY <1>10, CopyEffect
  <2>3. VectorInv(w)'
    <3>1. task'[w] = task[w] \/ task'[w] \notin EmbedTask
      BY <1>1, <2>1
    <3>. QED
      BY <1>1, <1>2, <2>2, <3>1, VectorFrame
  <2>4. CASE p = Admin
    BY <1>4, <2>2, <2>3, <2>4
  <2>5. CASE p = w
    <3>1. task'[w] = t /\ task'[Admin] = task[Admin]
      BY <1>1, <2>1, <2>5
    <3>2. \/ t \notin ProjectTask \/ t.run = Len(runs)
          \/ task[w] \in ProjectTask /\ task[w].step # "check" /\ t.run = task[w].run
      BY <1>1, <2>1, <2>2, <2>5, NoTask
    <3>3. ProjectionInv(w)'
      BY <1>1, <2>2, <3>1, <3>2, ProjectionFrame
    <3>. QED
      BY <2>3, <3>3
  <2>. QED
    BY <1>1, <2>4, <2>5
<1>11. ASSUME NEW p \in Processes, TaskFails(p) PROVE ProjectionInv(w)' /\ VectorInv(w)'
  <2>1. /\ UNCHANGED <<runs, projectJobs, projected, age, rebuilds>> /\ task' = [task EXCEPT ![p] = None]
    BY <1>11 DEF TaskFails
  <2>2. /\ task'[w] = task[w] \/ task'[w] = None
        /\ task'[Admin] = task[Admin] \/ task'[Admin] = None
    BY <1>1, <2>1
  <2>. QED
    BY <1>1, <1>11, <2>1, <2>2, NoTask, ProjectionFrame, FailureCovers
<1>12. ASSUME RequeueCodeEntities PROVE ProjectionInv(w)' /\ VectorInv(w)'
  <2>1. /\ UNCHANGED <<runs, projectJobs, projected, age, task, rebuilds>>
        /\ EntityEvents(Active) \subseteq entityJobs'
    BY <1>12 DEF RequeueCodeEntities
  <2>2. Active' \subseteq Active
    BY <2>1 DEF Active, Head0
  <2>. QED
    BY <1>1, <2>1, <2>2, ProjectionFrame, BatchCovers
<1>13. ASSUME CompactCodeEntityOutbox PROVE ProjectionInv(w)' /\ VectorInv(w)'
  <2>1. UNCHANGED <<runs, projectJobs, projected, age, task, rebuilds>>
    BY <1>13 DEF CompactCodeEntityOutbox
  <2>. QED
    BY <1>1, <1>13, <2>1, ProjectionFrame, CompactCovers
<1>14. ASSUME ClaimEntities(w) \/ ReadEntity(w) \/ UpsertCodeEntities(w)
       PROVE  ProjectionInv(w)' /\ VectorInv(w)'
  <2>1. /\ UNCHANGED <<runs, projectJobs, projected, age, rebuilds>>
        /\ \E t : task' = [task EXCEPT ![w] = t]
    <3>1. CASE ClaimEntities(w)
      BY <3>1 DEF ClaimEntities
    <3>2. CASE ReadEntity(w)
      <4>1. \E t : task' = [task EXCEPT ![w] = t]
        BY <1>1, <3>2, ReadEntityEffect, Zenon
      <4>. QED
        BY <3>2, <4>1 DEF ReadEntity
    <3>3. CASE UpsertCodeEntities(w)
      BY <3>3 DEF UpsertCodeEntities
    <3>. QED
      BY <1>14, <3>1, <3>2, <3>3
  <2>2. task'[Admin] = task[Admin]
    BY <1>1, <2>1
  <2>3. VectorInv(w)' /\ task'[w] \notin ProjectTask
    BY <1>1, <1>14, NoTask, ClaimCovers, ReadCovers, UpsertCovers
  <2>. QED
    BY <1>1, <2>1, <2>2, <2>3, ProjectionFrame
<1>15. CASE GraphNext
  <2>1. ASSUME OpenExpansion \/ VerifyProjection \/ Traverse \/ VerifyTraversal \/ AnswerExpansion \/ Fallback
        PROVE  ProjectionInv(w)' /\ VectorInv(w)'
    BY <1>3, <2>1 DEF OpenExpansion, VerifyProjection, Traverse, VerifyTraversal, AnswerExpansion, Fallback
  <2>2. \A v \in Replicas : v = w
    OBVIOUS
  <2>. QED
    BY <1>5, <1>6, <1>7, <1>8, <1>9, <1>10, <1>11, <1>15, <2>1, <2>2 DEF GraphNext, Processes
<1>16. CASE VectorNext
  <2>1. \A v \in Replicas : v = w
    OBVIOUS
  <2>. QED
    BY <1>1, <1>5, <1>11, <1>12, <1>13, <1>14, <1>16, <2>1 DEF VectorNext
<1>17. CASE UNCHANGED codeVars
  BY <1>3, <1>17 DEF codeVars
<1>. QED
  BY <1>15, <1>16, <1>17 DEF CodeNext

LEMMA InitOneReplica == CodeInit => OneReplicaInv
<1>. SUFFICES ASSUME CodeInit, NEW w \in Replicas PROVE ProjectionInv(w) /\ VectorInv(w)
  BY DEF OneReplicaInv
<1>1. Len(runs) = 0 /\ task[w] = None /\ task[Admin] = None
  BY DEF CodeInit
<1>2. Active = {}
  BY <1>1 DEF Active, Head0
<1>. QED
  BY <1>1, <1>2, NoTask DEF ProjectionInv, VectorInv

LEMMA OneReplicaInvariant == CodeSpec => []OneReplicaInv
BY InitOneReplica, NextOneReplica, CodeInvariant, PTL DEF CodeSpec

\* With one replica the AGE graph is the whole active analysis once the
\* projection jobs are done and nothing was rebuilt, and every active symbol is
\* embedded as the active analysis has it, and found, once its events are done:
\* for any number of analyses, failures, requeues and compactions
\* (ProjectCodeGraph, processCodeEntityBatch, CompactCodeEntityOutbox).
THEOREM OneReplicaCatchesUp == CodeSpec => []ProjectionsCatchUp
<1>1. CodeInv /\ OneReplicaInv => ProjectionsCatchUp
  <2>. SUFFICES ASSUME CodeInv, OneReplicaInv, Cardinality(Replicas) = 1 PROVE ProjectionCatchesUp /\ VectorsCatchUp
    BY DEF ProjectionsCatchUp, ProjectionCatchesUp, VectorsCatchUp
  <2>1. PICK w : Replicas = {w}
    BY CodeAssumption, FS_Singleton DEF CodeAssumption
  <2>2. ProjectionInv(w) /\ VectorInv(w)
    BY <2>1 DEF OneReplicaInv
  <2>3. ProjectionCatchesUp
    BY <2>2 DEF ProjectionCatchesUp, ProjectionInv, Head0
  <2>4. ASSUME Len(runs) # 0, \A j \in entityJobs : j.e \notin Active, NEW e \in Active \cap Indexable
        PROVE  vectors[e] = Len(runs)
    BY <2>2, <2>4 DEF VectorInv
  <2>5. VectorsCatchUp
    BY <2>4 DEF VectorsCatchUp, SearchCodeEntities, Head0
  <2>. QED
    BY <2>3, <2>5
<1>. QED
  BY <1>1, CodeInvariant, OneReplicaInvariant, PTL
=============================================================================

------------------------------ MODULE MCQueues ------------------------------
(***************************************************************************)
(* The platform's two queues on small sets: the index jobs that outbox     *)
(* workers claim (KnowledgeIndex) and the stages of SDLC runs that agents  *)
(* lease (SDLCExecution).  They share no state, so as in MCExecutors a     *)
(* behaviour is one of a single queue; the other one stays empty.          *)
(***************************************************************************)
EXTENDS KnowledgeIndex, TLC

CONSTANTS
    Runs, Agents, Patches, Contexts, Queries, OwnerOf, Kind, Concurrency, Charge, TokenCounts,
    MaxModelCalls, MaxStageAttempts, MaxTokens, MaxSourceQueries, MaxSourceRows, MaxConcurrentRuns,
    MaxRunFaults, MaxControls, MaxRunChanges,
    alice

VARIABLES
    part,                                               \* the queue the behaviour is of
    run, steps, agent, request, grant, current, world   \* the variables of SDLCExecution

Execution == INSTANCE SDLCExecution
    WITH Workers <- Agents, worker <- agent, env <- world, MaxAttempts <- MaxStageAttempts,
         MaxFaults <- MaxRunFaults, MaxChanges <- MaxRunChanges

executionVars == <<run, steps, agent, request, grant, current, world>>

Incident == [r \in Runs |-> "incident"]
OneOwner == [r \in Runs |-> alice]
Serial == [r \in Runs |-> 1]

TwoQueries == {[key |-> "logs", limit |-> 1], [key |-> "logs", limit |-> 2],
               [key |-> "lake", limit |-> 1]}

Symmetry == Permutations(Agents) \cup Permutations(Contexts)

QueuesInit == part \in {"index", "execution"} /\ Init /\ Execution!Init

QueuesNext ==
    /\ UNCHANGED part
    /\ \/ part = "index" /\ Next /\ UNCHANGED executionVars
       \/ part = "execution" /\ Execution!Next /\ UNCHANGED vars

QueuesSpec == QueuesInit /\ [][QueuesNext]_<<part, vars, executionVars>>

\* A run's source usage is exactly what its steps reserved: retries and
\* reclaims charge nothing twice and lose nothing (ReserveExecutionSource).
SourcesChargedOnce == Execution!SourcesChargedOnce

\* A stored result and a bound context never change, and no step disappears:
\* late and repeated calls leave recorded evidence alone (CompleteExecution).
EvidenceImmutable == Execution!EvidenceImmutable
=============================================================================

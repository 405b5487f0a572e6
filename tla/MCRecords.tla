----------------------------- MODULE MCRecords ------------------------------
(***************************************************************************)
(* The components that keep the platform's governed records on small sets: *)
(* knowledge, workflows, their tasks, delegations, product knowledge,      *)
(* semantic context, and the adapter that reads operational sources.  As   *)
(* in MCExecutors a behaviour is one of a single component.                *)
(***************************************************************************)
EXTENDS KnowledgeGovernance, Workflows, TaskCheckpoints, Delegation, ProductKnowledge, SemanticContext,
        SourceAdapters, TLC

CONSTANTS t1, t2, u1, u2, ana, ben, cy, e1, e2, e3, a1, a2

VARIABLE part   \* the component the behaviour is of

NoImplementer == [k \in Items |-> None]

SomeRoles == (ana :> {"development"}) @@ (ben :> {"development", "qa"})
               @@ (cy :> {"qa", "product_owner", "controller", "operations"})

OneOfEachMode == (t1 :> "manual") @@ (t2 :> "auto")
TaskVersions == (t1 :> 9) @@ (t2 :> 3)
TaskRevisions == (t1 :> 2) @@ (t2 :> 0)

\* Callers of the task queue are alike.
AlikeClients == Permutations(Clients)

OneExpires == (u1 :> None) @@ (u2 :> 2)

Envelope(rows, complete) == [rows |-> rows, complete |-> complete, window |-> 1]
SmallEnvelopes ==
    [left |-> {Envelope(<<[key |-> "a", value |-> "ok"]>>, TRUE)},
     right |-> {Envelope(<<[key |-> "a", value |-> "ok"]>>, TRUE), Envelope(<<>>, FALSE),
                Envelope(<<[key |-> "a", value |-> "bad"]>>, FALSE)}]
RecordVersions == [brs |-> 2, intent |-> 1]
SchemaVersions == [left |-> 2, right |-> 1]

TwoRegistries == <<[d \in Definitions |-> 1], [d \in Definitions |-> 2]>>

EventTimes == (e1 :> 1) @@ (e2 :> 1) @@ (e3 :> 2)
EventProducers == (e1 :> a1) @@ (e2 :> a2) @@ (e3 :> a1)
EntriesOf == (a1 :> 3) @@ (a2 :> 2)

Init ==
    /\ part \in {"knowledge", "workflow", "tasks", "delegation", "product", "semantic", "source"}
    /\ GovernanceInit /\ WorkflowInit /\ TaskInit /\ DelegationInit /\ ProductInit /\ SemanticInit
    /\ SourceInit /\ (part = "source" \/ sourceKind = "kafka")

Next ==
    /\ UNCHANGED part
    /\ \/ /\ part = "knowledge" /\ GovernanceNext
          /\ UNCHANGED <<workflowVars, taskVars, delegationVars, productVars, semanticVars, sourceVars>>
       \/ /\ part = "workflow" /\ WorkflowNext
          /\ UNCHANGED <<governanceVars, taskVars, delegationVars, productVars, semanticVars, sourceVars>>
       \/ /\ part = "tasks" /\ TaskNext
          /\ UNCHANGED <<governanceVars, workflowVars, delegationVars, productVars, semanticVars, sourceVars>>
       \/ /\ part = "delegation" /\ DelegationNext
          /\ UNCHANGED <<governanceVars, workflowVars, taskVars, productVars, semanticVars, sourceVars>>
       \/ /\ part = "product" /\ ProductNext
          /\ UNCHANGED <<governanceVars, workflowVars, taskVars, delegationVars, semanticVars, sourceVars>>
       \/ /\ part = "semantic" /\ SemanticNext
          /\ UNCHANGED <<governanceVars, workflowVars, taskVars, delegationVars, productVars, sourceVars>>
       \/ /\ part = "source" /\ SourceNext
          /\ UNCHANGED <<governanceVars, workflowVars, taskVars, delegationVars, productVars, semanticVars>>

Spec ==
    /\ Init
    /\ [][Next]_<<part, governanceVars, workflowVars, taskVars, delegationVars, productVars, semanticVars,
             sourceVars>>

\* The component at work keeps its rows and requests inside their types; each
\* part says which shape beyond the Go types the code maintains.
RecordsTypeOK ==
    CASE part = "knowledge" -> GovernanceTypeOK
      [] part = "workflow" -> WorkflowTypeOK
      [] part = "tasks" -> TaskTypeOK
      [] part = "delegation" -> DelegationTypeOK
      [] part = "product" -> ProductTypeOK
      [] part = "semantic" -> SemanticTypeOK
      [] part = "source" -> SourceTypeOK
=============================================================================

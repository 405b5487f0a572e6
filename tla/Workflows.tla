----------------------------- MODULE Workflows ------------------------------
(***************************************************************************)
(* The governed workflow run (internal/service/workflow.go and             *)
(* internal/postgres/workflows.go): a transition table whose human gates   *)
(* ask for distinct principals.                                            *)
(*                                                                         *)
(* The service reads the run, looks the event up in its table, compares    *)
(* the caller with the actors of the run it read, and asks the policy      *)
(* server; the transaction then compares the state that was read and the   *)
(* version the caller sent with the row under its lock.  Requests of       *)
(* several principals are under way at once.  Nothing compares the         *)
(* caller's version with the run the service read: it may be one the run   *)
(* has yet to reach.  An older one never commits and is left out.          *)
(***************************************************************************)
EXTENDS Common, FiniteSets

CONSTANTS
    Actors,              \* authenticated principals
    Humans,              \* the ones whose kind is human
    RolesFor,            \* [Actors -> roles in the project]
    DistinctFor,         \* the gates for which RequiresDistinctPrincipal holds
    TransitionKeys,      \* idempotency keys a caller uses again
    RepeatedEvents,      \* the events it uses them for; others get a key of their own
    Ahead,               \* how far beyond the run that is read a caller's version may be
    AheadEvents,         \* bound: the events that are sent ahead
    MaxWorkflowVersion,  \* bound: transitions of the run
    MaxUnderWay          \* bound: requests between their check and their commit

ASSUME WorkflowsAssumption ==
    /\ Humans \subseteq Actors /\ None \notin Actors \cup TransitionKeys
    /\ DistinctFor \subseteq {"plan_approval", "qa", "product_approval"}
    /\ None \notin {"plan_approval", "qa", "product_approval"}
    /\ MaxWorkflowVersion \in Nat \ {0} /\ MaxUnderWay \in Nat /\ Ahead \subseteq Nat

VARIABLES
    run,      \* the workflow_runs row, None before CreateWorkflow
    sent,     \* transitions that were checked and not yet committed, of any principal
    replay,   \* [TransitionKeys -> the workflow_events row with that key]
    passed    \* history: who implemented, validated and approved last, and whether
              \* the validation carried a version the run had yet to reach

workflowVars == <<run, sent, replay, passed>>

Nobody == [implemented |-> None, qa |-> None, product |-> None, foretold |-> FALSE]

WorkflowInit ==
    /\ run = None /\ passed = Nobody
    /\ sent = {}
    /\ replay = [k \in TransitionKeys |-> None]

-----------------------------------------------------------------------------
(* The table *)

Terminal == {"policy_rejected", "product_rejected", "completed", "cancelled", "failed"}

\* from, event, to
workflowTransitions == {
    <<"intake", "CLASSIFIED", "classified">>,
    <<"classified", "READY", "ready">>,
    <<"classified", "PLAN_APPROVAL_REQUESTED", "awaiting_plan_approval">>,
    <<"classified", "POLICY_REJECTED", "policy_rejected">>,
    <<"awaiting_plan_approval", "PLAN_APPROVED", "ready">>,
    <<"awaiting_plan_approval", "PLAN_REJECTED", "policy_rejected">>,
    <<"ready", "IMPLEMENTATION_STARTED", "implementing">>,
    <<"revision_required", "IMPLEMENTATION_STARTED", "implementing">>,
    <<"implementing", "IMPLEMENTATION_COMPLETED", "verifying">>,
    <<"implementing", "IMPLEMENTATION_FAILED", "implementation_failed">>,
    <<"implementation_failed", "REVISION_REQUESTED", "revision_required">>,
    <<"verifying", "VERIFICATION_PASSED", "qa_validating">>,
    <<"verifying", "VERIFICATION_FAILED", "revision_required">>,
    <<"qa_validating", "HUMAN_QA_REQUESTED", "awaiting_human_qa">>,
    <<"awaiting_human_qa", "QA_VALIDATED", "qa_validated">>,
    <<"awaiting_human_qa", "QA_FAILED", "qa_failed">>,
    <<"qa_failed", "REVISION_REQUESTED", "revision_required">>,
    <<"qa_validated", "PRODUCT_APPROVAL_REQUESTED", "awaiting_product_approval">>,
    <<"awaiting_product_approval", "PRODUCT_APPROVED", "promotion_pending">>,
    <<"awaiting_product_approval", "PRODUCT_REJECTED", "product_rejected">>,
    <<"promotion_pending", "PROMOTION_COMPLETED", "completed">>}

States == {t[1] : t \in workflowTransitions} \cup {t[3] : t \in workflowTransitions}
             \cup {"cancel_requested", "cancelled", "blocked", "failed"}

RunRow == [state : States, version : Nat, implementedBy : Actors \cup {None},
           qaValidatedBy : Actors \cup {None}, terminal : BOOLEAN]

ASSUME RunRowAssumption == None \notin RunRow

Stops == {<<"CANCEL_REQUESTED", "cancel_requested">>, <<"CANCELLED", "cancelled">>,
          <<"BLOCKED", "blocked">>, <<"FAILED", "failed">>}

Events == {t[2] : t \in workflowTransitions} \cup {s[1] : s \in Stops}

\* The events a state admits and where each leads.
transitionFor(state) ==
    {<<t[2], t[3]>> : t \in {u \in workflowTransitions : u[1] = state}}
       \cup {s \in Stops : IF s[1] = "CANCELLED" THEN state = "cancel_requested" ELSE state \notin Terminal}

Roles(state, event) ==
    CASE event \in {"CLASSIFIED", "READY", "PLAN_APPROVAL_REQUESTED", "IMPLEMENTATION_STARTED",
                    "VERIFICATION_PASSED", "VERIFICATION_FAILED"} -> {"controller", "development"}
      [] event \in {"POLICY_REJECTED", "PRODUCT_APPROVAL_REQUESTED", "PROMOTION_COMPLETED"}
            -> {"controller", "product_owner"}
      [] event \in {"PLAN_APPROVED", "PLAN_REJECTED", "PRODUCT_APPROVED", "PRODUCT_REJECTED"}
            -> {"product_owner"}
      [] event \in {"IMPLEMENTATION_COMPLETED", "IMPLEMENTATION_FAILED"} -> {"development"}
      [] event = "REVISION_REQUESTED" ->
            {"controller", "development"} \cup (IF state = "qa_failed" THEN {"qa"} ELSE {})
      [] event = "HUMAN_QA_REQUESTED" -> {"controller", "qa"}
      [] event \in {"QA_VALIDATED", "QA_FAILED"} -> {"qa"}
      [] OTHER -> {"controller", "operations"}

Gate(event) ==
    CASE event \in {"PLAN_APPROVED", "PLAN_REJECTED"} -> "plan_approval"
      [] event \in {"QA_VALIDATED", "QA_FAILED"} -> "qa"
      [] event \in {"PRODUCT_APPROVED", "PRODUCT_REJECTED"} -> "product_approval"
      [] OTHER -> None

\* Mutant: the product gate looks at the implementer alone.
priorActors_ImplementerOnly(gate) ==
    {p \in {run.implementedBy} : gate \in {"qa", "product_approval"}} \ {None}

priorActors(gate) ==
    ({p \in {run.implementedBy} : gate \in {"qa", "product_approval"}}
       \cup {p \in {run.qaValidatedBy} : gate = "product_approval"}) \ {None}

-----------------------------------------------------------------------------
(* Operations *)

\* The repository's CreateWorkflow.  A second request with the project's key and
\* the same payload returns the run; another payload or creator is refused.
InsertRun ==
    /\ run = None
    /\ run' = [state |-> "intake", version |-> 1, implementedBy |-> None,
               qaValidatedBy |-> None, terminal |-> FALSE]

CreateWorkflow(p) ==
    /\ RolesFor[p] \cap {"controller", "development", "product_owner", "operations"} # {}
    /\ InsertRun
    /\ UNCHANGED <<sent, replay, passed>>

\* The part of TransitionWorkflow outside of the transaction; the policy
\* server allowed the action and the evidence is stored.  The version is the
\* caller's, the state the one that was read.
BeginTransition(p, event, to, key, ahead) ==
    /\ run # None /\ (key # None => event \in RepeatedEvents) /\ (ahead # 0 => event \in AheadEvents)
    /\ RolesFor[p] \cap Roles(run.state, event) # {}
    /\ Gate(event) # None => p \in Humans
    /\ Gate(event) \in DistinctFor => p \notin priorActors(Gate(event))
    /\ sent' = sent \cup {[by |-> p, event |-> event, from |-> run.state, to |-> to,
                            read |-> run.version, expected |-> run.version + ahead, key |-> key]}
    /\ UNCHANGED <<run, replay, passed>>

Seen(q) == q.key # None /\ replay[q.key] # None

Current(q) == run.version = q.expected /\ run.state = q.from

\* The history of the gates: an implementation makes the earlier ones void.
PassedBy(q) ==
    CASE q.event = "IMPLEMENTATION_COMPLETED" -> [Nobody EXCEPT !.implemented = q.by]
      [] q.event = "QA_VALIDATED" -> [passed EXCEPT !.qa = q.by, !.foretold = q.read # q.expected]
      [] q.event = "PRODUCT_APPROVED" -> [passed EXCEPT !.product = q.by]
      [] OTHER -> passed

Updated(p, q) ==
    [run EXCEPT !.state = q.to, !.version = @ + 1,
        !.implementedBy = IF q.event = "IMPLEMENTATION_COMPLETED" THEN p ELSE @,
        !.qaValidatedBy = IF q.event = "QA_VALIDATED" THEN p ELSE @,
        !.terminal = @ \/ q.to \in Terminal]

\* The transaction: a recorded key answers or refuses without effect,
\* otherwise run and event are written if the row has the version the caller
\* sent and the state the service read.
TransitionWorkflow(q) ==
    /\ IF ~Seen(q) /\ Current(q) /\ run.version < MaxWorkflowVersion
          THEN /\ run' = Updated(q.by, q)
               /\ passed' = PassedBy(q)
               /\ replay' = IF q.key = None THEN replay
                            ELSE [replay EXCEPT ![q.key] = [event |-> q.event, to |-> q.to]]
          ELSE UNCHANGED <<run, passed, replay>>
    /\ sent' = sent \ {q}

WorkflowNext ==
    \/ \E p \in Actors : CreateWorkflow(p)
    \/ /\ run # None /\ Cardinality(sent) < MaxUnderWay
       /\ \E p \in Actors, move \in transitionFor(run.state), key \in TransitionKeys \cup {None}, ahead \in Ahead :
             BeginTransition(p, move[1], move[2], key, ahead)
    \/ \E q \in sent : TransitionWorkflow(q)

WorkflowSpec == WorkflowInit /\ [][WorkflowNext]_workflowVars

-----------------------------------------------------------------------------
(* Properties *)

\* The row, its requests and its history have the shapes of their Go types.
WorkflowTypeOK ==
    /\ run = None \/ (run \in RunRow /\ run.version \in 1 .. MaxWorkflowVersion)
    /\ \A q \in sent : q.by \in Actors /\ q.event \in Events /\ q.to \in States
    /\ passed \in [implemented : Actors \cup {None}, qa : Actors \cup {None}, product : Actors \cup {None},
                   foretold : BOOLEAN]

\* What is promoted passed every human gate after the implementation it is
\* about, each by a human and, where the project's policy asks for it, by
\* somebody who took no earlier part, although each gate was checked against
\* a run that was read before the transaction.  The exception is a validation
\* that was sent with a version the run had yet to reach: it was compared
\* with the implementer of an earlier round (TransitionWorkflow).
PromotedThroughGates ==
    run # None /\ run.state \in {"promotion_pending", "completed"} =>
        /\ passed.implemented # None /\ passed.qa \in Humans /\ passed.product \in Humans
        /\ "qa" \in DistinctFor /\ ~passed.foretold => passed.qa # passed.implemented
        /\ "product_approval" \in DistinctFor => passed.product \notin {passed.implemented, passed.qa}

\* "Configured gates require distinct authenticated principals": what is
\* promoted was validated by somebody else than its implementer, whatever
\* version the validation was sent with (TransitionWorkflow).
ValidatedByAnother ==
    run # None /\ run.state \in {"promotion_pending", "completed"} /\ "qa" \in DistinctFor =>
        passed.qa # passed.implemented
=============================================================================

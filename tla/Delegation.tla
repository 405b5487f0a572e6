----------------------------- MODULE Delegation -----------------------------
(***************************************************************************)
(* Principals, their bearer credentials and the task credentials derived   *)
(* from them (internal/postgres/workflows.go BootstrapPrincipals and       *)
(* AuthenticatePrincipal, internal/postgres/delegation.go,                 *)
(* internal/service/delegation.go, internal/service/trace.go,              *)
(* cmd/admin/delegation.go).                                               *)
(*                                                                         *)
(* One human operator holds a credential configured in the environment and *)
(* read at every start; the admin command derives credentials of one task  *)
(* from it.  A delegate opens a session and calls tools later, while the   *)
(* operator restarts with the same, a new or an old token, loses the role, *)
(* revokes, or the task ends.                                              *)
(***************************************************************************)
EXTENDS Common

CONSTANTS
    Tokens,          \* tokens the operator's environment may hold
    TokenExpiry,     \* [Tokens -> expires_at of its credential row, or None]
    Grants,          \* task_delegations ids
    MaxTime          \* bound: the clock, in units of the shortest TTL

ASSUME DelegationAssumption ==
    /\ MaxTime \in Nat /\ TokenExpiry \in [Tokens -> 1 .. MaxTime \cup {None}]
    /\ Grants \cap {"empty", None} = {}

GrantRow == [parent : Tokens, revoked : BOOLEAN, expires : Nat]
Command == [at : {"issue", "write"}, grant : Grants, parent : Tokens, ttl : 1 .. 2]

ASSUME GrantRowAssumption == None \notin GrantRow /\ None \notin Command

VARIABLES
    credential,   \* [Tokens -> "absent", "live" or "revoked"], principal_credentials
    role,         \* the operator's development role binding
    task,         \* "queued", "active" or "ended"
    grants,       \* [Grants -> task_delegations row or None]
    session,      \* [Grants -> what a delegate's tool call got to]
    command,      \* the admin command under way, or None
    tokenFile,    \* the grant whose token the private file holds, "empty" or None
    clock,
    lost,         \* history: grants whose authority ended for good
    orphaned      \* history: grants whose command could not undo the issue

delegationVars == <<credential, role, task, grants, session, command, tokenFile, clock, lost, orphaned>>

DelegationInit ==
    /\ credential = [t \in Tokens |-> "absent"] /\ role = FALSE
    /\ task = "queued"
    /\ grants = [d \in Grants |-> None]
    /\ session = [d \in Grants |-> [at |-> "none", late |-> FALSE]]
    /\ command = None /\ tokenFile = None /\ clock = 0
    /\ lost = {} /\ orphaned = {}

-----------------------------------------------------------------------------
(* Authentication *)

ParentLive(t) ==
    /\ credential[t] = "live" /\ role
    /\ TokenExpiry[t] # None => TokenExpiry[t] > clock

\* constrainDelegatedPrincipal: the delegate's own rows and the issuer's.
Authenticates(d) ==
    /\ grants[d] # None /\ ~grants[d].revoked /\ grants[d].expires > clock
    /\ ParentLive(grants[d].parent)
    /\ task = "active"

\* What cannot come back: a revoked or expired credential, an ended task.
Withdrawn(d) ==
    /\ grants[d] # None
    /\ \/ grants[d].revoked \/ grants[d].expires <= clock
       \/ credential[grants[d].parent] = "revoked" \/ task = "ended"

Remember == lost' = lost \cup {d \in Grants : Withdrawn(d)'}

\* Credentials with other hashes are revoked; a hash that has a row keeps it,
\* with its revocation.
BootstrapCredential(t) ==
    credential' = [u \in Tokens |->
        IF u = t THEN (IF credential[u] = "absent" THEN "live" ELSE credential[u])
        ELSE IF credential[u] = "live" THEN "revoked" ELSE credential[u]]

\* Every start of the gateway, with what its environment holds; an empty
\* token revokes them all.
BootstrapPrincipals(t, bound) ==
    /\ IF t = None
          THEN credential' = [u \in Tokens |-> IF credential[u] = "live" THEN "revoked" ELSE credential[u]]
          ELSE BootstrapCredential(t)
    /\ role' = bound
    /\ UNCHANGED <<task, grants, session, command, tokenFile, clock, orphaned>>
    /\ Remember

-----------------------------------------------------------------------------
(* admin delegate-task *)

\* The private file is created before anything else.
StartCommand(d, t, ttl) ==
    /\ command = None /\ tokenFile = None /\ grants[d] = None /\ ParentLive(t)
    /\ command' = [at |-> "issue", grant |-> d, parent |-> t, ttl |-> ttl]
    /\ tokenFile' = "empty"
    /\ UNCHANGED <<credential, role, task, grants, session, clock, lost, orphaned>>

\* The lifetime is cut to the parent's.
Lifetime(t, ttl) ==
    IF TokenExpiry[t] # None /\ TokenExpiry[t] < clock + ttl THEN TokenExpiry[t] ELSE clock + ttl

\* IssueTaskDelegation: authority and task are read again under their locks.
IssueTaskDelegation(d, t, ttl) ==
    /\ ParentLive(t) /\ task = "active"
    /\ grants' = [grants EXCEPT ![d] = [parent |-> t, revoked |-> FALSE, expires |-> Lifetime(t, ttl)]]

\* IssueTaskCredential of the service.  "refused": one of its checks or of the
\* repository's fails and nothing is written.  "lost": the commit took effect
\* but returned an error.  The command returns either error at once: it
\* removes the file, and revokes nothing.
IssueTaskCredential(outcome) ==
    /\ command # None /\ command.at = "issue"
    /\ IF outcome = "refused" THEN UNCHANGED grants
          ELSE IssueTaskDelegation(command.grant, command.parent, command.ttl)
    /\ IF outcome = "issued"
          THEN command' = [command EXCEPT !.at = "write"] /\ UNCHANGED tokenFile
          ELSE command' = None /\ tokenFile' = None
    /\ orphaned' = IF outcome = "lost" THEN orphaned \cup {command.grant} ELSE orphaned
    /\ UNCHANGED <<credential, role, task, session, clock, lost>>

WriteToken ==
    /\ command # None /\ command.at = "write"
    /\ tokenFile' = command.grant /\ command' = None
    /\ UNCHANGED <<credential, role, task, grants, session, clock, lost, orphaned>>

\* The delegate's credential row stays; the grant it needs is revoked.
RevokeTaskDelegation(d) == grants' = [grants EXCEPT ![d].revoked = TRUE]

\* Mutant: the file is removed and the credential forgotten.
Undo_FileOnly(d, revoked) == UNCHANGED grants

Undo(d, revoked) == IF revoked THEN RevokeTaskDelegation(d) ELSE UNCHANGED grants

\* The write fails: the credential is revoked, unless that fails too, and the
\* file is removed.
WriteTokenFails(revoked) ==
    /\ command # None /\ command.at = "write"
    /\ Undo(command.grant, revoked)
    /\ command' = None /\ tokenFile' = None
    /\ orphaned' = IF revoked THEN orphaned ELSE orphaned \cup {command.grant}
    /\ UNCHANGED <<credential, role, task, session, clock>>
    /\ Remember

\* The process ends anywhere on its way: its file stays as it is, and what it
\* issued is in the database alone.
CommandKilled ==
    /\ command # None
    /\ command' = None
    /\ orphaned' = IF command.at = "write" THEN orphaned \cup {command.grant} ELSE orphaned
    /\ UNCHANGED <<credential, role, task, grants, session, tokenFile, clock, lost>>

\* By its issuer; revoked again it changes nothing.
RevokeTaskCredential(d) ==
    /\ grants[d] # None
    /\ RevokeTaskDelegation(d)
    /\ UNCHANGED <<credential, role, task, session, command, tokenFile, clock, orphaned>>
    /\ Remember

-----------------------------------------------------------------------------
(* Tool calls of a delegate *)

\* The HTTP request, or a session that was authenticated before.
OpenSession(d) ==
    /\ session[d].at = "none" /\ Authenticates(d)
    /\ session' = [session EXCEPT ![d].at = "open"]
    /\ UNCHANGED <<credential, role, task, grants, command, tokenFile, clock, lost, orphaned>>

CallTool(d) ==
    /\ session[d].at = "open"
    /\ session' = [session EXCEPT ![d] = [at |-> "arrived", late |-> d \in lost]]
    /\ UNCHANGED <<credential, role, task, grants, command, tokenFile, clock, lost, orphaned>>

\* Mutant: the principal of the context is trusted.
Recheck_Context(d) == TRUE

Recheck(d) == Authenticates(d)

\* What the boundary tells apart in a call: whether every id it names is of
\* the grant's project, run and task, the provider, the candidate it is about
\* and the event of a transition.
ToolInputs ==
    [tool : {"read", "generation_capture", "review_record", "workflow_task_transition", "other"},
     own : BOOLEAN, ollama : BOOLEAN, candidate : {"captured_here", "assigned", "foreign"},
     event : {"LOCAL_RESULT_RECORDED", "local_checkpoint", "governed_event"}]

\* Deny by default.
checkDelegatedTool(in) ==
    /\ in.own
    /\ \/ in.tool = "read"
       \/ in.tool = "generation_capture" /\ in.ollama
       \/ in.tool = "review_record" /\ in.ollama /\ in.candidate = "assigned"
       \/ /\ in.tool = "workflow_task_transition" /\ in.ollama
          /\ \/ in.event = "LOCAL_RESULT_RECORDED" /\ in.candidate = "captured_here"
             \/ in.event = "local_checkpoint"

\* RecheckTaskDelegation, then the tool boundary; a denial is recorded.
BeginToolOperation(d, in) ==
    /\ session[d].at = "arrived"
    /\ session' = [session EXCEPT ![d].at =
          IF Recheck(d) /\ checkDelegatedTool(in) THEN "admitted" ELSE "denied"]
    /\ UNCHANGED <<credential, role, task, grants, command, tokenFile, clock, lost, orphaned>>

EndCall(d) ==
    /\ session[d].at \in {"admitted", "denied"}
    /\ session' = [session EXCEPT ![d] = [at |-> "open", late |-> FALSE]]
    /\ UNCHANGED <<credential, role, task, grants, command, tokenFile, clock, lost, orphaned>>

\* Environment: the checkpoint becomes active, and ends with its task or run.
TaskMoves ==
    /\ task' = (CASE task = "queued" -> "active" [] OTHER -> "ended") /\ task # "ended"
    /\ UNCHANGED <<credential, role, grants, session, command, tokenFile, clock, orphaned>>
    /\ Remember

Tick ==
    /\ clock < MaxTime /\ clock' = clock + 1
    /\ UNCHANGED <<credential, role, task, grants, session, command, tokenFile, orphaned>>
    /\ Remember

DelegationNext ==
    \/ \E t \in Tokens \cup {None}, bound \in BOOLEAN : BootstrapPrincipals(t, bound)
    \/ \E d \in Grants, t \in Tokens, ttl \in 1 .. 2 : StartCommand(d, t, ttl)
    \/ \E outcome \in {"issued", "refused", "lost"} : IssueTaskCredential(outcome)
    \/ WriteToken \/ CommandKilled
    \/ \E revoked \in BOOLEAN : WriteTokenFails(revoked)
    \/ \E d \in Grants : \/ RevokeTaskCredential(d) \/ OpenSession(d) \/ CallTool(d) \/ EndCall(d)
                         \/ \E in \in ToolInputs : BeginToolOperation(d, in)
    \/ TaskMoves \/ Tick

DelegationSpec == DelegationInit /\ [][DelegationNext]_delegationVars

-----------------------------------------------------------------------------
(* Properties *)

\* Rows have the shapes of their tables, and no grant outlives its parent
\* (IssueTaskDelegation cuts expires_at).
DelegationTypeOK ==
    /\ credential \in [Tokens -> {"absent", "live", "revoked"}] /\ role \in BOOLEAN
    /\ task \in {"queued", "active", "ended"} /\ clock \in 0 .. MaxTime
    /\ grants \in [Grants -> {None} \cup GrantRow] /\ command \in {None} \cup Command
    /\ \A d \in Grants : grants[d] # None /\ TokenExpiry[grants[d].parent] # None =>
          grants[d].expires <= TokenExpiry[grants[d].parent]
    /\ tokenFile \in Grants \cup {"empty", None} /\ orphaned \subseteq Grants

\* A call that arrives after its authority ended for good is never admitted:
\* not through a session that was authenticated earlier, and not after a
\* restart that configures an old token again (RecheckTaskDelegation,
\* BootstrapPrincipals).
WithdrawnStaysWithdrawn ==
    \A d \in Grants : session[d].at = "admitted" => ~session[d].late

\* A credential that still authenticates was handed over or is on its way:
\* its token is in the file or with the running command.  What a refused
\* issue, a failed write and a removed file leave behind has no authority,
\* except after the three faults the command cannot undo: a commit whose
\* answer was lost, a killed command, a revocation that failed as well
\* (taskCredential, IssueTaskDelegation).
NoOrphanAuthority ==
    \A d \in Grants : Authenticates(d) =>
        tokenFile = d \/ (command # None /\ command.grant = d) \/ d \in orphaned
=============================================================================

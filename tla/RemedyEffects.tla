--------------------------- MODULE RemedyEffects ----------------------------
(***************************************************************************)
(* The external write of an incident's remediate stage and the recovery    *)
(* check after it (remediate, remedyRead and observe in                    *)
(* internal/sdlcworker/incident.go).                                       *)
(*                                                                         *)
(* The remedied endpoint is outside the platform: it answers a read with   *)
(* its state, an ETag that is the digest of the state and the action that  *)
(* wrote it, and honours If-Match.  Executors die, are overtaken and send  *)
(* writes that arrive long after they gave up; somebody else may change    *)
(* the endpoint at any time.                                               *)
(***************************************************************************)
EXTENDS Common, FiniteSets

CONSTANTS
    Remediers,          \* executor processes
    MaxRemedySteps,     \* bound: remediate steps of the run
    MaxRemedyFaults     \* bound: crashes, lost leases, delayed calls, drift

EndpointStates == {"before", "desired", "foreign"}
RemedyActions == 1 .. MaxRemedySteps

ASSUME RemedyAssumption ==
    /\ MaxRemedySteps \in Nat /\ MaxRemedyFaults \in Nat
    /\ None \notin {"succeeded", "blocked"} \cup EndpointStates

VARIABLES
    endpoint,   \* its state, the action named with it, what that replaced, and
                \* whether anybody ever put the original state back
    flight,     \* PUT requests on their way, as [etag, action]
    incident,   \* the run: status, open step, lease, remedied step, source data
    remedier,   \* what each executor holds inside RunOne
    mishaps     \* how many faults have happened

remedyVars == <<endpoint, flight, incident, remedier, mishaps>>

IdleRemedier == [pc |-> "idle", action |-> 0, fence |-> 0, canWrite |-> FALSE, etag |-> None,
                 outcome |-> None]

RemedyInit ==
    /\ endpoint = [state |-> "before", action |-> 0, replaced |-> None, restored |-> FALSE]
    /\ flight = {}
    /\ incident = [status |-> "ready", stage |-> "remediate", step |-> 0, open |-> FALSE, fence |-> 0,
                   lease |-> "expired", remedied |-> 0, window |-> "violated"]
    /\ remedier = [x \in Remediers |-> IdleRemedier]
    /\ mishaps = 0

Mishap == mishaps < MaxRemedyFaults /\ mishaps' = mishaps + 1
Turns(x, record) == remedier' = [remedier EXCEPT ![x] = record]
Concludes(x, outcome) == Turns(x, [remedier[x] EXCEPT !.pc = "report", !.outcome = outcome])

HoldsRemedy(x) ==
    /\ incident.open /\ incident.lease = "live" /\ incident.fence = remedier[x].fence
    /\ incident.status \in {"running", "reconciling"}

-----------------------------------------------------------------------------
(* The executor *)

ClaimRemedy(x) ==
    /\ remedier[x].pc = "idle"
    /\ incident.status \in {"ready", "running", "reconciling"}
    /\ ~(incident.open /\ incident.lease = "live")
    /\ LET fresh == ~incident.open /\ incident.stage = "remediate"
           step == IF fresh THEN incident.step + 1 ELSE incident.step
       IN  /\ step <= MaxRemedySteps
           /\ incident' = [incident EXCEPT !.step = step, !.open = TRUE, !.lease = "live", !.fence = @ + 1,
                                           !.status = IF @ = "reconciling" THEN @ ELSE "running"]
           /\ Turns(x, [IdleRemedier EXCEPT !.pc = "read", !.fence = incident.fence + 1,
                           !.action = IF incident.stage = "remediate" THEN step ELSE incident.remedied,
                           !.canWrite = incident.stage = "remediate" /\ incident.status # "reconciling"])
    /\ UNCHANGED <<endpoint, flight, mishaps>>

\* Mutant: the desired state is enough, whoever reached it.
Reached_AnyAction(x) == endpoint.state = "desired"

\* The exact authorized state, reached by this action.
Reached(x) == endpoint.state = "desired" /\ endpoint.action = remedier[x].action

\* What the last read found decides.
Judge(x) ==
    IF Reached(x) THEN Turns(x, [remedier[x] EXCEPT !.pc = "effect"]) ELSE Concludes(x, "blocked")

\* remedyRead, then the guard: the run still runs and the lease still answers.
\* Without a write the first read is the only one.
ReadRemedy(x) ==
    /\ remedier[x].pc = "read"
    /\ IF endpoint.state = "before" /\ remedier[x].canWrite
       THEN IF HoldsRemedy(x) /\ incident.status = "running"
            THEN Turns(x, [remedier[x] EXCEPT !.pc = "put", !.etag = endpoint.state])
            ELSE Concludes(x, "blocked")
       ELSE Judge(x)
    /\ UNCHANGED <<endpoint, flight, incident, mishaps>>

\* remedyRead fails: no answer, or one without the digest of its bytes as ETag.
Unreadable(x) ==
    /\ remedier[x].pc \in {"read", "back"} /\ Mishap
    /\ Concludes(x, "blocked")
    /\ UNCHANGED <<endpoint, flight, incident>>

\* PUT with If-Match and the action as its idempotency key.
Request(x) == [etag |-> remedier[x].etag, action |-> remedier[x].action]

PutRemedy(x) ==
    /\ remedier[x].pc = "put"
    /\ flight' = flight \cup {Request(x)}
    /\ Turns(x, [remedier[x] EXCEPT !.pc = "back"])
    /\ UNCHANGED <<endpoint, incident, mishaps>>

\* The endpoint applies a request whose If-Match is its state's digest, and
\* answers the others with a precondition failure.
EndpointAnswers(q) ==
    /\ q \in flight
    /\ flight' = flight \ {q}
    /\ endpoint' = IF q.etag \in {None, endpoint.state}
                   THEN [endpoint EXCEPT !.state = "desired", !.action = q.action, !.replaced = endpoint.state]
                   ELSE endpoint
    /\ UNCHANGED <<incident, remedier, mishaps>>

\* The second read.  A call that has not been answered yet is waited for,
\* unless it timed out: then only what the read finds counts.
ReadBackRemedy(x) ==
    /\ remedier[x].pc = "back"
    /\ IF \E q \in flight : q.action = remedier[x].action THEN Mishap ELSE UNCHANGED mishaps
    /\ Judge(x)
    /\ UNCHANGED <<endpoint, flight, incident>>

\* The receipt is put under the lease; a recovery is observed as well.
RecordRemedy(x) ==
    /\ remedier[x].pc = "effect" /\ HoldsRemedy(x)
    /\ IF incident.stage = "remediate" THEN Concludes(x, "succeeded")
       ELSE Turns(x, [remedier[x] EXCEPT !.pc = "observe"])
    /\ UNCHANGED <<endpoint, flight, incident, mishaps>>

\* observe, what it may come to: a source that is unavailable or incomplete
\* blocks, whatever the data says.
Observe == {"blocked"} \cup (IF incident.window = "satisfied" THEN {"succeeded"} ELSE {})

\* verify_recovery: a new complete window of every source, and every accepted
\* criterion satisfied in it.
ObserveRecovery(x) ==
    /\ remedier[x].pc = "observe" /\ HoldsRemedy(x)
    /\ \E outcome \in Observe : Concludes(x, outcome)
    /\ UNCHANGED <<endpoint, flight, incident, mishaps>>

CompleteRemedy(x) ==
    /\ remedier[x].pc = "report" /\ HoldsRemedy(x)
    /\ LET ok == remedier[x].outcome = "succeeded"
       IN  incident' = [incident EXCEPT !.open = FALSE, !.lease = "expired",
              !.status = IF @ = "reconciling" THEN (IF ok THEN "cancelled" ELSE "blocked")
                         ELSE IF ~ok THEN "blocked"
                         ELSE IF incident.stage = "remediate" THEN "ready" ELSE "completed",
              !.stage = IF ok /\ incident.status # "reconciling" THEN "verify_recovery" ELSE @,
              !.remedied = IF ok /\ incident.stage = "remediate" THEN incident.step ELSE @]
    /\ Turns(x, IdleRemedier)
    /\ UNCHANGED <<endpoint, flight, mishaps>>

LeaveRemedy(x) ==
    /\ remedier[x].pc \in {"effect", "observe", "report"} /\ ~HoldsRemedy(x)
    /\ Turns(x, IdleRemedier)
    /\ UNCHANGED <<endpoint, flight, incident, mishaps>>

-----------------------------------------------------------------------------
(* The environment *)

CrashRemedy(x) ==
    /\ remedier[x].pc # "idle" /\ Mishap
    /\ Turns(x, IdleRemedier)
    /\ UNCHANGED <<endpoint, flight, incident>>

RemedyLeaseExpires ==
    /\ incident.open /\ incident.lease = "live"
    /\ incident' = [incident EXCEPT !.lease = "expired"]
    /\ IF \E x \in Remediers : remedier[x].pc # "idle" /\ remedier[x].fence = incident.fence THEN Mishap
       ELSE UNCHANGED mishaps
    /\ UNCHANGED <<endpoint, flight, remedier>>

StopRemedy ==
    /\ incident.status \in {"ready", "running"} /\ Mishap
    /\ incident' = IF incident.open /\ incident.stage = "remediate" THEN [incident EXCEPT !.status = "reconciling"]
                   ELSE [incident EXCEPT !.status = "cancelled", !.lease = "expired", !.fence = @ + 1]
    /\ UNCHANGED <<endpoint, flight, remedier>>

ResumeRemedy ==
    /\ incident.status = "blocked" /\ Mishap
    /\ incident' = [incident EXCEPT !.status = "ready"]
    /\ UNCHANGED <<endpoint, flight, remedier>>

\* Another operator changes the endpoint, or puts the old state back.
EndpointDrifts(state) ==
    /\ endpoint.state # state /\ Mishap
    /\ endpoint' = [state |-> state, action |-> 0, replaced |-> None,
                    restored |-> endpoint.restored \/ state = "before"]
    /\ UNCHANGED <<flight, incident, remedier>>

\* Business data follows the endpoint's state sooner or later.
WindowSettles ==
    /\ incident' = [incident EXCEPT !.window = IF endpoint.state = "desired" THEN "satisfied" ELSE "violated"]
    /\ incident' # incident
    /\ UNCHANGED <<endpoint, flight, remedier, mishaps>>

RemedierStep(x) ==
    \/ ClaimRemedy(x) \/ ReadRemedy(x) \/ PutRemedy(x) \/ ReadBackRemedy(x) \/ RecordRemedy(x)
    \/ ObserveRecovery(x) \/ CompleteRemedy(x) \/ LeaveRemedy(x)

RemedyNext ==
    \/ \E x \in Remediers : RemedierStep(x) \/ CrashRemedy(x) \/ Unreadable(x)
    \/ \E q \in flight : EndpointAnswers(q)
    \/ RemedyLeaseExpires \/ StopRemedy \/ ResumeRemedy \/ WindowSettles
    \/ \E state \in {"before", "foreign"} : EndpointDrifts(state)

RemedySpec == RemedyInit /\ [][RemedyNext]_remedyVars

-----------------------------------------------------------------------------
(* Properties *)

EndpointRow ==
    [state : EndpointStates, action : 0 .. MaxRemedySteps, replaced : EndpointStates \cup {None}, restored : BOOLEAN]
RequestRow == [etag : EndpointStates \cup {None}, action : RemedyActions]
IncidentRow ==
    [status : {"ready", "running", "reconciling", "blocked", "cancelled", "completed"},
     stage : {"remediate", "verify_recovery"}, step : 0 .. MaxRemedySteps, open : BOOLEAN, fence : Nat,
     lease : {"live", "expired"}, remedied : 0 .. MaxRemedySteps, window : {"satisfied", "violated"}]
RemedierState ==
    [pc : {"idle", "read", "put", "back", "effect", "observe", "report"},
     action : 0 .. MaxRemedySteps, fence : Nat, canWrite : BOOLEAN,
     etag : EndpointStates \cup {None}, outcome : {"succeeded", "blocked", None}]

\* The endpoint, the requests, the run and the executors stay in their types,
\* and nobody reports without an outcome.
RemedyTypeOK ==
    /\ endpoint \in EndpointRow /\ flight \subseteq RequestRow /\ incident \in IncidentRow
    /\ remedier \in [Remediers -> RemedierState]
    /\ \A x \in Remediers : remedier[x].pc = "report" <=> remedier[x].outcome # None
    /\ mishaps \in 0 .. MaxRemedyFaults

\* A remedy only ever replaces the state it was authorized for: a request that
\* arrives after somebody else changed the endpoint changes nothing.
ReplacesAuthorizedState == endpoint.action # 0 => endpoint.replaced = "before"

\* A recorded remedy is that of the recorded step: an earlier attempt that is
\* still on its way cannot take its place.  The ETag is the state's digest, so
\* this ends when somebody puts the original state back (remediate).
RemediedByRecordedAction ==
    ~endpoint.restored /\ incident.remedied # 0 /\ endpoint.state = "desired"
        => endpoint.action = incident.remedied

\* The remedy found on the endpoint is the one that was authorized for the
\* state it replaced and recorded by its step (remediate, remedyRead).
RemedyIsItsOwn == ReplacesAuthorizedState /\ RemediedByRecordedAction
=============================================================================

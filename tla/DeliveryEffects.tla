-------------------------- MODULE DeliveryEffects ---------------------------
(***************************************************************************)
(* The external writes of the deliver and verify_delivery stages           *)
(* (internal/sdlcworker/delivery.go): a release branch, a pull request, an *)
(* immutable archive, a staging release and a CI status, each read back    *)
(* and recorded as a receipt under the executor's lease.                   *)
(*                                                                         *)
(* The forge and the file systems are outside the gateway's transactions:  *)
(* an executor may die between any two writes, its lease may end while a   *)
(* write is on its way, and another executor may repeat the same step.     *)
(*                                                                         *)
(* The commit, its archive and its manifest are functions of the run and   *)
(* of the logical step (the commit date is the run's creation time), so an *)
(* action <<run, step>> stands for all three.  SDLCExecution models the    *)
(* gateway in full; here a run keeps what an executor's calls depend on.   *)
(***************************************************************************)
EXTENDS Common, Sequences, FiniteSets

CONSTANTS
    Deliveries,         \* runs in their delivery stages
    Executors,          \* worker processes
    ExpectedRelease,    \* [Deliveries -> action or None]: expected_release_sha256
    MaxSteps,           \* bound: delivery steps of a run
    MaxDeliveryFaults   \* bound: crashes, lost leases, failed calls, owner decisions

ReleaseActions == Deliveries \X (1 .. MaxSteps)

ASSUME DeliveryAssumption ==
    /\ MaxSteps \in Nat /\ MaxDeliveryFaults \in Nat
    /\ None \notin Deliveries /\ None \notin Executors /\ None \notin ReleaseActions \cup {"succeeded"}

VARIABLES
    delivery,   \* the run's row and open step, as the gateway answers them
    executor,   \* what each executor holds while it is in RunOne
    forge,      \* branches, open pull requests, CI statuses, base branch
    files,      \* [path -> "absent" | "torn" | "full"]
    staging,    \* current.json, its lock, and the releases it has ever named
    faults      \* how many faults and owner decisions have happened

deliveryVars == <<delivery, executor, forge, files, staging, faults>>

-----------------------------------------------------------------------------
(* Effects.  deliver writes and records the first four; verify_delivery    *)
(* reads the same four and adds a CI status.                               *)

Effects == <<"forge_commit", "forge_pr", "artifact", "staging", "ci">>

\* Mutant: verify_delivery ends without a CI status.
LastEffect_NoStatus(stage) == 4
LastEffect(stage) == IF stage = "deliver" THEN 4 ELSE 5

\* The files of an action: in the artifact store the archive and the
\* manifest, in staging a copy of both.
ArtifactPaths(a) == <<<<"archive", a>>, <<"manifest", a>>>>
ReleasePaths(a) == <<<<"release_manifest", a>>, <<"source_tar", a>>>>
Paths == UNION {{p[1], p[2]} : p \in {ArtifactPaths(a) : a \in ReleaseActions}
                                      \cup {ReleasePaths(a) : a \in ReleaseActions}}
Stored(paths) == \A i \in 1 .. Len(paths) : files[paths[i]] = "full"

\* What the read-back of an effect has to find before it is recorded.
Observed(a, kind) ==
    CASE kind = "forge_commit" -> a \in forge.branches
      [] kind = "forge_pr" -> a \in forge.pulls /\ forge.base = "accepted"
      [] kind = "artifact" -> Stored(ArtifactPaths(a))
      [] kind = "staging" -> staging.current = a /\ files[ReleasePaths(a)[2]] = "full"
      [] kind = "ci" -> a \in forge.statuses

IdleExecutor == [pc |-> "idle", run |-> None, stage |-> "deliver", action |-> None, fence |-> 0,
                 canWrite |-> FALSE, at |-> 1, file |-> 1, late |-> 0, outcome |-> None]

Kind(x) == Effects[executor[x].at]
Goes(x, record) == executor' = [executor EXCEPT ![x] = record]
Reports(x, outcome) == Goes(x, [executor[x] EXCEPT !.pc = "report", !.outcome = outcome])
OneFault == faults < MaxDeliveryFaults /\ faults' = faults + 1

DeliveryInit ==
    /\ delivery = [r \in Deliveries |-> [stage |-> "deliver", status |-> "ready", step |-> 0,
                                         open |-> FALSE, fence |-> 0, lease |-> "expired", released |-> 0]]
    /\ executor = [x \in Executors |-> IdleExecutor]
    /\ forge = [branches |-> {}, pulls |-> {}, statuses |-> {}, base |-> "accepted"]
    /\ files = [p \in Paths |-> "absent"]
    /\ staging = [current |-> None, lock |-> None, past |-> {}]
    /\ faults = 0

-----------------------------------------------------------------------------
(* The gateway, as an executor sees it *)

HoldsLease(x) ==
    LET r == executor[x].run
    IN  /\ r \in Deliveries
        /\ delivery[r].open /\ delivery[r].lease = "live"
        /\ delivery[r].fence = executor[x].fence
        /\ delivery[r].status \in {"running", "reconciling"}

\* The guard before every write: the run is still running and the lease
\* still answers for its context.
Guard(x) == HoldsLease(x) /\ delivery[executor[x].run].status = "running"

\* The action identity is the logical step, or for verify_delivery the step
\* that delivered; never the lease fence.
ActionOf(r) ==
    IF delivery[r].stage = "verify_delivery" THEN <<r, delivery[r].released>>
    ELSE <<r, IF delivery[r].open THEN delivery[r].step ELSE delivery[r].step + 1>>

\* RunOne claims the next step, or the open one after its lease ran out, and
\* asks for its context.  A reclaim of a run that is not reconciling writes.
ClaimDelivery(x, r) ==
    /\ executor[x].pc = "idle"
    /\ delivery[r].status \in {"ready", "running", "reconciling"}
    /\ ~(delivery[r].open /\ delivery[r].lease = "live")
    /\ delivery[r].open \/ delivery[r].step < MaxSteps \/ delivery[r].stage = "verify_delivery"
    /\ LET row == delivery[r]
       IN  delivery' = [delivery EXCEPT ![r] =
              [row EXCEPT !.status = IF row.status = "reconciling" THEN "reconciling" ELSE "running",
                          !.step = IF row.open \/ row.stage = "verify_delivery" THEN row.step ELSE row.step + 1,
                          !.open = TRUE, !.lease = "live", !.fence = row.fence + 1]]
    /\ Goes(x, [IdleExecutor EXCEPT !.pc = "prepare", !.run = r, !.stage = delivery[r].stage,
                   !.action = ActionOf(r), !.fence = delivery[r].fence + 1,
                   !.canWrite = delivery[r].stage = "deliver" /\ delivery[r].status # "reconciling"])
    /\ UNCHANGED <<forge, files, staging, faults>>

\* The frozen contract, the evaluated candidate and the base branch; the
\* release commit is rebuilt locally.  A base that moved on ends the attempt.
Prepare(x) ==
    /\ executor[x].pc = "prepare"
    /\ IF forge.base = "accepted" THEN Goes(x, [executor[x] EXCEPT !.pc = "read"])
       ELSE Reports(x, "blocked")
    /\ UNCHANGED <<delivery, forge, files, staging, faults>>

-----------------------------------------------------------------------------
(* One effect: read, guard, write, read back, record.                      *)

MayWrite(x) == executor[x].canWrite \/ Kind(x) = "ci"

\* A branch, a pull request and a CI status that exist are not written again;
\* an archive and a staging release are written under the guard regardless.
WritesAgain(kind) == kind \in {"artifact", "staging"}

\* Mutant: the run and the lease are not asked again before a write.
ReadEffect_NoGuard(x) ==
    /\ executor[x].pc = "read"
    /\ Goes(x, [executor[x] EXCEPT !.file = 1,
                   !.pc = IF MayWrite(x) /\ (WritesAgain(Kind(x)) \/ ~Observed(executor[x].action, Kind(x)))
                          THEN "write" ELSE "back"])
    /\ UNCHANGED <<delivery, forge, files, staging, faults>>

ReadEffect(x) ==
    /\ executor[x].pc = "read"
    /\ IF MayWrite(x) /\ (WritesAgain(Kind(x)) \/ ~Observed(executor[x].action, Kind(x)))
       THEN IF Guard(x) THEN Goes(x, [executor[x] EXCEPT !.pc = "write", !.file = 1])
            ELSE Reports(x, "blocked")
       ELSE Goes(x, [executor[x] EXCEPT !.pc = "back"])
    /\ UNCHANGED <<delivery, forge, files, staging, faults>>

\* A write that lands when the guard would no longer hold is a late one.
Wrote(x) ==
    Goes(x, [executor[x] EXCEPT !.pc = "back", !.late = IF Guard(x) THEN @ ELSE @ + 1])

\* push --force-with-lease onto a branch that must not exist yet.
PushBranch(x) ==
    /\ executor[x].pc = "write" /\ Kind(x) = "forge_commit"
    /\ forge' = [forge EXCEPT !.branches = @ \cup {executor[x].action}]
    /\ Wrote(x)
    /\ UNCHANGED <<delivery, files, staging, faults>>

\* POST /pulls; the forge refuses a second open one for the same branch.
CreatePull(x) ==
    /\ executor[x].pc = "write" /\ Kind(x) = "forge_pr"
    /\ forge' = [forge EXCEPT !.pulls = @ \cup {executor[x].action}]
    /\ Wrote(x)
    /\ UNCHANGED <<delivery, files, staging, faults>>

\* immutableFile creates the file, or finds it with exactly these bytes.  A
\* file that a dead process left half written is a conflict for ever.
ImmutableFile(path) == files[path] = "absent"

\* The artifact store: first the archive, then the manifest.
StoreArtifact(x) ==
    /\ executor[x].pc = "write" /\ Kind(x) = "artifact"
    /\ LET path == ArtifactPaths(executor[x].action)[executor[x].file]
       IN  IF files[path] = "torn" THEN Reports(x, "blocked") /\ UNCHANGED files
           ELSE /\ files' = IF ImmutableFile(path) THEN [files EXCEPT ![path] = "full"] ELSE files
                /\ IF executor[x].file = 1 THEN Goes(x, [executor[x] EXCEPT !.file = 2])
                   ELSE Wrote(x)
    /\ UNCHANGED <<delivery, forge, staging, faults>>

\* The process dies inside immutableFile, after the file was created.
TearFile(x) ==
    /\ executor[x].pc = "write" /\ Kind(x) \in {"artifact", "staging"}
    /\ Kind(x) = "staging" => staging.lock = x /\ executor[x].file < 3
    /\ LET path == IF Kind(x) = "artifact" THEN ArtifactPaths(executor[x].action)[executor[x].file]
                   ELSE ReleasePaths(executor[x].action)[executor[x].file]
       IN  files[path] = "absent" /\ files' = [files EXCEPT ![path] = "torn"]
    /\ OneFault /\ Goes(x, IdleExecutor)
    /\ staging' = [staging EXCEPT !.lock = IF @ = x THEN None ELSE @]
    /\ UNCHANGED <<delivery, forge>>

-----------------------------------------------------------------------------
(* stageRelease, under an exclusive lock that is not waited for            *)

\* Mutant: every stager gets the lock.
LockFree_Always == TRUE

LockFree == staging.lock = None

LockStaging(x) ==
    /\ executor[x].pc = "write" /\ Kind(x) = "staging" /\ executor[x].file < 4 /\ staging.lock # x
    /\ IF LockFree THEN staging' = [staging EXCEPT !.lock = x] /\ UNCHANGED executor
       ELSE Reports(x, "blocked") /\ UNCHANGED staging
    /\ UNCHANGED <<delivery, forge, files, faults>>

StoreRelease(x) ==
    /\ executor[x].pc = "write" /\ Kind(x) = "staging" /\ staging.lock = x /\ executor[x].file < 3
    /\ LET path == ReleasePaths(executor[x].action)[executor[x].file]
       IN  IF files[path] = "torn"
           THEN /\ Reports(x, "blocked") /\ UNCHANGED files
                /\ staging' = [staging EXCEPT !.lock = None]
           ELSE /\ files' = IF ImmutableFile(path) THEN [files EXCEPT ![path] = "full"] ELSE files
                /\ Goes(x, [executor[x] EXCEPT !.file = @ + 1])
                /\ UNCHANGED staging
    /\ UNCHANGED <<delivery, forge, faults>>

\* current.json is this manifest already, or the release the contract names.
Replaceable(a) == staging.current = a \/ staging.current = ExpectedRelease[a[1]]

CompareRelease(x) ==
    /\ executor[x].pc = "write" /\ Kind(x) = "staging" /\ staging.lock = x /\ executor[x].file = 3
    /\ IF Replaceable(executor[x].action)
       THEN Goes(x, [executor[x] EXCEPT !.file = 4]) /\ UNCHANGED staging
       ELSE staging' = [staging EXCEPT !.lock = None] /\ Reports(x, "blocked")
    /\ UNCHANGED <<delivery, forge, files, faults>>

\* The new manifest is renamed over current.json and the lock released.
SelectRelease(x) ==
    /\ executor[x].pc = "write" /\ Kind(x) = "staging" /\ executor[x].file = 4
    /\ staging' = [current |-> executor[x].action, lock |-> None,
                   past |-> staging.past \cup {executor[x].action}]
    /\ Wrote(x)
    /\ UNCHANGED <<delivery, forge, files, faults>>

-----------------------------------------------------------------------------
(* ensureCI, after the published commit was fetched and tested again.      *)

PostStatus(x) ==
    /\ executor[x].pc = "write" /\ Kind(x) = "ci"
    /\ forge' = [forge EXCEPT !.statuses = @ \cup {executor[x].action}]
    /\ Wrote(x)
    /\ UNCHANGED <<delivery, files, staging, faults>>

\* The write is refused or its request lost; only the read-back decides.
WriteFails(x) ==
    /\ executor[x].pc = "write" /\ Kind(x) \in {"forge_commit", "forge_pr", "ci"}
    /\ OneFault
    /\ Goes(x, [executor[x] EXCEPT !.pc = "back"])
    /\ UNCHANGED <<delivery, forge, files, staging>>

ReadBack(x) ==
    /\ executor[x].pc = "back"
    /\ IF Observed(executor[x].action, Kind(x)) THEN Goes(x, [executor[x] EXCEPT !.pc = "add"])
       ELSE Reports(x, "blocked")
    /\ UNCHANGED <<delivery, forge, files, staging, faults>>

\* effect: the receipt is an artifact put under the lease.
AddEffect(x) ==
    /\ executor[x].pc = "add"
    /\ HoldsLease(x)
    /\ IF executor[x].at = LastEffect(executor[x].stage) THEN Reports(x, "succeeded")
       ELSE Goes(x, [executor[x] EXCEPT !.pc = IF executor[x].at = 4 THEN "probe" ELSE "read", !.at = @ + 1])
    /\ UNCHANGED <<delivery, forge, files, staging, faults>>

\* The protected tests, run again on the fetched commit.
Probe(x) ==
    /\ executor[x].pc = "probe"
    /\ \/ Goes(x, [executor[x] EXCEPT !.pc = "read"]) /\ UNCHANGED faults
       \/ OneFault /\ Reports(x, "failed")
    /\ UNCHANGED <<delivery, forge, files, staging>>

-----------------------------------------------------------------------------
(* The result, and what may happen to a run or an executor meanwhile       *)

\* The stage and status a result leaves a run in.
Settled(r, outcome) ==
    LET row == [delivery[r] EXCEPT !.open = FALSE, !.lease = "expired"]
    IN  IF row.status = "reconciling"
        THEN [row EXCEPT !.status = IF outcome = "succeeded" THEN "cancelled" ELSE "blocked"]
        ELSE IF outcome # "succeeded" THEN [row EXCEPT !.status = "blocked"]
        ELSE IF row.stage = "deliver"
        THEN [row EXCEPT !.status = "ready", !.stage = "verify_delivery", !.released = row.step]
        ELSE [row EXCEPT !.status = "completed"]

CompleteDelivery(x) ==
    /\ executor[x].pc = "report"
    /\ HoldsLease(x)
    /\ delivery' = [delivery EXCEPT ![executor[x].run] = Settled(executor[x].run, executor[x].outcome)]
    /\ Goes(x, IdleExecutor)
    /\ UNCHANGED <<forge, files, staging, faults>>

\* A call under a lease that is gone is an error, and so is the report of it.
LeaveDelivery(x) ==
    /\ executor[x].pc \in {"add", "report"} /\ ~HoldsLease(x)
    /\ Goes(x, IdleExecutor)
    /\ UNCHANGED <<delivery, forge, files, staging, faults>>

CrashDelivery(x) ==
    /\ executor[x].pc # "idle"
    /\ OneFault /\ Goes(x, IdleExecutor)
    /\ staging' = [staging EXCEPT !.lock = IF @ = x THEN None ELSE @]
    /\ UNCHANGED <<delivery, forge, files>>

\* A lease runs out when its holder is gone, and sometimes under its holder.
DeliveryLeaseExpires(r) ==
    /\ delivery[r].open /\ delivery[r].lease = "live"
    /\ delivery' = [delivery EXCEPT ![r].lease = "expired"]
    /\ IF \E x \in Executors : executor[x].run = r /\ executor[x].fence = delivery[r].fence
       THEN OneFault ELSE UNCHANGED faults
    /\ UNCHANGED <<executor, forge, files, staging>>

\* Pause or cancel: an open delivery has to be read back.
StopDelivery(r) ==
    /\ delivery[r].status \in {"ready", "running", "blocked"}
    /\ OneFault
    /\ LET row == delivery[r]
       IN  delivery' = [delivery EXCEPT ![r] =
              IF row.open /\ row.stage = "deliver" THEN [row EXCEPT !.status = "reconciling"]
              ELSE [row EXCEPT !.status = "cancelled", !.lease = "expired", !.fence = row.fence + 1]]
    /\ UNCHANGED <<executor, forge, files, staging>>

ResumeDelivery(r) ==
    /\ delivery[r].status = "blocked"
    /\ OneFault
    /\ delivery' = [delivery EXCEPT ![r].status = "ready"]
    /\ UNCHANGED <<executor, forge, files, staging>>

BaseAdvances ==
    /\ forge.base = "accepted"
    /\ OneFault /\ forge' = [forge EXCEPT !.base = "advanced"]
    /\ UNCHANGED <<delivery, executor, files, staging>>

ExecutorStep(x) ==
    \/ \E r \in Deliveries : ClaimDelivery(x, r)
    \/ Prepare(x) \/ ReadEffect(x) \/ PushBranch(x) \/ CreatePull(x) \/ StoreArtifact(x)
    \/ LockStaging(x) \/ StoreRelease(x) \/ CompareRelease(x) \/ SelectRelease(x) \/ PostStatus(x)
    \/ ReadBack(x) \/ AddEffect(x) \/ Probe(x) \/ CompleteDelivery(x) \/ LeaveDelivery(x)

DeliveryNext ==
    \/ \E x \in Executors : ExecutorStep(x) \/ WriteFails(x) \/ TearFile(x) \/ CrashDelivery(x)
    \/ \E r \in Deliveries : DeliveryLeaseExpires(r) \/ StopDelivery(r) \/ ResumeDelivery(r)
    \/ BaseAdvances

DeliverySpec == DeliveryInit /\ [][DeliveryNext]_deliveryVars

-----------------------------------------------------------------------------
(* Properties *)

\* The release contract, with what has become durable outside the gateway:
\* a torn or missing file is no artifact, and a run past its deliver stage,
\* or completed, reports the action it delivered.
Contract == INSTANCE ReleaseContract WITH
    Actions <- ReleaseActions,
    Replaces <- [a \in ReleaseActions |-> ExpectedRelease[a[1]]],
    committed <- forge.branches,
    proposed <- forge.pulls,
    archived <- {a \in ReleaseActions : Stored(ArtifactPaths(a))},
    selected <- staging.past,
    live <- staging.current,
    delivered <- {<<r, delivery[r].released>> : r \in {q \in Deliveries : delivery[q].released > 0}}

\* The deliver stage implements the release contract, whatever executors die,
\* repeat each other's steps or lose their leases on the way (delivery).
ImplementsReleaseContract == Contract!ContractSpec

DeliveryRow ==
    [stage : {"deliver", "verify_delivery"},
     status : {"ready", "running", "reconciling", "blocked", "cancelled", "completed"},
     step : 0 .. MaxSteps, open : BOOLEAN, fence : Nat, lease : {"live", "expired"}, released : 0 .. MaxSteps]
ExecutorState ==
    [pc : {"idle", "prepare", "read", "write", "back", "add", "probe", "report"},
     run : Deliveries \cup {None}, stage : {"deliver", "verify_delivery"}, action : ReleaseActions \cup {None},
     fence : Nat, canWrite : BOOLEAN, at : 1 .. 5, file : 1 .. 4, late : Nat,
     outcome : {"succeeded", "failed", "blocked", None}]

\* Rows, executors, forge and file states stay inside their types.
DeliveryTypeOK ==
    /\ delivery \in [Deliveries -> DeliveryRow] /\ executor \in [Executors -> ExecutorState]
    /\ forge \in [branches : SUBSET ReleaseActions, pulls : SUBSET ReleaseActions,
                  statuses : SUBSET ReleaseActions, base : {"accepted", "advanced"}]
    /\ files \in [Paths -> {"absent", "torn", "full"}]
    /\ staging \in [current : ReleaseActions \cup {None}, lock : Executors \cup {None},
                    past : SUBSET ReleaseActions]
    /\ faults \in 0 .. MaxDeliveryFaults

\* "cancel stops further authorized writes": an executor that lost its lease
\* or its run finishes at most the one effect it had been cleared for.
AtMostOneLateEffect == \A x \in Executors : executor[x].late <= 1

\* One logical step is one external action: whoever executes the open step,
\* under whatever lease, works on the branch of that step alone, so a repeat
\* never publishes a second branch or pull request for it.
RepeatsShareTheAction ==
    \A x \in Executors : HoldsLease(x) =>
        executor[x].action = <<executor[x].run,
            IF executor[x].stage = "deliver" THEN delivery[executor[x].run].step
            ELSE delivery[executor[x].run].released>>

\* A completed delivery left a commit, a pull request, whole archives and a
\* CI status behind: nothing torn or missing was ever certified.
CompletedIsWhole ==
    \A r \in Deliveries : delivery[r].status = "completed" =>
        LET a == <<r, delivery[r].released>>
        IN  /\ a \in forge.branches \cap forge.pulls \cap forge.statuses \cap staging.past
            /\ Stored(ArtifactPaths(a)) /\ Stored(ReleasePaths(a))

\* What makes a repeated or overtaken execution harmless, the two together:
\* it works on the same action, and after it lost its lease on nothing more
\* than the effect it was at (delivery and its lease guard).
RepeatsAreHarmless == AtMostOneLateEffect /\ RepeatsShareTheAction
=============================================================================

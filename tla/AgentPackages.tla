--------------------------- MODULE AgentPackages ----------------------------
(***************************************************************************)
(* Qualification, activation and rollback of agent packages                *)
(* (internal/service/execution_package.go,                                 *)
(* internal/postgres/execution_package.go) for one role that uses a model. *)
(*                                                                         *)
(* A package is its digest.  Trial runs of a qualification target produce  *)
(* the evidence of a campaign; an operator reads the active package and a  *)
(* campaign, and a later transaction activates the package by comparing    *)
(* digests.  Stage claims of regular runs are admitted against the active  *)
(* package in their own transactions.                                      *)
(***************************************************************************)
EXTENDS Common, Sequences, FiniteSets

CONSTANTS
    PackageShas,    \* digests of packages of the role
    Targets,        \* regular execution targets
    StagingTargets, \* the targets that are not disposable
    PackageOwners,  \* humans with the qa and operations roles
    MaxTrials,      \* bound: trial runs
    MaxCampaigns,   \* bound: recorded evaluations
    MaxDecisions    \* bound: activation requests

ASSUME PackageAssumption ==
    /\ StagingTargets \subseteq Targets /\ PackageShas # {}
    /\ MaxTrials \in Nat /\ MaxCampaigns \in Nat /\ MaxDecisions \in Nat

VARIABLES
    registry,   \* [Targets -> PackageShas]: target.Packages[role], edited by the operator
    trials,     \* sequence of qualification runs with the package they froze
    campaigns,  \* sequence of sdlc_package_evaluations
    activation, \* [Targets -> sdlc_package_activations row]
    decisions,  \* [Targets -> sequence of sdlc_package_decisions]
    pending,    \* [PackageOwners -> what the service checked before the transaction]
    regular     \* [Targets -> frozen package of a regular run and the ones it claimed under]

packageVars == <<registry, trials, campaigns, activation, decisions, pending, regular>>

TrialKinds == {"fixture", "local_model"}

PackagesInit ==
    /\ registry = [t \in Targets |-> CHOOSE p \in PackageShas : TRUE]
    /\ trials = << >> /\ campaigns = << >>
    /\ activation = [t \in Targets |-> [sha |-> None, version |-> 0]]
    /\ decisions = [t \in Targets |-> << >>]
    /\ pending = [o \in PackageOwners |-> None]
    /\ regular = [t \in Targets |-> [sha |-> None, claimed |-> {}]]

\* The operator registers another package version for a target.
EditRegistry(t, p) ==
    /\ p # registry[t]
    /\ registry' = [registry EXCEPT ![t] = p]
    /\ UNCHANGED <<trials, campaigns, activation, decisions, pending, regular>>

-----------------------------------------------------------------------------
(* Trial runs of a disposable qualification target                         *)

StartTrial(p, kind) ==
    /\ Len(trials) < MaxTrials
    /\ trials' = Append(trials, [sha |-> p, kind |-> kind, good |-> FALSE, bad |-> FALSE,
                                 status |-> "running"])
    /\ UNCHANGED <<registry, campaigns, activation, decisions, pending, regular>>

\* A result of the package's role, or an evaluation that rejects its candidate.
TrialResult(i, outcome) ==
    /\ trials[i].status = "running"
    /\ trials' = [trials EXCEPT ![i] = IF outcome = "succeeded" THEN [@ EXCEPT !.good = TRUE]
                                       ELSE [@ EXCEPT !.bad = TRUE]]
    /\ UNCHANGED <<registry, campaigns, activation, decisions, pending, regular>>

TrialCompletes(i) ==
    /\ trials[i].status = "running" /\ trials[i].good
    /\ trials' = [trials EXCEPT ![i].status = "completed"]
    /\ UNCHANGED <<registry, campaigns, activation, decisions, pending, regular>>

-----------------------------------------------------------------------------
(* EvaluatePackage: the service derives the verdict from the runs.         *)

Positive(ids) == \E i \in ids : trials[i].good /\ trials[i].status = "completed"
Negative(ids) == \E i \in ids : trials[i].bad
\* The kinds of the runs that have a result of the role.
ShownKinds(ids) == {trials[i].kind : i \in {j \in ids : trials[j].good \/ trials[j].bad}}

\* Mutant: one local model run makes the campaign a local-model one.
TrialKind_Strongest(ids) ==
    IF "local_model" \in ShownKinds(ids) THEN "local_model"
    ELSE IF ShownKinds(ids) = {} THEN "deterministic" ELSE "fixture"

\* One fixture result makes the campaign a fixture campaign.
TrialKind(ids) ==
    IF "fixture" \in ShownKinds(ids) THEN "fixture"
    ELSE IF ShownKinds(ids) = {} THEN "deterministic" ELSE "local_model"

\* Mutant: the request may name no run.
CampaignRuns_None(p, ids) == \A i \in ids : trials[i].sha = p

\* At least one run, all of them qualification runs of exactly this package.
CampaignRuns(p, ids) == ids # {} /\ \A i \in ids : trials[i].sha = p

EvaluatePackage(p, ids) ==
    /\ Len(campaigns) < MaxCampaigns
    /\ CampaignRuns(p, ids)
    /\ campaigns' = Append(campaigns,
          [sha |-> p, kind |-> TrialKind(ids), runs |-> ids,
           outcome |-> IF Positive(ids) /\ Negative(ids) THEN "passed" ELSE "failed"])
    /\ UNCHANGED <<registry, trials, activation, decisions, pending, regular>>

-----------------------------------------------------------------------------
(* ActivatePackage: checks of the service, then the transaction.           *)

\* The campaign is of the package the target is configured with, it passed,
\* and a target outside the disposable environment wants a local model.
CampaignFits(t, c) ==
    /\ c.outcome = "passed" /\ c.sha = registry[t]
    /\ t \in StagingTargets => c.kind = "local_model"

RequestActivation(o, t, n, action) ==
    /\ pending[o] = None
    /\ Cardinality({x \in PackageOwners : pending[x] # None}) + Len(decisions[t]) < MaxDecisions
    /\ CampaignFits(t, campaigns[n])
    /\ pending' = [pending EXCEPT ![o] = [target |-> t, campaign |-> n, action |-> action,
                                          previous |-> activation[t].sha]]
    /\ UNCHANGED <<registry, trials, campaigns, activation, decisions, regular>>

\* Mutant: what the operator saw is not compared.
PreviousMatches_Unchecked(o) == TRUE

\* current.PackageSHA256 = in.PreviousSHA256, under the activation's lock.
PreviousMatches(o) == activation[pending[o].target].sha = pending[o].previous

Activatable(o) ==
    LET in == pending[o]
        sha == campaigns[in.campaign].sha
    IN  /\ PreviousMatches(o)
        /\ campaigns[in.campaign].outcome = "passed"
        /\ in.action = "rollback" =>
              /\ \E i \in 1 .. Len(decisions[in.target]) : decisions[in.target][i].sha = sha
              /\ activation[in.target].sha # sha

ActivatePackage(o) ==
    /\ pending[o] # None /\ Activatable(o)
    /\ LET t == pending[o].target
           sha == campaigns[pending[o].campaign].sha
       IN  /\ activation' = [activation EXCEPT ![t] = [sha |-> sha, version |-> @.version + 1]]
           /\ decisions' = [decisions EXCEPT ![t] =
                 Append(@, [sha |-> sha, previous |-> pending[o].previous, action |-> pending[o].action])]
    /\ pending' = [pending EXCEPT ![o] = None]
    /\ UNCHANGED <<registry, trials, campaigns, regular>>

ActivationRefused(o) ==
    /\ pending[o] # None /\ ~Activatable(o)
    /\ pending' = [pending EXCEPT ![o] = None]
    /\ UNCHANGED <<registry, trials, campaigns, activation, decisions, regular>>

-----------------------------------------------------------------------------
(* Regular runs                                                            *)

\* The role's active package is exactly the one the run froze.
lockActivePackages(t, sha) == activation[t].sha # None /\ activation[t].sha = sha

CreateRegularRun(t) ==
    /\ regular[t].sha = None
    /\ lockActivePackages(t, registry[t])
    /\ regular' = [regular EXCEPT ![t].sha = registry[t]]
    /\ UNCHANGED <<registry, trials, campaigns, activation, decisions, pending>>

ClaimRegularRun(t) ==
    /\ regular[t].sha # None
    /\ lockActivePackages(t, regular[t].sha)
    /\ regular' = [regular EXCEPT ![t].claimed = @ \cup {regular[t].sha}]
    /\ UNCHANGED <<registry, trials, campaigns, activation, decisions, pending>>

EndRegularRun(t) ==
    /\ regular[t].sha # None
    /\ regular' = [regular EXCEPT ![t].sha = None]
    /\ UNCHANGED <<registry, trials, campaigns, activation, decisions, pending>>

PackagesNext ==
    \/ \E t \in Targets :
          \/ \E p \in PackageShas : EditRegistry(t, p)
          \/ CreateRegularRun(t) \/ ClaimRegularRun(t) \/ EndRegularRun(t)
          \/ \E o \in PackageOwners, n \in 1 .. Len(campaigns), action \in {"activate", "rollback"} :
                RequestActivation(o, t, n, action)
    \/ \E p \in PackageShas : \/ \E kind \in TrialKinds : StartTrial(p, kind)
                              \/ \E ids \in SUBSET (1 .. Len(trials)) : EvaluatePackage(p, ids)
    \/ \E i \in 1 .. Len(trials) : TrialCompletes(i) \/ \E outcome \in {"succeeded", "failed"} : TrialResult(i, outcome)
    \/ \E o \in PackageOwners : ActivatePackage(o) \/ ActivationRefused(o)

PackagesSpec == PackagesInit /\ [][PackagesNext]_packageVars

-----------------------------------------------------------------------------
(* Properties *)

\* Rows and held requests have the shapes of their Go types.
PackagesTypeOK ==
    /\ registry \in [Targets -> PackageShas]
    /\ trials \in Seq([sha : PackageShas, kind : TrialKinds, good : BOOLEAN, bad : BOOLEAN,
                       status : {"running", "completed"}])
    /\ campaigns \in Seq([sha : PackageShas, kind : TrialKinds \cup {"deterministic"}, runs : (SUBSET (1 .. MaxTrials)) \ {{}},
                          outcome : {"passed", "failed"}])
    /\ activation \in [Targets -> [sha : PackageShas \cup {None}, version : Nat]]
    /\ decisions \in [Targets -> Seq([sha : PackageShas, previous : PackageShas \cup {None},
                                      action : {"activate", "rollback"}])]
    /\ pending \in [PackageOwners -> {None} \cup
          [target : Targets, campaign : 1 .. MaxCampaigns, action : {"activate", "rollback"},
           previous : PackageShas \cup {None}]]
    /\ regular \in [Targets -> [sha : PackageShas \cup {None},
                                claimed : SUBSET PackageShas]]

\* "a caller cannot submit a self-declared pass": the active package of a
\* target completed a trial and was seen to fail one, and on a staging target
\* with the local model, whatever was registered since (EvaluatePackage).
ActiveWasQualified ==
    \A t \in Targets : activation[t].sha # None =>
        \E n \in 1 .. Len(campaigns) :
            /\ campaigns[n].sha = activation[t].sha
            /\ \E i \in campaigns[n].runs :
                  /\ trials[i].good /\ trials[i].status = "completed"
                  /\ t \in StagingTargets => trials[i].kind = "local_model"
            /\ \E i \in campaigns[n].runs : trials[i].bad

\* The decisions form a chain: each replaced the package the one before it
\* left active, although two operators may have read the same one
\* (ActivatePackage, current.PackageSHA256 # in.PreviousSHA256).
DecisionsChain ==
    \A t \in Targets :
        LET chain == decisions[t]
        IN  /\ activation[t].version = Len(chain)
            /\ Len(chain) > 0 => chain[1].previous = None /\ activation[t].sha = chain[Len(chain)].sha
            /\ \A i \in 2 .. Len(chain) : chain[i].previous = chain[i - 1].sha

\* A regular run never works with a package nobody decided on for its target,
\* however often registry and activation moved during it (lockActivePackages).
ClaimsUnderDecidedPackage ==
    \A t \in Targets :
        regular[t].claimed \subseteq {decisions[t][i].sha : i \in 1 .. Len(decisions[t])}
=============================================================================

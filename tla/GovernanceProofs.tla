-------------------------- MODULE GovernanceProofs --------------------------
(***************************************************************************)
(* Proofs about AgentPackages, Workflows and KnowledgeGovernance.          *)
(*                                                                         *)
(* ActiveWasQualified is not inductive: the transaction that activates a   *)
(* package reads the campaign an operator chose some steps before.         *)
(* PackagesInv follows the evidence from the trial to the campaign         *)
(* (CampaignsShown) and from the campaign to the request (RequestsFit).    *)
(*                                                                         *)
(* PromotedThroughGates is not inductive: a transition is checked on the   *)
(* run that was read.  WorkflowInv adds that row and history name the same *)
(* people, that every state lies behind the gates on the way to it, and    *)
(* that a request the version does not refuse was checked on the row as it *)
(* is.  The properties of knowledge name reports by their number:          *)
(* GovernanceInv adds that decisions under way and rulings name reports    *)
(* that exist (DecisionsName), and that what is captured has content.      *)
(***************************************************************************)
EXTENDS AgentPackages, Workflows, KnowledgeGovernance, FiniteSetTheorems, SequenceTheorems, TLAPS

-----------------------------------------------------------------------------
(* Agent packages *)

Campaign == [sha : PackageShas, kind : TrialKinds \cup {"deterministic"},
             runs : (SUBSET (1 .. MaxTrials)) \ {{}}, outcome : {"passed", "failed"}]
Trial == [sha : PackageShas, kind : TrialKinds, good : BOOLEAN, bad : BOOLEAN,
          status : {"running", "completed"}]
Decision == [sha : PackageShas, previous : PackageShas \cup {None}, action : {"activate", "rollback"}]
PendingActivation == [target : Targets, campaign : 1 .. MaxCampaigns, action : {"activate", "rollback"},
            previous : PackageShas \cup {None}]

\* The bounds are kept, and what a campaign or a request names exists.
NamesExist ==
    /\ Len(trials) <= MaxTrials /\ Len(campaigns) <= MaxCampaigns
    /\ \A n \in 1 .. Len(campaigns) : campaigns[n].runs \subseteq 1 .. Len(trials)
    /\ \A o \in PackageOwners : pending[o] # None => pending[o].campaign \in 1 .. Len(campaigns)

\* A trial that shows a package to work, with the local model where asked.
Shows(i, local) ==
    trials[i].good /\ trials[i].status = "completed" /\ (local => trials[i].kind = "local_model")

\* A passed campaign still has its evidence: a trial that completed, of the
\* kind the campaign claims, and one in which a candidate was rejected.
CampaignsShown ==
    \A n \in 1 .. Len(campaigns) : campaigns[n].outcome = "passed" =>
        /\ \E i \in campaigns[n].runs : Shows(i, campaigns[n].kind = "local_model")
        /\ \E i \in campaigns[n].runs : trials[i].bad

\* A request under way was checked against its target.
RequestsFit ==
    \A o \in PackageOwners : pending[o] # None /\ pending[o].target \in StagingTargets =>
        campaigns[pending[o].campaign].kind = "local_model"

\* Before the first decision nothing is active.
UndecidedInactive ==
    \A t \in Targets : Len(decisions[t]) = 0 => activation[t].sha = None

PackagesInv == /\ PackagesTypeOK /\ NamesExist /\ CampaignsShown /\ RequestsFit /\ UndecidedInactive
       /\ ActiveWasQualified /\ DecisionsChain /\ ClaimsUnderDecidedPackage

-----------------------------------------------------------------------------

\* The tables start empty, so the invariant holds.
LEMMA PackagesInitInv == PackagesInit => PackagesInv
<1> SUFFICES ASSUME PackagesInit PROVE PackagesInv
    OBVIOUS
<1>1. (CHOOSE p \in PackageShas : TRUE) \in PackageShas
    BY PackageAssumption DEF PackageAssumption
<1>2. PackagesTypeOK
    BY <1>1, PackageAssumption DEF PackagesInit, PackagesTypeOK, PackageAssumption
<1>3. NamesExist
    BY PackageAssumption DEF PackagesInit, NamesExist, PackageAssumption
<1>4. CampaignsShown /\ RequestsFit /\ UndecidedInactive
    BY DEF PackagesInit, CampaignsShown, RequestsFit, UndecidedInactive
<1>5. ActiveWasQualified /\ DecisionsChain /\ ClaimsUnderDecidedPackage
    BY DEF PackagesInit, ActiveWasQualified, DecisionsChain, ClaimsUnderDecidedPackage
<1> QED
    BY <1>2, <1>3, <1>4, <1>5 DEF PackagesInv

-----------------------------------------------------------------------------
(* Trials *)

\* What a step may do to trials without weakening the evidence in them: none
\* disappears, and what one has shown it shows for ever.
TrialsKept ==
    /\ Len(trials') >= Len(trials)
    /\ \A i \in 1 .. Len(trials) :
          /\ trials[i].bad => trials'[i].bad
          /\ trials[i].good /\ trials[i].status = "completed" => trials'[i] = trials[i]

\* A step that changes trials only, and keeps them, keeps the invariant.
LEMMA TrialStep ==
    ASSUME PackagesInv, TrialsKept, trials' \in Seq(Trial), Len(trials') <= MaxTrials,
           UNCHANGED <<registry, campaigns, activation, decisions, pending, regular>>
    PROVE  PackagesInv'
<1>1. PackagesTypeOK'
    BY DEF PackagesInv, PackagesTypeOK, Trial
<1>2. NamesExist'
    BY DEF PackagesInv, PackagesTypeOK, NamesExist, TrialsKept
<1>3. CampaignsShown'
  <2> SUFFICES ASSUME NEW n \in 1 .. Len(campaigns), campaigns[n].outcome = "passed"
               PROVE  /\ \E i \in campaigns[n].runs : Shows(i, campaigns[n].kind = "local_model")'
                      /\ \E i \in campaigns[n].runs : trials'[i].bad
      BY DEF CampaignsShown
  <2>1. PICK i \in campaigns[n].runs : Shows(i, campaigns[n].kind = "local_model")
      BY DEF PackagesInv, CampaignsShown
  <2>2. PICK j \in campaigns[n].runs : trials[j].bad
      BY DEF PackagesInv, CampaignsShown
  <2>3. i \in 1 .. Len(trials) /\ j \in 1 .. Len(trials)
      BY <2>1, <2>2 DEF PackagesInv, NamesExist
  <2>4. Shows(i, campaigns[n].kind = "local_model")'
      BY <2>1, <2>3 DEF TrialsKept, Shows
  <2> QED
      BY <2>2, <2>3, <2>4 DEF TrialsKept
<1>4. ActiveWasQualified'
  <2> SUFFICES ASSUME NEW t \in Targets, activation[t].sha # None
               PROVE  \E n \in 1 .. Len(campaigns) :
                         /\ campaigns[n].sha = activation[t].sha
                         /\ \E i \in campaigns[n].runs :
                               /\ trials'[i].good /\ trials'[i].status = "completed"
                               /\ t \in StagingTargets => trials'[i].kind = "local_model"
                         /\ \E i \in campaigns[n].runs : trials'[i].bad
      BY DEF ActiveWasQualified
  <2>1. PICK n \in 1 .. Len(campaigns) :
            /\ campaigns[n].sha = activation[t].sha
            /\ \E i \in campaigns[n].runs :
                  /\ trials[i].good /\ trials[i].status = "completed"
                  /\ t \in StagingTargets => trials[i].kind = "local_model"
            /\ \E i \in campaigns[n].runs : trials[i].bad
      BY DEF PackagesInv, ActiveWasQualified
  <2>2. campaigns[n].runs \subseteq 1 .. Len(trials)
      BY DEF PackagesInv, NamesExist
  <2> QED
      BY <2>1, <2>2 DEF TrialsKept
<1>5. RequestsFit' /\ UndecidedInactive' /\ DecisionsChain' /\ ClaimsUnderDecidedPackage'
    BY DEF PackagesInv, RequestsFit, UndecidedInactive, DecisionsChain, ClaimsUnderDecidedPackage
<1> QED
    BY <1>1, <1>2, <1>3, <1>4, <1>5 DEF PackagesInv

\* Trials only gain evidence: starting one, a result and a completion keep it.
LEMMA TrialsInv ==
    ASSUME PackagesInv,
           \/ \E p \in PackageShas, kind \in TrialKinds : StartTrial(p, kind)
           \/ \E i \in 1 .. Len(trials) :
                 TrialCompletes(i) \/ \E outcome \in {"succeeded", "failed"} : TrialResult(i, outcome)
    PROVE  PackagesInv'
<1>0. trials \in Seq(Trial) /\ Len(trials) \in Nat /\ Len(trials) <= MaxTrials /\ MaxTrials \in Nat
    BY PackageAssumption DEF PackagesInv, PackagesTypeOK, NamesExist, Trial, PackageAssumption
<1>1. ASSUME NEW p \in PackageShas, NEW kind \in TrialKinds, StartTrial(p, kind) PROVE PackagesInv'
  <2> DEFINE new == [sha |-> p, kind |-> kind, good |-> FALSE, bad |-> FALSE, status |-> "running"]
  <2>1. new \in Trial
      BY DEF Trial
  <2>2. trials' = Append(trials, new) /\ Len(trials) < MaxTrials
      BY <1>1 DEF StartTrial
  <2> HIDE DEF new
  <2>3. trials' \in Seq(Trial) /\ Len(trials') = Len(trials) + 1
      BY <1>0, <2>1, <2>2
  <2>4. \A i \in 1 .. Len(trials) : trials'[i] = trials[i]
      BY <1>0, <2>1, <2>2
  <2>5. TrialsKept
      BY <1>0, <2>3, <2>4 DEF TrialsKept
  <2> QED
      BY <1>0, <1>1, <2>2, <2>3, <2>5, TrialStep DEF StartTrial
<1>2. ASSUME NEW i \in 1 .. Len(trials), NEW outcome \in {"succeeded", "failed"}, TrialResult(i, outcome)
      PROVE  PackagesInv'
  <2>1. trials[i] \in Trial
      BY <1>0
  <2>2. PICK new \in Trial :
            /\ trials' = [trials EXCEPT ![i] = new]
            /\ new.bad = TRUE \/ new.bad = trials[i].bad
    <3>1. CASE outcome = "succeeded"
      <4> DEFINE new == [trials[i] EXCEPT !.good = TRUE]
      <4>1. new \in Trial /\ new.bad = trials[i].bad
          BY <2>1 DEF Trial
      <4>2. trials' = [trials EXCEPT ![i] = new]
          BY <1>2, <3>1 DEF TrialResult
      <4> QED
          BY <4>1, <4>2
    <3>2. CASE outcome = "failed"
      <4> DEFINE new == [trials[i] EXCEPT !.bad = TRUE]
      <4>1. new \in Trial /\ new.bad = TRUE
          BY <2>1 DEF Trial
      <4>2. trials' = [trials EXCEPT ![i] = new]
          BY <1>2, <3>2 DEF TrialResult
      <4> QED
          BY <4>1, <4>2
    <3> QED
        BY <3>1, <3>2
  <2>3. trials' \in Seq(Trial) /\ Len(trials') = Len(trials)
      BY <1>0, <2>2
  <2>4. TrialsKept
      BY <1>0, <1>2, <2>2, <2>3 DEF TrialsKept, TrialResult
  <2> QED
      BY <1>0, <1>2, <2>3, <2>4, TrialStep DEF TrialResult
<1>3. ASSUME NEW i \in 1 .. Len(trials), TrialCompletes(i) PROVE PackagesInv'
  <2>1. trials[i] \in Trial
      BY <1>0
  <2>2. trials' \in Seq(Trial) /\ Len(trials') = Len(trials)
      BY <1>0, <1>3, <2>1 DEF TrialCompletes, Trial
  <2>3. TrialsKept
      BY <1>0, <1>3, <2>1, <2>2 DEF TrialsKept, TrialCompletes, Trial
  <2> QED
      BY <1>0, <1>3, <2>2, <2>3, TrialStep DEF TrialCompletes
<1> QED
    BY <1>1, <1>2, <1>3

-----------------------------------------------------------------------------
(* Campaigns *)

\* A recorded campaign passes only on trials that show it (EvaluatePackage).
LEMMA EvaluatePackageInv ==
    ASSUME PackagesInv, NEW p \in PackageShas, NEW ids \in SUBSET (1 .. Len(trials)), EvaluatePackage(p, ids)
    PROVE  PackagesInv'
<1> DEFINE new == [sha |-> p, kind |-> TrialKind(ids), runs |-> ids,
                   outcome |-> IF Positive(ids) /\ Negative(ids) THEN "passed" ELSE "failed"]
           last == Len(campaigns) + 1
<1>0. /\ campaigns \in Seq(Campaign) /\ trials \in Seq(Trial)
      /\ Len(campaigns) \in Nat /\ Len(trials) \in Nat /\ Len(trials) <= MaxTrials
      /\ MaxTrials \in Nat /\ MaxCampaigns \in Nat
    BY PackageAssumption DEF PackagesInv, PackagesTypeOK, NamesExist, Campaign, Trial, PackageAssumption
<1>a. ids # {} /\ Len(campaigns) < MaxCampaigns
    BY DEF EvaluatePackage, CampaignRuns
<1>1. /\ campaigns' = Append(campaigns, new)
      /\ UNCHANGED <<registry, trials, activation, decisions, pending, regular>>
    BY DEF EvaluatePackage
<1>2. new \in Campaign
  <2>1. TrialKind(ids) \in TrialKinds \cup {"deterministic"}
      BY DEF TrialKind, TrialKinds
  <2>2. ids \subseteq 1 .. MaxTrials
      BY <1>0
  <2>3. ids \in (SUBSET (1 .. MaxTrials)) \ {{}}
      BY <1>a, <2>2
  <2> QED
      BY <2>1, <2>3 DEF Campaign
<1>3. new.outcome = "passed" =>
         /\ \E i \in ids : Shows(i, TrialKind(ids) = "local_model")
         /\ \E i \in ids : trials[i].bad
  <2> SUFFICES ASSUME Positive(ids), Negative(ids)
               PROVE  /\ \E i \in ids : Shows(i, TrialKind(ids) = "local_model")
                      /\ \E i \in ids : trials[i].bad
      OBVIOUS
  <2>1. PICK i \in ids : trials[i].good /\ trials[i].status = "completed"
      BY DEF Positive
  <2>a. i \in 1 .. Len(trials)
      BY <2>1
  <2>b. trials[i] \in Trial
      BY <1>0, <2>a
  <2>c. trials[i].kind \in TrialKinds
      BY <2>b DEF Trial
  <2>d. trials[i].kind \in ShownKinds(ids)
      BY <2>1 DEF ShownKinds
  <2>2. trials[i].kind \in TrialKinds /\ trials[i].kind \in ShownKinds(ids)
      BY <2>c, <2>d
  <2>3. TrialKind(ids) = "local_model" => trials[i].kind = "local_model"
      BY <2>2 DEF TrialKind, TrialKinds
  <2> QED
      BY <2>1, <2>3 DEF Shows, Negative
<1>4. new.sha = p /\ new.kind = TrialKind(ids) /\ new.runs = ids
    OBVIOUS
<1> HIDE DEF new
<1>5. /\ campaigns' \in Seq(Campaign) /\ Len(campaigns') = last /\ campaigns'[last] = new
      /\ \A n \in 1 .. Len(campaigns) : campaigns'[n] = campaigns[n]
    BY <1>0, <1>1, <1>2
<1>6. PackagesTypeOK'
    BY <1>1, <1>5 DEF PackagesInv, PackagesTypeOK, Campaign
<1>7. NamesExist'
  <2>1. Len(trials') <= MaxTrials /\ Len(campaigns') <= MaxCampaigns
      BY <1>0, <1>a, <1>1, <1>5
  <2>2. ASSUME NEW n \in 1 .. last PROVE campaigns'[n].runs \subseteq 1 .. Len(trials)
    <3>1. CASE n = last
        BY <1>4, <1>5, <3>1
    <3>2. CASE n \in 1 .. Len(campaigns)
        BY <1>5, <3>2 DEF PackagesInv, NamesExist
    <3> QED
        BY <1>0, <3>1, <3>2
  <2>3. ASSUME NEW o \in PackageOwners, pending[o] # None PROVE pending[o].campaign \in 1 .. last
      BY <1>0, <2>3 DEF PackagesInv, NamesExist
  <2> QED
      BY <1>1, <1>5, <2>1, <2>2, <2>3 DEF NamesExist
<1>8. CampaignsShown'
  <2> SUFFICES ASSUME NEW n \in 1 .. last, campaigns'[n].outcome = "passed"
               PROVE  /\ \E i \in campaigns'[n].runs : Shows(i, campaigns'[n].kind = "local_model")
                      /\ \E i \in campaigns'[n].runs : trials[i].bad
      BY <1>1, <1>5 DEF CampaignsShown, Shows
  <2>1. CASE n = last
      BY <1>3, <1>4, <1>5, <2>1
  <2>2. CASE n \in 1 .. Len(campaigns)
      BY <1>5, <2>2 DEF PackagesInv, CampaignsShown
  <2> QED
      BY <1>0, <2>1, <2>2
<1>9. RequestsFit'
    BY <1>0, <1>1, <1>5 DEF PackagesInv, NamesExist, RequestsFit
<1>10. ActiveWasQualified'
  <2> SUFFICES ASSUME NEW t \in Targets, activation[t].sha # None
               PROVE  \E n \in 1 .. last :
                         /\ campaigns'[n].sha = activation[t].sha
                         /\ \E i \in campaigns'[n].runs :
                               /\ trials[i].good /\ trials[i].status = "completed"
                               /\ t \in StagingTargets => trials[i].kind = "local_model"
                         /\ \E i \in campaigns'[n].runs : trials[i].bad
      BY <1>1, <1>5 DEF ActiveWasQualified
  <2>1. PICK n \in 1 .. Len(campaigns) :
            /\ campaigns[n].sha = activation[t].sha
            /\ \E i \in campaigns[n].runs :
                  /\ trials[i].good /\ trials[i].status = "completed"
                  /\ t \in StagingTargets => trials[i].kind = "local_model"
            /\ \E i \in campaigns[n].runs : trials[i].bad
      BY DEF PackagesInv, ActiveWasQualified
  <2>2. n \in 1 .. last /\ campaigns'[n] = campaigns[n]
      BY <1>0, <1>5
  <2> QED
      BY ONLY <2>1, <2>2
<1>11. UndecidedInactive' /\ DecisionsChain' /\ ClaimsUnderDecidedPackage'
  <2>1. UndecidedInactive'
      BY <1>1 DEF PackagesInv, UndecidedInactive
  <2>2. DecisionsChain'
      BY <1>1 DEF PackagesInv, DecisionsChain
  <2>3. ClaimsUnderDecidedPackage'
      BY <1>1 DEF PackagesInv, ClaimsUnderDecidedPackage
  <2> QED
      BY <2>1, <2>2, <2>3
<1> QED
    BY <1>6, <1>7, <1>8, <1>9, <1>10, <1>11 DEF PackagesInv

-----------------------------------------------------------------------------
(* Activation *)

\* A step that leaves trials, campaigns and decisions alone keeps what they say.
LEMMA CampaignEvidenceKept ==
    ASSUME PackagesInv, UNCHANGED <<trials, campaigns, activation, decisions>>
    PROVE  CampaignsShown' /\ UndecidedInactive' /\ ActiveWasQualified' /\ DecisionsChain'
<1>1. CampaignsShown'
    BY DEF PackagesInv, CampaignsShown, Shows
<1>2. UndecidedInactive' /\ DecisionsChain'
    BY DEF PackagesInv, UndecidedInactive, DecisionsChain
<1>3. ActiveWasQualified'
    BY DEF PackagesInv, ActiveWasQualified
<1> QED
    BY <1>1, <1>2, <1>3

\* A request that passed the service's checks fits its target (ActivatePackage of
\* the service).
LEMMA RequestActivationInv ==
    ASSUME PackagesInv, NEW o \in PackageOwners, NEW t \in Targets, NEW n \in 1 .. Len(campaigns),
           NEW action \in {"activate", "rollback"}, RequestActivation(o, t, n, action)
    PROVE  PackagesInv'
<1> DEFINE new == [target |-> t, campaign |-> n, action |-> action, previous |-> activation[t].sha]
<1>0. n \in 1 .. MaxCampaigns
    BY PackageAssumption DEF PackagesInv, PackagesTypeOK, NamesExist, PackageAssumption
<1>1. /\ pending' = [pending EXCEPT ![o] = new]
      /\ UNCHANGED <<registry, trials, campaigns, activation, decisions, regular>>
    BY DEF RequestActivation
<1>2. activation[t].sha \in PackageShas \cup {None}
    BY DEF PackagesInv, PackagesTypeOK
<1>3. new \in PendingActivation
    BY <1>0, <1>2 DEF PendingActivation
<1>4. new.campaign = n /\ new.target = t
    OBVIOUS
<1> HIDE DEF new
<1>5. pending \in [PackageOwners -> {None} \cup PendingActivation]
    BY DEF PackagesInv, PackagesTypeOK, PendingActivation
<1>6. \A x \in PackageOwners : pending'[x] = IF x = o THEN new ELSE pending[x]
    BY <1>1, <1>5
<1>7. pending' \in [PackageOwners -> {None} \cup PendingActivation]
    BY <1>1, <1>3, <1>5
<1>8. PackagesTypeOK'
    BY <1>1, <1>7 DEF PackagesInv, PackagesTypeOK, PendingActivation
<1>9. NamesExist'
    BY <1>1, <1>4, <1>6 DEF PackagesInv, NamesExist
<1>10. t \in StagingTargets => campaigns[n].kind = "local_model"
    BY DEF RequestActivation, CampaignFits
<1>11. RequestsFit'
    BY <1>1, <1>4, <1>6, <1>10 DEF PackagesInv, RequestsFit
<1>12. ClaimsUnderDecidedPackage'
    BY <1>1 DEF PackagesInv, ClaimsUnderDecidedPackage
<1> QED
    BY <1>1, <1>8, <1>9, <1>11, <1>12, CampaignEvidenceKept DEF PackagesInv

\* A refused request changes nothing else.
LEMMA ActivationRefusedInv ==
    ASSUME PackagesInv, NEW o \in PackageOwners, ActivationRefused(o)
    PROVE  PackagesInv'
<1>1. /\ pending' = [pending EXCEPT ![o] = None]
      /\ UNCHANGED <<registry, trials, campaigns, activation, decisions, regular>>
    BY DEF ActivationRefused
<1>2. pending \in [PackageOwners -> {None} \cup PendingActivation]
    BY DEF PackagesInv, PackagesTypeOK, PendingActivation
<1>3. \A x \in PackageOwners : pending'[x] = IF x = o THEN None ELSE pending[x]
    BY <1>1, <1>2
<1>4. pending' \in [PackageOwners -> {None} \cup PendingActivation]
    BY <1>1, <1>2
<1>5. PackagesTypeOK'
    BY <1>1, <1>4 DEF PackagesInv, PackagesTypeOK, PendingActivation
<1>6. NamesExist' /\ RequestsFit' /\ ClaimsUnderDecidedPackage'
    BY <1>1, <1>3 DEF PackagesInv, NamesExist, RequestsFit, ClaimsUnderDecidedPackage
<1> QED
    BY <1>1, <1>5, <1>6, CampaignEvidenceKept DEF PackagesInv

\* The transaction extends the chain by a package whose campaign passed, although
\* the request is older than the activation it replaces (ActivatePackage).
LEMMA ActivatePackageInv ==
    ASSUME PackagesInv, NEW o \in PackageOwners, ActivatePackage(o)
    PROVE  PackagesInv'
<1> DEFINE t == pending[o].target
           n == pending[o].campaign
           sha == campaigns[n].sha
           active == [sha |-> sha, version |-> activation[t].version + 1]
           new == [sha |-> sha, previous |-> pending[o].previous, action |-> pending[o].action]
<1>1. pending[o] # None /\ Activatable(o)
    BY DEF ActivatePackage
<1>2. /\ pending \in [PackageOwners -> {None} \cup PendingActivation] /\ campaigns \in Seq(Campaign)
      /\ activation \in [Targets -> [sha : PackageShas \cup {None}, version : Nat]]
      /\ decisions \in [Targets -> Seq(Decision)]
    BY DEF PackagesInv, PackagesTypeOK, PendingActivation, Campaign, Decision
<1>3. pending[o] \in PendingActivation
    BY <1>1, <1>2
<1>4. t \in Targets /\ n \in 1 .. Len(campaigns) /\ decisions[t] \in Seq(Decision)
    BY <1>1, <1>2, <1>3 DEF PackagesInv, NamesExist, PendingActivation
<1>5. sha \in PackageShas
  <2>1. campaigns[n] \in Campaign
    <3> HIDE DEF n
    <3> QED
        BY <1>2, <1>4
  <2> QED
      BY <2>1 DEF Campaign
<1>6. activation[t].sha = pending[o].previous /\ campaigns[n].outcome = "passed"
    BY <1>1 DEF Activatable, PreviousMatches
<1>7. active \in [sha : PackageShas \cup {None}, version : Nat] /\ new \in Decision
  <2>1. activation[t].version + 1 \in Nat
      BY <1>2, <1>4
  <2>2. pending[o].previous \in PackageShas \cup {None} /\ pending[o].action \in {"activate", "rollback"}
      BY <1>3 DEF PendingActivation
  <2> HIDE DEF t, n, sha
  <2> QED
      BY <1>5, <2>1, <2>2 DEF Decision
<1>8. /\ activation' = [activation EXCEPT ![t] = active]
      /\ decisions' = [decisions EXCEPT ![t] = Append(decisions[t], new)]
      /\ pending' = [pending EXCEPT ![o] = None]
      /\ UNCHANGED <<registry, trials, campaigns, regular>>
    BY DEF ActivatePackage
<1>9. /\ active.sha = sha /\ active.version = activation[t].version + 1
      /\ new.sha = sha /\ new.previous = activation[t].sha
    BY <1>6
<1> HIDE DEF active, new
<1>10. \A u \in Targets : /\ activation'[u] = IF u = t THEN active ELSE activation[u]
                          /\ decisions'[u] = IF u = t THEN Append(decisions[t], new) ELSE decisions[u]
    BY <1>2, <1>8
<1>11. \A x \in PackageOwners : pending'[x] = IF x = o THEN None ELSE pending[x]
    BY <1>2, <1>8
<1>12. /\ Len(Append(decisions[t], new)) = Len(decisions[t]) + 1 /\ Len(decisions[t]) \in Nat
       /\ Append(decisions[t], new)[Len(decisions[t]) + 1] = new
       /\ \A i \in 1 .. Len(decisions[t]) : Append(decisions[t], new)[i] = decisions[t][i]
    BY <1>4, <1>7
<1>a. /\ Len(decisions'[t]) = Len(decisions[t]) + 1 /\ Len(decisions[t]) \in Nat
      /\ \A i \in 1 .. Len(decisions[t]) : decisions'[t][i] = decisions[t][i]
    BY <1>4, <1>10, <1>12
<1>13. PackagesTypeOK'
  <2>1. decisions' \in [Targets -> Seq(Decision)]
      BY <1>2, <1>4, <1>7, <1>8
  <2>2. activation' \in [Targets -> [sha : PackageShas \cup {None}, version : Nat]]
      BY <1>2, <1>7, <1>8
  <2>3. pending' \in [PackageOwners -> {None} \cup PendingActivation]
      BY <1>2, <1>8
  <2> QED
      BY <1>8, <2>1, <2>2, <2>3 DEF PackagesInv, PackagesTypeOK, Decision, PendingActivation
<1>14. NamesExist' /\ RequestsFit'
    BY <1>8, <1>11 DEF PackagesInv, NamesExist, RequestsFit
<1>15. CampaignsShown'
    BY <1>8 DEF PackagesInv, CampaignsShown, Shows
<1>16. UndecidedInactive'
  <2> HIDE DEF t, n, sha
  <2> SUFFICES ASSUME NEW u \in Targets, Len(decisions'[u]) = 0 PROVE activation'[u].sha = None
      BY DEF UndecidedInactive
  <2>1. u # t
      BY <1>a
  <2> QED
      BY <1>10, <2>1 DEF PackagesInv, UndecidedInactive
<1>17. ActiveWasQualified'
  <2>1. PICK i \in campaigns[n].runs : Shows(i, campaigns[n].kind = "local_model")
      BY <1>4, <1>6 DEF PackagesInv, CampaignsShown
  <2>2. \E j \in campaigns[n].runs : trials[j].bad
      BY <1>4, <1>6 DEF PackagesInv, CampaignsShown
  <2>3. t \in StagingTargets => campaigns[n].kind = "local_model"
      BY <1>1 DEF PackagesInv, RequestsFit
  <2>4. /\ trials[i].good /\ trials[i].status = "completed"
        /\ t \in StagingTargets => trials[i].kind = "local_model"
      BY <2>1, <2>3 DEF Shows
  <2> HIDE DEF t, n, sha
  <2>5. ASSUME NEW u \in Targets, activation'[u].sha # None
        PROVE  \E m \in 1 .. Len(campaigns) :
                  /\ campaigns[m].sha = activation'[u].sha
                  /\ \E k \in campaigns[m].runs :
                        /\ trials[k].good /\ trials[k].status = "completed"
                        /\ u \in StagingTargets => trials[k].kind = "local_model"
                  /\ \E k \in campaigns[m].runs : trials[k].bad
    <3>1. CASE u = t
        BY <1>4, <1>9, <1>10, <2>1, <2>2, <2>4, <3>1 DEF sha
    <3>2. CASE u # t
        BY <1>10, <2>5, <3>2 DEF PackagesInv, ActiveWasQualified
    <3> QED
        BY <3>1, <3>2
  <2> QED
      BY <1>8, <2>5 DEF ActiveWasQualified
<1>18. DecisionsChain'
  <2> HIDE DEF t, n, sha
  <2> SUFFICES ASSUME NEW u \in Targets
               PROVE  /\ activation'[u].version = Len(decisions'[u])
                      /\ Len(decisions'[u]) > 0 =>
                            /\ decisions'[u][1].previous = None
                            /\ activation'[u].sha = decisions'[u][Len(decisions'[u])].sha
                      /\ \A i \in 2 .. Len(decisions'[u]) : decisions'[u][i].previous = decisions'[u][i - 1].sha
      BY DEF DecisionsChain
  <2>1. CASE u # t
      BY <1>10, <2>1 DEF PackagesInv, DecisionsChain
  <2>2. CASE u = t
    <3> DEFINE c == decisions[t]
               d == decisions'[t]
               l == Len(c)
    <3>1. /\ activation[t].version = l
          /\ l > 0 => c[1].previous = None /\ activation[t].sha = c[l].sha
          /\ l = 0 => activation[t].sha = None
          /\ \A i \in 2 .. l : c[i].previous = c[i - 1].sha
        BY <1>4 DEF PackagesInv, DecisionsChain, UndecidedInactive
    <3>2. /\ Len(d) = l + 1 /\ l \in Nat /\ d[l + 1] = new
          /\ \A i \in 1 .. l : d[i] = c[i]
          /\ activation'[t] = active
        BY <1>4, <1>10, <1>12
    <3> HIDE DEF c, d, l
    <3>3. activation'[t].version = Len(d) /\ activation'[t].sha = d[Len(d)].sha
        BY <1>9, <3>1, <3>2
    <3>4. d[1].previous = None
      <4>1. CASE l = 0
          BY <1>9, <3>1, <3>2, <4>1
      <4>2. CASE l > 0
          BY <3>1, <3>2, <4>2
      <4> QED
          BY <3>2, <4>1, <4>2
    <3>5. ASSUME NEW i \in 2 .. Len(d) PROVE d[i].previous = d[i - 1].sha
      <4>1. CASE i = l + 1
          BY <1>9, <3>1, <3>2, <4>1
      <4>2. CASE i \in 2 .. l
          BY <3>1, <3>2, <4>2
      <4> QED
          BY <3>2, <4>1, <4>2
    <3> QED
        BY <2>2, <3>3, <3>4, <3>5 DEF d
  <2> QED
      BY <2>1, <2>2
<1>19. ClaimsUnderDecidedPackage'
  <2> HIDE DEF t, n, sha
  <2> SUFFICES ASSUME NEW u \in Targets, NEW p \in regular'[u].claimed
               PROVE  \E i \in 1 .. Len(decisions'[u]) : p = decisions'[u][i].sha
      BY DEF ClaimsUnderDecidedPackage
  <2>a. p \in regular[u].claimed
      BY <1>8
  <2>1. PICK i \in 1 .. Len(decisions[u]) : p = decisions[u][i].sha
      BY <2>a DEF PackagesInv, ClaimsUnderDecidedPackage
  <2>2. CASE u = t
      BY <1>a, <2>1, <2>2
  <2>3. CASE u # t
      BY <1>10, <2>1, <2>3
  <2> QED
      BY <2>2, <2>3
<1> QED
    BY <1>13, <1>14, <1>15, <1>16, <1>17, <1>18, <1>19 DEF PackagesInv

-----------------------------------------------------------------------------
(* Registry and regular runs *)

\* Registering another package changes nothing that was decided.
LEMMA EditRegistryInv ==
    ASSUME PackagesInv, NEW t \in Targets, NEW p \in PackageShas, EditRegistry(t, p)
    PROVE  PackagesInv'
<1>1. UNCHANGED <<trials, campaigns, activation, decisions, pending, regular>>
    BY DEF EditRegistry
<1>2. registry' \in [Targets -> PackageShas]
    BY DEF PackagesInv, PackagesTypeOK, EditRegistry
<1>3. PackagesTypeOK'
    BY <1>1, <1>2 DEF PackagesInv, PackagesTypeOK
<1>4. NamesExist' /\ RequestsFit' /\ ClaimsUnderDecidedPackage'
    BY <1>1 DEF PackagesInv, NamesExist, RequestsFit, ClaimsUnderDecidedPackage
<1> QED
    BY <1>1, <1>3, <1>4, CampaignEvidenceKept DEF PackagesInv

\* The package a run claims under is the active one, which the last decision
\* of its target made active.
LEMMA ActiveWasDecided ==
    ASSUME PackagesInv, NEW t \in Targets, activation[t].sha # None
    PROVE  \E i \in 1 .. Len(decisions[t]) : activation[t].sha = decisions[t][i].sha
<1>1. Len(decisions[t]) \in Nat
    BY DEF PackagesInv, PackagesTypeOK
<1>2. Len(decisions[t]) > 0
    BY <1>1 DEF PackagesInv, UndecidedInactive
<1>3. activation[t].sha = decisions[t][Len(decisions[t])].sha
    BY <1>2 DEF PackagesInv, DecisionsChain
<1> QED
    BY <1>1, <1>2, <1>3

\* A run is created, claims a stage, or ends.
LEMMA RegularRunInv ==
    ASSUME PackagesInv, NEW t \in Targets, CreateRegularRun(t) \/ ClaimRegularRun(t) \/ EndRegularRun(t)
    PROVE  PackagesInv'
<1> DEFINE Run == [sha : PackageShas \cup {None}, claimed : SUBSET PackageShas]
           decided(u) == {decisions[u][i].sha : i \in 1 .. Len(decisions[u])}
<1>1. UNCHANGED <<registry, trials, campaigns, activation, decisions, pending>>
    BY DEF CreateRegularRun, ClaimRegularRun, EndRegularRun
<1>2. regular \in [Targets -> Run] /\ registry[t] \in PackageShas
    BY DEF PackagesInv, PackagesTypeOK
<1>3. regular[t].claimed \subseteq decided(t)
    BY DEF PackagesInv, ClaimsUnderDecidedPackage
<1>4. PICK r \in Run : regular' = [regular EXCEPT ![t] = r] /\ r.claimed \subseteq decided(t)
  <2>1. CASE CreateRegularRun(t)
    <3> DEFINE r == [regular[t] EXCEPT !.sha = registry[t]]
    <3>1. r \in Run /\ r.claimed = regular[t].claimed
        BY <1>2
    <3> QED
        BY <1>3, <2>1, <3>1 DEF CreateRegularRun
  <2>2. CASE ClaimRegularRun(t)
    <3> DEFINE r == [regular[t] EXCEPT !.claimed = @ \cup {regular[t].sha}]
    <3>1. regular[t].sha \in PackageShas
        BY <1>2, <2>2 DEF ClaimRegularRun
    <3>2. r \in Run /\ r.claimed = regular[t].claimed \cup {regular[t].sha}
        BY <1>2, <3>1
    <3>3. regular[t].sha \in decided(t)
        BY <2>2, ActiveWasDecided DEF ClaimRegularRun, lockActivePackages
    <3>4. regular' = [regular EXCEPT ![t] = r]
        BY <2>2 DEF ClaimRegularRun
    <3> HIDE DEF r, decided, Run
    <3>5. r.claimed \subseteq decided(t)
        BY <1>3, <3>2, <3>3
    <3> QED
        BY <3>2, <3>4, <3>5
  <2>3. CASE EndRegularRun(t)
    <3> DEFINE r == [regular[t] EXCEPT !.sha = None]
    <3>1. r \in Run /\ r.claimed = regular[t].claimed
        BY <1>2
    <3> QED
        BY <1>3, <2>3, <3>1 DEF EndRegularRun
  <2> QED
      BY <2>1, <2>2, <2>3
<1>5. PackagesTypeOK'
  <2>1. regular' \in [Targets -> Run]
      BY <1>2, <1>4
  <2> QED
      BY <1>1, <2>1 DEF PackagesInv, PackagesTypeOK
<1>6. ClaimsUnderDecidedPackage'
  <2> HIDE DEF decided
  <2>1. ASSUME NEW u \in Targets PROVE regular'[u].claimed \subseteq decided(u)
    <3>1. regular[u].claimed \subseteq decided(u)
        BY DEF PackagesInv, ClaimsUnderDecidedPackage, decided
    <3> QED
        BY <1>2, <1>4, <3>1
  <2> QED
      BY <1>1, <2>1 DEF ClaimsUnderDecidedPackage, decided
<1>7. NamesExist' /\ RequestsFit'
    BY <1>1 DEF PackagesInv, NamesExist, RequestsFit
<1> QED
    BY <1>1, <1>5, <1>6, <1>7, CampaignEvidenceKept DEF PackagesInv

-----------------------------------------------------------------------------

\* Every step of the specification keeps the invariant.
LEMMA PackagesNextInv == PackagesInv /\ [PackagesNext]_packageVars => PackagesInv'
<1> SUFFICES ASSUME PackagesInv, [PackagesNext]_packageVars PROVE PackagesInv'
    OBVIOUS
<1>1. CASE UNCHANGED packageVars
  <2>1. PackagesTypeOK'
      BY <1>1 DEF PackagesInv, PackagesTypeOK, packageVars
  <2>2. NamesExist' /\ RequestsFit' /\ ClaimsUnderDecidedPackage'
      BY <1>1 DEF PackagesInv, NamesExist, RequestsFit, ClaimsUnderDecidedPackage, packageVars
  <2> QED
      BY <1>1, <2>1, <2>2, CampaignEvidenceKept DEF PackagesInv, packageVars
<1>2. CASE PackagesNext
    BY <1>2, TrialsInv, EvaluatePackageInv, RequestActivationInv, ActivatePackageInv,
       ActivationRefusedInv, EditRegistryInv, RegularRunInv DEF PackagesNext
<1> QED
    BY <1>1, <1>2

\* The invariant holds in every reachable state.
LEMMA InvHolds == PackagesSpec => []PackagesInv
<1>1. PackagesInit => PackagesInv
    BY PackagesInitInv
<1>2. PackagesInv /\ [PackagesNext]_packageVars => PackagesInv'
    BY PackagesNextInv
<1> QED
    BY <1>1, <1>2, PTL DEF PackagesSpec

\* Trials, campaigns, activations, decisions and held requests keep the shapes
\* of their tables in every behaviour.
THEOREM PackagesTypeCorrect == PackagesSpec => []PackagesTypeOK
<1>1. PackagesInv => PackagesTypeOK
    BY DEF PackagesInv
<1> QED
    BY <1>1, InvHolds, PTL

\* Whatever operators register, evaluate and activate, an active package
\* completed a trial and failed one, on a staging target with the local model
\* (EvaluatePackage, ActivatePackage).
THEOREM ActiveQualified == PackagesSpec => []ActiveWasQualified
<1>1. PackagesInv => ActiveWasQualified
    BY DEF PackagesInv
<1> QED
    BY <1>1, InvHolds, PTL

\* No activation or rollback is lost or overwrites one its operator had not
\* seen: the decisions of a target form a chain (ActivatePackage).
THEOREM DecisionsFormChain == PackagesSpec => []DecisionsChain
<1>1. PackagesInv => DecisionsChain
    BY DEF PackagesInv
<1> QED
    BY <1>1, InvHolds, PTL

\* A regular run claims stages only under packages that were decided on for
\* its target (lockActivePackages).
THEOREM ClaimsDecided == PackagesSpec => []ClaimsUnderDecidedPackage
<1>1. PackagesInv => ClaimsUnderDecidedPackage
    BY DEF PackagesInv
<1> QED
    BY <1>1, InvHolds, PTL

-----------------------------------------------------------------------------
(* Workflows *)

\* The states that lie behind an implementation, behind the QA gate and
\* behind the product gate.
Implemented == {"verifying", "qa_validating", "awaiting_human_qa", "qa_validated",
                "awaiting_product_approval", "promotion_pending", "completed"}
ValidatedStates == {"qa_validated", "awaiting_product_approval", "promotion_pending", "completed"}
Promoted == {"promotion_pending", "completed"}

\* The states after the product gate, passed or left: nobody comes back to it.
PastProduct == {"promotion_pending", "completed", "product_rejected", "cancel_requested", "cancelled",
                "blocked", "failed"}

\* The row names the implementer and the validator the history names; a
\* validation that a new implementation made void may still be in the row.
RowTellsTheGates ==
    IF run = None THEN passed = Nobody ELSE
        /\ run.implementedBy = passed.implemented
        /\ passed.qa # None => run.qaValidatedBy = passed.qa

\* Every state is behind the gates on the way to it.
StateTellsTheGates ==
    run # None =>
        /\ run.state \in Implemented => passed.implemented # None
        /\ run.state \in ValidatedStates =>
              passed.qa \in Humans /\ ("qa" \in DistinctFor /\ ~passed.foretold => passed.qa # passed.implemented)
        /\ run.state \in Promoted =>
              /\ passed.product \in Humans
              /\ "product_approval" \in DistinctFor => passed.product \notin {passed.implemented, passed.qa}

\* A request was checked against the run its service read.  While the run is
\* that one, the check holds of it; later the run may be at an implementation
\* the check knew nothing of, but it is past the product gate if the request
\* is about that one.
Checked(q) ==
    /\ q.read <= q.expected /\ q.read <= run.version
    /\ <<q.event, q.to>> \in transitionFor(q.from)
    /\ Gate(q.event) # None => q.by \in Humans
    /\ q.read = run.version =>
          q.from = run.state /\ (Gate(q.event) \in DistinctFor => q.by \notin priorActors(Gate(q.event)))
    /\ q.read # run.version /\ q.from = "awaiting_product_approval" => run.state \in PastProduct

TransitionRequest == [by : Actors, event : Events, from : States, to : States, read : Nat, expected : Nat,
            key : TransitionKeys \cup {None}]

RequestsChecked ==
    /\ sent \subseteq TransitionRequest /\ (sent # {} => run # None)
    /\ \A q \in sent : Checked(q)

\* When every caller sends the version its service reads, no validation was
\* sent ahead.
NothingForetold ==
    Ahead \subseteq {0} => ~passed.foretold /\ \A q \in sent : q.read = q.expected

WorkflowInv ==
    /\ WorkflowTypeOK /\ RowTellsTheGates /\ StateTellsTheGates /\ RequestsChecked /\ NothingForetold

-----------------------------------------------------------------------------

\* What the table says of the gates: a state behind one is entered through
\* it, or from a state behind it.
LEMMA TableKeepsTheGates ==
    ASSUME NEW s \in States, NEW e, NEW to, <<e, to>> \in transitionFor(s)
    PROVE  /\ e \in Events /\ to \in States
           /\ e = "IMPLEMENTATION_COMPLETED" => to = "verifying"
           /\ e = "QA_VALIDATED" => to = "qa_validated" /\ s \in Implemented
           /\ e = "PRODUCT_APPROVED" => s \in ValidatedStates /\ s = "awaiting_product_approval"
           /\ s \in PastProduct \cup {"awaiting_product_approval"} => to \in PastProduct
           /\ to \in Implemented => s \in Implemented \/ e = "IMPLEMENTATION_COMPLETED"
           /\ to \in ValidatedStates => s \in ValidatedStates \/ e = "QA_VALIDATED"
           /\ to \in Promoted => s \in Promoted \/ e = "PRODUCT_APPROVED"
<1>1. CASE \E t \in workflowTransitions : t[1] = s /\ t[2] = e /\ t[3] = to
    BY <1>1 DEF workflowTransitions, Implemented, ValidatedStates, Promoted, PastProduct, Events, States
<1>2. CASE <<e, to>> \in Stops
    BY <1>2 DEF Stops, Implemented, ValidatedStates, Promoted, PastProduct, Events, States
<1> QED
    BY <1>1, <1>2 DEF transitionFor, workflowTransitions, Stops

\* Nobody created the run yet.
LEMMA WorkflowInitInv == WorkflowInit => WorkflowInv
    BY DEF WorkflowInit, WorkflowInv, WorkflowTypeOK, RowTellsTheGates, StateTellsTheGates,
           RequestsChecked, NothingForetold, Nobody

LEMMA CreateWorkflowKeepsInv ==
    ASSUME WorkflowInv, NEW p \in Actors, CreateWorkflow(p)
    PROVE  WorkflowInv'
<1> USE DEF CreateWorkflow, InsertRun
<1>1. sent = {}
    BY DEF WorkflowInv, RequestsChecked
<1>2. WorkflowTypeOK'
    BY WorkflowsAssumption DEF WorkflowInv, WorkflowTypeOK, RunRow, States, workflowTransitions, WorkflowsAssumption
<1>3. passed = Nobody
    BY DEF WorkflowInv, RowTellsTheGates
<1>4. RowTellsTheGates'
    BY <1>3 DEF RowTellsTheGates, Nobody
<1>5. StateTellsTheGates'
    BY DEF StateTellsTheGates, Implemented, ValidatedStates, Promoted
<1>6. RequestsChecked' /\ NothingForetold'
    BY <1>1 DEF RequestsChecked, NothingForetold, WorkflowInv
<1> QED
    BY <1>2, <1>4, <1>5, <1>6 DEF WorkflowInv

\* A request starts from the row its service read; its version is the caller's.
LEMMA BeginTransitionKeepsInv ==
    ASSUME WorkflowInv, run # None,
           NEW p \in Actors, NEW move \in transitionFor(run.state), NEW key \in TransitionKeys \cup {None},
           NEW ahead \in Ahead, BeginTransition(p, move[1], move[2], key, ahead)
    PROVE  WorkflowInv'
<1> DEFINE q == [by |-> p, event |-> move[1], from |-> run.state, to |-> move[2],
                 read |-> run.version, expected |-> run.version + ahead, key |-> key]
<1> USE DEF WorkflowInv
<1>0. ahead \in Nat
    BY WorkflowsAssumption DEF WorkflowsAssumption
<1>1. sent' = sent \cup {q} /\ run' = run /\ passed' = passed
    BY DEF BeginTransition
<1>2. run \in RunRow /\ run.state \in States /\ run.version \in Nat
    BY DEF WorkflowTypeOK, RunRow
<1>3. move = <<move[1], move[2]>>
    BY DEF transitionFor, Stops
<1>4. move[1] \in Events /\ move[2] \in States
    BY <1>2, <1>3, TableKeepsTheGates
<1>5. q \in TransitionRequest
    BY <1>0, <1>2, <1>4 DEF TransitionRequest
<1>6. /\ <<q.event, q.to>> \in transitionFor(run.state) /\ q.from = run.state /\ q.by = p
      /\ q.read = run.version /\ q.expected = run.version + ahead /\ q.event = move[1]
    BY <1>3
<1>7. Checked(q)
    BY <1>0, <1>2, <1>6 DEF Checked, BeginTransition
<1>8. Checked(q)' /\ \A r \in sent : Checked(r)' = Checked(r)
    BY <1>1, <1>7 DEF Checked, priorActors
<1>9. RequestsChecked'
    BY <1>1, <1>2, <1>5, <1>6, <1>8 DEF RequestsChecked
<1>10. WorkflowTypeOK'
    BY <1>1, <1>4, <1>6 DEF WorkflowTypeOK
<1>11. RowTellsTheGates' /\ StateTellsTheGates'
    BY <1>1 DEF RowTellsTheGates, StateTellsTheGates
<1>12. NothingForetold'
  <2>1. Ahead \subseteq {0} => q.read = q.expected
      BY <1>2, <1>6
  <2> QED
      BY <1>1, <2>1 DEF NothingForetold
<1> QED
    BY <1>9, <1>10, <1>11, <1>12

\* The transaction compares the caller's version and the state that was read:
\* the checks of a request that was not sent ahead hold of the row it updates,
\* and so do those of an approval, whose state is entered once.
LEMMA TransitionWorkflowKeepsInv ==
    ASSUME WorkflowInv, NEW q \in sent, TransitionWorkflow(q)
    PROVE  WorkflowInv'
<1> USE DEF WorkflowInv
<1>0. /\ run # None /\ run \in RunRow /\ run.version \in Nat /\ run.state \in States /\ q \in TransitionRequest
      /\ q.expected \in Nat /\ q.read \in Nat
    BY DEF RequestsChecked, WorkflowTypeOK, RunRow, TransitionRequest
<1>1. CASE UNCHANGED <<run, passed, replay>>
  <2>1. \A r \in sent : Checked(r)' = Checked(r)
      BY <1>1 DEF Checked, priorActors
  <2>2. RequestsChecked'
      BY <1>1, <2>1 DEF RequestsChecked, TransitionWorkflow
  <2>3. WorkflowTypeOK' /\ RowTellsTheGates' /\ StateTellsTheGates' /\ NothingForetold'
      BY <1>1 DEF WorkflowTypeOK, RowTellsTheGates, StateTellsTheGates, NothingForetold, TransitionWorkflow
  <2> QED
      BY <2>2, <2>3
<1>2. CASE /\ ~Seen(q) /\ Current(q) /\ run.version < MaxWorkflowVersion
           /\ run' = Updated(q.by, q) /\ passed' = PassedBy(q) /\ sent' = sent \ {q}
  <2>1. Checked(q) /\ q.by \in Actors /\ run.version = q.expected /\ run.state = q.from
      BY <1>0, <1>2 DEF RequestsChecked, Current, TransitionRequest
  <2>2. <<q.event, q.to>> \in transitionFor(run.state)
      BY <2>1 DEF Checked
  <2>3. /\ q.event \in Events /\ q.to \in States
        /\ q.event = "IMPLEMENTATION_COMPLETED" => q.to = "verifying"
        /\ q.event = "QA_VALIDATED" => q.to = "qa_validated" /\ run.state \in Implemented
        /\ q.event = "PRODUCT_APPROVED" => run.state \in ValidatedStates /\ run.state = "awaiting_product_approval"
        /\ run.state \in PastProduct \cup {"awaiting_product_approval"} => q.to \in PastProduct
        /\ q.to \in Implemented => run.state \in Implemented \/ q.event = "IMPLEMENTATION_COMPLETED"
        /\ q.to \in ValidatedStates => run.state \in ValidatedStates \/ q.event = "QA_VALIDATED"
        /\ q.to \in Promoted => run.state \in Promoted \/ q.event = "PRODUCT_APPROVED"
      BY <1>0, <2>2, TableKeepsTheGates
  <2>4. /\ run' \in RunRow /\ run' # None /\ run'.state = q.to /\ run'.version = run.version + 1
        /\ run'.implementedBy = IF q.event = "IMPLEMENTATION_COMPLETED" THEN q.by ELSE run.implementedBy
        /\ run'.qaValidatedBy = IF q.event = "QA_VALIDATED" THEN q.by ELSE run.qaValidatedBy
    <3>1. PICK n \in Nat, a, v \in Actors \cup {None} :
             /\ n = run.version + 1
             /\ a = IF q.event = "IMPLEMENTATION_COMPLETED" THEN q.by ELSE run.implementedBy
             /\ v = IF q.event = "QA_VALIDATED" THEN q.by ELSE run.qaValidatedBy
        BY <1>0, <2>1 DEF RunRow
    <3>2. PICK ended \in BOOLEAN :
             run' = [run EXCEPT !.state = q.to, !.version = n, !.implementedBy = a, !.qaValidatedBy = v,
                                !.terminal = ended]
        BY <1>2, <3>1, Zenon DEF Updated
    <3>3. run' \in RunRow
        BY <1>0, <2>3, <3>2 DEF RunRow
    <3>4. run'.state = q.to /\ run'.version = n /\ run'.implementedBy = a /\ run'.qaValidatedBy = v
        BY <1>0, <3>2 DEF RunRow
    <3> QED
        BY <3>1, <3>3, <3>4, RunRowAssumption DEF RunRowAssumption
  <2>5. passed \in [implemented : Actors \cup {None}, qa : Actors \cup {None}, product : Actors \cup {None},
                    foretold : BOOLEAN]
      BY DEF WorkflowTypeOK
  <2>6. /\ passed' \in [implemented : Actors \cup {None}, qa : Actors \cup {None}, product : Actors \cup {None},
                         foretold : BOOLEAN]
        /\ passed'.implemented = IF q.event = "IMPLEMENTATION_COMPLETED" THEN q.by ELSE passed.implemented
        /\ passed'.qa = CASE q.event = "IMPLEMENTATION_COMPLETED" -> None
                          [] q.event = "QA_VALIDATED" -> q.by [] OTHER -> passed.qa
        /\ passed'.product = CASE q.event = "IMPLEMENTATION_COMPLETED" -> None
                               [] q.event = "PRODUCT_APPROVED" -> q.by [] OTHER -> passed.product
        /\ passed'.foretold <=> CASE q.event = "IMPLEMENTATION_COMPLETED" -> FALSE
                                  [] q.event = "QA_VALIDATED" -> q.read # q.expected [] OTHER -> passed.foretold
    <3>1. CASE q.event = "IMPLEMENTATION_COMPLETED"
      <4>1. passed' = [implemented |-> q.by, qa |-> None, product |-> None, foretold |-> FALSE]
          BY <1>2, <3>1 DEF PassedBy, Nobody
      <4> QED
          BY <2>1, <3>1, <4>1
    <3>2. CASE q.event = "QA_VALIDATED"
      <4>1. PICK f \in BOOLEAN : f = (q.read # q.expected)
          OBVIOUS
      <4>2. passed' = [passed EXCEPT !.qa = q.by, !.foretold = f]
          BY <1>2, <3>2, <4>1 DEF PassedBy
      <4>3. /\ passed' \in [implemented : Actors \cup {None}, qa : Actors \cup {None}, product : Actors \cup {None},
                             foretold : BOOLEAN]
            /\ passed'.implemented = passed.implemented /\ passed'.qa = q.by
            /\ passed'.product = passed.product /\ passed'.foretold = f
          BY <2>1, <2>5, <4>2
      <4> QED
          BY <3>2, <4>1, <4>3
    <3>3. CASE q.event = "PRODUCT_APPROVED"
      <4>1. passed' = [passed EXCEPT !.product = q.by]
          BY <1>2, <3>3 DEF PassedBy
      <4> QED
          BY <2>1, <2>5, <3>3, <4>1
    <3>4. CASE q.event \notin {"IMPLEMENTATION_COMPLETED", "QA_VALIDATED", "PRODUCT_APPROVED"}
      <4>1. passed' = passed
          BY <1>2, <3>4 DEF PassedBy
      <4> QED
          BY <2>5, <3>4, <4>1
    <3> QED
        BY <3>1, <3>2, <3>3, <3>4
  <2>7. WorkflowTypeOK'
      BY <1>0, <1>2, <2>1, <2>4, <2>5, <2>6, WorkflowsAssumption DEF WorkflowTypeOK, WorkflowsAssumption
  <2>8. RowTellsTheGates'
      BY <1>0, <2>4, <2>5, <2>6 DEF RowTellsTheGates
  <2>9. /\ q.event \in {"QA_VALIDATED", "PRODUCT_APPROVED"} => q.by \in Humans
        /\ q.event = "QA_VALIDATED" /\ "qa" \in DistinctFor /\ q.read = q.expected =>
              q.by \notin {run.implementedBy} \ {None}
        /\ q.event = "PRODUCT_APPROVED" /\ "product_approval" \in DistinctFor =>
              q.by \notin {run.implementedBy, run.qaValidatedBy} \ {None}
    <3>1. q.event = "PRODUCT_APPROVED" => q.read = run.version
        BY <2>1, <2>3 DEF Checked, PastProduct
    <3>2. /\ Gate("QA_VALIDATED") = "qa" /\ Gate("PRODUCT_APPROVED") = "product_approval"
          /\ "qa" # None /\ "product_approval" # None
        BY WorkflowsAssumption DEF Gate, WorkflowsAssumption
    <3>3. /\ priorActors("qa") = {run.implementedBy} \ {None}
          /\ priorActors("product_approval") = {run.implementedBy, run.qaValidatedBy} \ {None}
        BY DEF priorActors
    <3> QED
        BY <2>1, <3>1, <3>2, <3>3 DEF Checked
  <2>10. None \notin Actors /\ Humans \subseteq Actors
      BY WorkflowsAssumption DEF WorkflowsAssumption
  <2>11. StateTellsTheGates'
      BY <1>0, <2>1, <2>3, <2>4, <2>5, <2>6, <2>9, <2>10
      DEF StateTellsTheGates, RowTellsTheGates, Implemented, ValidatedStates, Promoted
  <2>12. ASSUME NEW r \in sent PROVE Checked(r)'
    <3>1. Checked(r) /\ r.read \in Nat /\ r.expected \in Nat
        BY DEF RequestsChecked, TransitionRequest
    <3>2. r.from = "awaiting_product_approval" => run.state \in PastProduct \cup {"awaiting_product_approval"}
        BY <3>1 DEF Checked
    <3>3. r.read <= run'.version /\ r.read # run'.version
        BY <1>0, <2>4, <3>1 DEF Checked
    <3> QED
        BY <2>3, <2>4, <3>1, <3>2, <3>3 DEF Checked
  <2>13. RequestsChecked'
      BY <1>2, <2>4, <2>12 DEF RequestsChecked
  <2>14. NothingForetold'
    <3> SUFFICES ASSUME Ahead \subseteq {0} PROVE ~passed'.foretold /\ \A r \in sent' : r.read = r.expected
        BY DEF NothingForetold
    <3>1. ~passed.foretold /\ \A r \in sent : r.read = r.expected
        BY DEF NothingForetold
    <3> QED
        BY <1>2, <2>5, <2>6, <3>1
  <2> QED
      BY <2>7, <2>8, <2>11, <2>13, <2>14
<1> QED
    BY <1>1, <1>2 DEF TransitionWorkflow

LEMMA WorkflowStepInv == WorkflowInv /\ [WorkflowNext]_workflowVars => WorkflowInv'
<1> SUFFICES ASSUME WorkflowInv, [WorkflowNext]_workflowVars PROVE WorkflowInv'
    OBVIOUS
<1>1. CASE UNCHANGED workflowVars
    BY <1>1 DEF workflowVars, WorkflowInv, WorkflowTypeOK, RowTellsTheGates, StateTellsTheGates,
                RequestsChecked, Checked, NothingForetold, priorActors
<1>2. CASE WorkflowNext
    BY <1>2, CreateWorkflowKeepsInv, BeginTransitionKeepsInv, TransitionWorkflowKeepsInv DEF WorkflowNext
<1> QED
    BY <1>1, <1>2

\* Nothing is promoted past a gate, whoever sends what with which version, the
\* ones the run has yet to reach included, for every set of principals, roles
\* and policy; and the gates that ask for somebody else had somebody else,
\* except for a validation that was sent ahead (TransitionWorkflow).
THEOREM PromotionPassesEveryGate == WorkflowSpec => []PromotedThroughGates
<1>1. WorkflowInv => PromotedThroughGates
    BY DEF WorkflowInv, StateTellsTheGates, PromotedThroughGates, Implemented, ValidatedStates, Promoted
<1> QED
    BY <1>1, WorkflowInitInv, WorkflowStepInv, PTL DEF WorkflowSpec

\* If every caller sends the version its service reads, what is promoted was
\* validated by somebody else than its implementer (TransitionWorkflow).
THEOREM ValidationByAnother ==
    ASSUME Ahead \subseteq {0}
    PROVE  WorkflowSpec => []ValidatedByAnother
<1>1. WorkflowInv => ValidatedByAnother
    BY DEF WorkflowInv, StateTellsTheGates, NothingForetold, ValidatedByAnother, ValidatedStates
<1> QED
    BY <1>1, WorkflowInitInv, WorkflowStepInv, PTL DEF WorkflowSpec

\* The run, the requests and the history keep their types.
THEOREM WorkflowTypes == WorkflowSpec => []WorkflowTypeOK
<1>1. WorkflowInv => WorkflowTypeOK
    BY DEF WorkflowInv
<1> QED
    BY <1>1, WorkflowInitInv, WorkflowStepInv, PTL DEF WorkflowSpec

-----------------------------------------------------------------------------
(* Knowledge governance *)

AskedDecision == [item : Items, decision : {"approve", "reject"}, report : 0 .. MaxValidations,
          key : 1 .. MaxKeys, version : 1 .. MaxVersion]
ReadVersion == [item : Items, version : 1 .. MaxVersion, content : Contents]

\* What is under way has its type, and what is captured has content.
GovernanceShape ==
    /\ GovernanceTypeOK /\ Len(reports) <= MaxValidations
    /\ \A k \in Items : items[k].status # "absent" => items[k].content \in Contents
    /\ validating \in [Validators -> {None} \cup ReadVersion]
    /\ revising \in {None} \cup [item : Items, expected : 0 .. MaxVersion]
    /\ deciding \in [Owners -> {None} \cup AskedDecision]

\* A decision names a report that exists, exactly when it is an approval.
DecisionsName ==
    /\ \A o \in Owners : deciding[o] # None =>
          deciding[o].report <= Len(reports) /\ (deciding[o].decision = "approve" => deciding[o].report # 0)
    /\ \A i \in 1 .. Len(rulings) : rulings[i].decision = "approve" => rulings[i].report \in 1 .. Len(reports)

GovernanceInv ==
    /\ GovernanceShape /\ DecisionsName /\ ApprovedIsCertified /\ NobodyPublishesOwnWork
    /\ DecisionsTellTheStatus

-----------------------------------------------------------------------------

LEMMA GovernanceInitInv == GovernanceInit => GovernanceInv
<1> SUFFICES ASSUME GovernanceInit PROVE GovernanceInv
    OBVIOUS
<1>1. GovernanceShape
    BY GovernanceAssumption
    DEF GovernanceInit, GovernanceShape, GovernanceTypeOK, ItemRow, Absent, GovernanceAssumption
<1>2. DecisionsName /\ ApprovedIsCertified /\ NobodyPublishesOwnWork
    BY DEF GovernanceInit, DecisionsName, ApprovedIsCertified, NobodyPublishesOwnWork, Absent
<1>3. DecisionsTellTheStatus
  <2> SUFFICES ASSUME NEW k \in Items
               PROVE  /\ items[k].status # "rejected" /\ upserts[k] = Cardinality({})
                      /\ RulingsOn(k) = {}
      BY DEF DecisionsTellTheStatus
  <2> QED
      BY FS_EmptySet DEF GovernanceInit, Absent, RulingsOn
<1> QED
    BY <1>1, <1>2, <1>3 DEF GovernanceInv

\* Without a decision, only a step that rejects a candidate or takes that back
\* could make the decisions tell another story than the rows.
LEMMA RulingsUnchanged ==
    ASSUME DecisionsTellTheStatus, UNCHANGED <<rulings, upserts>>,
           \A k \in Items : items'[k].status = "rejected" <=> items[k].status = "rejected"
    PROVE  DecisionsTellTheStatus'
<1>1. rulings' = rulings /\ upserts' = upserts
    OBVIOUS
<1> SUFFICES ASSUME NEW k \in Items
             PROVE  /\ \A i, j \in RulingsOn(k)' : rulings'[i].key = rulings'[j].key => i = j
                    /\ items'[k].status = "rejected" <=> \E i \in RulingsOn(k)' : rulings'[i].decision = "reject"
                    /\ \A i \in RulingsOn(k)' : rulings'[i].decision = "reject" => \A j \in RulingsOn(k)' : j <= i
                    /\ upserts'[k] = Cardinality({i \in RulingsOn(k)' : rulings'[i].decision = "approve"})
    BY DEF DecisionsTellTheStatus
<1>2. RulingsOn(k)' = RulingsOn(k)
    BY <1>1 DEF RulingsOn
<1> QED
    BY <1>1, <1>2 DEF DecisionsTellTheStatus

\* A candidate is captured or revised while it is pending, never once it was
\* decided: a step that changes candidates in no other way keeps the invariant.
CandidatesMove ==
    \A k \in Items : items'[k] # items[k] =>
        /\ items[k].status \in {"absent", "pending"} /\ items'[k].status = "pending"
        /\ items'[k].content \in Contents /\ items'[k].version # 0

LEMMA CandidatesMoveKeepsInv ==
    ASSUME GovernanceInv, CandidatesMove,
           items' \in [Items -> ItemRow],
           revising' \in {None} \cup [item : Items, expected : 0 .. MaxVersion],
           UNCHANGED <<reports, rulings, upserts, validating, deciding>>
    PROVE  GovernanceInv'
<1> USE DEF GovernanceInv, CandidatesMove
<1>1. GovernanceShape'
    BY DEF GovernanceShape, GovernanceTypeOK
<1>2. DecisionsName' /\ NobodyPublishesOwnWork'
    BY DEF DecisionsName, NobodyPublishesOwnWork
<1>3. ApprovedIsCertified'
    BY DEF ApprovedIsCertified
<1>4. \A k \in Items : items'[k].status = "rejected" <=> items[k].status = "rejected"
    OBVIOUS
<1>5. DecisionsTellTheStatus'
    BY <1>4, RulingsUnchanged
<1> QED
    BY <1>1, <1>2, <1>3, <1>5

\* A report is appended, or lapses; what it certified stays as it was.
ReportsKept ==
    /\ Len(reports) <= Len(reports')
    /\ \A n \in 1 .. Len(reports) :
          /\ reports'[n].item = reports[n].item /\ reports'[n].verdict = reports[n].verdict
          /\ reports'[n].version = reports[n].version /\ reports'[n].content = reports[n].content
          /\ reports'[n].by = reports[n].by

LEMMA ReportsKeptKeepsInv ==
    ASSUME GovernanceInv, ReportsKept, reports' \in Seq(ReportRow), Len(reports') <= MaxValidations,
           validating' \in [Validators -> {None} \cup ReadVersion],
           UNCHANGED <<items, rulings, upserts, revising, deciding>>
    PROVE  GovernanceInv'
<1> USE DEF GovernanceInv, ReportsKept
<1>0. Len(reports) \in Nat /\ Len(reports') \in Nat
    BY DEF GovernanceShape, GovernanceTypeOK
<1>1. GovernanceShape'
    BY DEF GovernanceShape, GovernanceTypeOK
<1>2. DecisionsName'
    BY <1>0, GovernanceAssumption DEF DecisionsName, GovernanceShape, AskedDecision, GovernanceAssumption
<1>3. NobodyPublishesOwnWork'
    BY <1>0 DEF DecisionsName, NobodyPublishesOwnWork
<1>4. ApprovedIsCertified'
    BY <1>0 DEF ApprovedIsCertified
<1>5. DecisionsTellTheStatus'
    BY RulingsUnchanged
<1> QED
    BY <1>1, <1>2, <1>3, <1>4, <1>5

\* Capture, review and validation, of any candidate by anybody.
LEMMA CandidateNextKeepsInv ==
    ASSUME GovernanceInv, CandidateNext
    PROVE  GovernanceInv'
<1> USE DEF GovernanceInv
<1>1. ASSUME NEW k \in Items, NEW c \in Contents, Capture(k, c) PROVE GovernanceInv'
  <2>1. CandidatesMove
      BY <1>1 DEF Capture, RecordGeneration, CandidatesMove, GovernanceShape, GovernanceTypeOK
  <2> QED
      BY <1>1, <2>1, CandidatesMoveKeepsInv, GovernanceAssumption
      DEF Capture, RecordGeneration, GovernanceShape, GovernanceTypeOK, ItemRow, GovernanceAssumption
<1>2. ASSUME NEW k \in Items, NEW expected \in 0 .. MaxVersion, BeginReview(k, expected) PROVE GovernanceInv'
  <2>1. CandidatesMove
      BY <1>2 DEF BeginReview, CandidatesMove
  <2> QED
      BY <1>2, <2>1, CandidatesMoveKeepsInv DEF BeginReview, GovernanceShape, GovernanceTypeOK
<1>3. ASSUME NEW c \in Contents, RecordReview(c) PROVE GovernanceInv'
  <2>1. CASE items' = items
      BY <1>3, <2>1, CandidatesMoveKeepsInv DEF RecordReview, CandidatesMove, GovernanceShape, GovernanceTypeOK
  <2>2. CASE Revisable /\ items[revising.item].version < MaxVersion /\ items' # items
    <3> DEFINE k == revising.item
    <3>1. k \in Items /\ items[k].status = "pending" /\ items[k] \in ItemRow /\ items \in [Items -> ItemRow]
        BY <1>3, <2>2 DEF RecordReview, Revisable, GovernanceShape, GovernanceTypeOK
    <3>2. PICK n \in 1 .. MaxVersion : n = items[k].version + 1
        BY <2>2, <3>1, GovernanceAssumption DEF GovernanceAssumption, ItemRow
    <3> DEFINE row == [items[k] EXCEPT !.content = c, !.version = n]
    <3>3. row \in ItemRow /\ row.status = "pending" /\ row.content = c /\ row.version = n
      <4>1. n \in 0 .. MaxVersion
          BY <3>2
      <4>2. row \in ItemRow
          BY <3>1, <4>1 DEF ItemRow
      <4> QED
          BY <3>1, <4>2 DEF ItemRow
    <3>4. items' = [items EXCEPT ![k] = row]
        BY <1>3, <2>2, <3>1, <3>2 DEF RecordReview
    <3> HIDE DEF row
    <3>5. CandidatesMove
        BY <3>1, <3>2, <3>3, <3>4 DEF CandidatesMove
    <3> QED
        BY <1>3, <3>1, <3>3, <3>4, <3>5, CandidatesMoveKeepsInv DEF RecordReview
  <2> QED
      BY <1>3, <2>1, <2>2 DEF RecordReview
<1>4. ASSUME NEW v \in Validators, NEW k \in Items, BeginValidation(v, k) PROVE GovernanceInv'
  <2>1. [item |-> k, version |-> items[k].version, content |-> items[k].content] \in ReadVersion
      BY <1>4, GovernanceAssumption
      DEF BeginValidation, Open, ReadVersion, GovernanceShape, GovernanceTypeOK, ItemRow, GovernanceAssumption
  <2> QED
      BY <1>4, <2>1, ReportsKeptKeepsInv
      DEF BeginValidation, ReportsKept, GovernanceShape, GovernanceTypeOK
<1>5. ASSUME NEW v \in Validators, NEW verdict \in {"pass", "fail"}, RecordKnowledgeValidation(v, verdict)
      PROVE  GovernanceInv'
  <2> DEFINE r == [item |-> validating[v].item, version |-> items[validating[v].item].version,
                   content |-> validating[v].content, verdict |-> verdict, by |-> v, current |-> TRUE]
  <2>1. validating[v] \in ReadVersion
      BY <1>5 DEF RecordKnowledgeValidation, GovernanceShape
  <2>2. r \in ReportRow
      BY <1>5, <2>1 DEF RecordKnowledgeValidation, StillRead, ReadVersion, ReportRow
  <2>3. reports' = Append(reports, r) /\ reports \in Seq(ReportRow)
      BY <1>5 DEF RecordKnowledgeValidation, GovernanceShape, GovernanceTypeOK
  <2> HIDE DEF r
  <2>4. ReportsKept /\ reports' \in Seq(ReportRow) /\ Len(reports') = Len(reports) + 1
      BY <2>2, <2>3 DEF ReportsKept
  <2> QED
      BY <1>5, <2>3, <2>4, ReportsKeptKeepsInv, GovernanceAssumption
      DEF RecordKnowledgeValidation, GovernanceShape, GovernanceAssumption
<1>6. ASSUME NEW v \in Validators, ValidationEnds(v) PROVE GovernanceInv'
    BY <1>6, ReportsKeptKeepsInv
    DEF ValidationEnds, ReportsKept, GovernanceShape, GovernanceTypeOK
<1>7. ASSUME NEW n \in 1 .. Len(reports), Lapse(n) PROVE GovernanceInv'
  <2>1. reports' = [reports EXCEPT ![n].current = FALSE] /\ reports \in Seq(ReportRow)
      BY <1>7 DEF Lapse, GovernanceShape, GovernanceTypeOK
  <2>2. ReportsKept /\ reports' \in Seq(ReportRow) /\ Len(reports') = Len(reports)
    <3> DEFINE r == [reports[n] EXCEPT !.current = FALSE]
    <3>1. /\ r \in ReportRow /\ r.item = reports[n].item /\ r.verdict = reports[n].verdict
          /\ r.version = reports[n].version /\ r.content = reports[n].content /\ r.by = reports[n].by
      <4>1. reports[n] \in ReportRow
          BY <2>1
      <4> QED
          BY <4>1 DEF ReportRow
    <3>2. reports' = [reports EXCEPT ![n] = r]
        BY <2>1
    <3> HIDE DEF r
    <3>3. /\ Len(reports') = Len(reports) /\ reports' \in Seq(ReportRow)
          /\ \A m \in 1 .. Len(reports) : reports'[m] = IF m = n THEN r ELSE reports[m]
      <4>1. reports \in Seq(ReportRow) /\ r \in ReportRow
          BY <2>1, <3>1
      <4>2. /\ [reports EXCEPT ![n] = r] \in Seq(ReportRow) /\ Len([reports EXCEPT ![n] = r]) = Len(reports)
            /\ \A m \in 1 .. Len(reports) : [reports EXCEPT ![n] = r][m] = IF m = n THEN r ELSE reports[m]
          BY ONLY <4>1, n \in 1 .. Len(reports), ExceptSeq
      <4> QED
          BY <3>2, <4>2, Zenon
    <3> QED
        BY <3>1, <3>3 DEF ReportsKept
  <2> QED
      BY <1>7, <2>2, ReportsKeptKeepsInv DEF Lapse, GovernanceShape
<1> QED
    BY <1>1, <1>2, <1>3, <1>4, <1>5, <1>6, <1>7 DEF CandidateNext

\* An owner's request names what the service read; an approval a report.
LEMMA BeginDecisionKeepsInv ==
    ASSUME GovernanceInv, NEW o \in Owners, NEW k \in Items, NEW verdict \in {"approve", "reject"},
           NEW n \in 0 .. Len(reports), NEW key \in 1 .. MaxKeys, BeginDecision(o, k, verdict, n, key)
    PROVE  GovernanceInv'
<1> DEFINE q == [item |-> k, decision |-> verdict, report |-> n, key |-> key,
                 version |-> IF n = 0 THEN items[k].version ELSE reports[n].version]
<1> USE DEF GovernanceInv
<1>1. /\ deciding' = [deciding EXCEPT ![o] = q] /\ items[k].status # "absent" /\ (verdict = "approve" => n # 0)
      /\ UNCHANGED <<items, reports, rulings, upserts, validating, revising>>
    BY DEF BeginDecision
<1>2. q \in AskedDecision
  <2>1. n \in 0 .. MaxValidations
      BY GovernanceAssumption DEF GovernanceShape, GovernanceTypeOK, GovernanceAssumption
  <2>2. CASE n = 0
      BY <1>1, <2>1, <2>2, GovernanceAssumption
      DEF GovernanceShape, GovernanceTypeOK, ItemRow, AskedDecision, GovernanceAssumption
  <2>3. CASE n # 0
    <3>1. reports[n] \in ReportRow
        BY <2>3 DEF GovernanceShape, GovernanceTypeOK
    <3> QED
        BY <2>1, <2>3, <3>1 DEF ReportRow, AskedDecision
  <2> QED
      BY <2>2, <2>3
<1>3. q.report = n /\ q.decision = verdict
    OBVIOUS
<1> HIDE DEF q
<1>4. GovernanceShape'
    BY <1>1, <1>2 DEF GovernanceShape, GovernanceTypeOK
<1>5. DecisionsName'
    BY <1>1, <1>3 DEF DecisionsName, GovernanceShape
<1>6. ApprovedIsCertified' /\ NobodyPublishesOwnWork'
    BY <1>1 DEF ApprovedIsCertified, NobodyPublishesOwnWork
<1>7. DecisionsTellTheStatus'
    BY <1>1, RulingsUnchanged
<1> QED
    BY <1>4, <1>5, <1>6, <1>7

\* One more ruling, under a key that is new for its candidate, on a candidate
\* that was not rejected.
LEMMA StoryContinues ==
    ASSUME DecisionsTellTheStatus, rulings \in Seq(RulingRow), upserts \in [Items -> Nat],
           NEW k \in Items, NEW r \in RulingRow, r.item = k, rulings' = Append(rulings, r),
           \A i \in RulingsOn(k) : rulings[i].key # r.key,
           items[k].status # "rejected", items'[k].status = "rejected" <=> r.decision = "reject",
           \A j \in Items : j # k => items'[j] = items[j],
           upserts' = [upserts EXCEPT ![k] = IF r.decision = "approve" THEN upserts[k] + 1 ELSE upserts[k]]
    PROVE  DecisionsTellTheStatus'
<1>1. /\ Len(rulings') = Len(rulings) + 1 /\ Len(rulings) \in Nat /\ rulings'[Len(rulings) + 1] = r
      /\ \A i \in 1 .. Len(rulings) : rulings'[i] = rulings[i]
    OBVIOUS
<1>2. PICK new \in Nat : new = Len(rulings) + 1
    BY <1>1
<1>3. \A j \in Items : RulingsOn(j)' = IF j = k THEN RulingsOn(j) \cup {new} ELSE RulingsOn(j)
    BY <1>1, <1>2 DEF RulingsOn
<1>4. \A j \in Items : \A i \in RulingsOn(j) : i < new /\ i \in Nat /\ rulings'[i] = rulings[i]
    BY <1>1, <1>2 DEF RulingsOn
<1>5. rulings'[new] = r
    BY <1>1, <1>2
<1>6. ASSUME NEW j \in Items
      PROVE  /\ \A a, b \in RulingsOn(j)' : rulings'[a].key = rulings'[b].key => a = b
             /\ items'[j].status = "rejected" <=> \E a \in RulingsOn(j)' : rulings'[a].decision = "reject"
             /\ \A a \in RulingsOn(j)' : rulings'[a].decision = "reject" => \A b \in RulingsOn(j)' : b <= a
  <2>1. /\ \A a, b \in RulingsOn(j) : rulings[a].key = rulings[b].key => a = b
        /\ items[j].status = "rejected" <=> \E a \in RulingsOn(j) : rulings[a].decision = "reject"
        /\ \A a \in RulingsOn(j) : rulings[a].decision = "reject" => \A b \in RulingsOn(j) : b <= a
      BY DEF DecisionsTellTheStatus
  <2>2. CASE j # k
    <3>1. items'[j] = items[j] /\ RulingsOn(j)' = RulingsOn(j)
        BY <1>3, <2>2
    <3>2. \A i \in RulingsOn(j) : rulings'[i] = rulings[i]
        BY <1>4
    <3> QED
        BY ONLY <2>1, <3>1, <3>2
  <2>3. CASE j = k
    <3>1. RulingsOn(j)' = RulingsOn(j) \cup {new} /\ rulings'[new] = r
        BY <1>3, <1>5, <2>3
    <3>2. \A i \in RulingsOn(j) : rulings'[i] = rulings[i] /\ rulings[i].key # r.key /\ i < new /\ i \in Nat
        BY <1>4, <2>3
    <3>3. items[j].status # "rejected" /\ (items'[j].status = "rejected" <=> r.decision = "reject")
        BY <2>3
    <3> QED
        BY ONLY <2>1, <3>1, <3>2, <3>3, new \in Nat
  <2> QED
      BY <2>2, <2>3
<1>7. ASSUME NEW j \in Items
      PROVE  upserts'[j] = Cardinality({a \in RulingsOn(j)' : rulings'[a].decision = "approve"})
  <2> DEFINE old == {a \in RulingsOn(j) : rulings[a].decision = "approve"}
  <2>1. upserts[j] = Cardinality(old)
      BY DEF DecisionsTellTheStatus
  <2>2. IsFiniteSet(old) /\ new \notin old
    <3>1. RulingsOn(j) \subseteq 1 .. Len(rulings)
        BY DEF RulingsOn
    <3>2. \A i \in RulingsOn(j) : i < new /\ i \in Nat
        BY <1>4
    <3>3. old \in SUBSET (1 .. Len(rulings)) /\ new \notin old
        BY ONLY <3>1, <3>2, new \in Nat
    <3>4. IsFiniteSet(1 .. Len(rulings))
        BY ONLY Len(rulings) \in Nat, <1>1, FS_Interval
    <3> QED
        BY ONLY <3>3, <3>4, FS_Subset
  <2>3. CASE j = k /\ r.decision = "approve"
    <3>1. {a \in RulingsOn(j)' : rulings'[a].decision = "approve"} = old \cup {new}
      <4>1. /\ RulingsOn(j)' = RulingsOn(j) \cup {new} /\ \A i \in RulingsOn(j) : rulings'[i] = rulings[i]
            /\ rulings'[new].decision = "approve"
          BY <1>3, <1>4, <1>5, <2>3
      <4> QED
          BY ONLY <4>1
    <3>2. Cardinality(old \cup {new}) = Cardinality(old) + 1
        BY <2>2, FS_AddElement
    <3> QED
        BY <2>1, <2>3, <3>1, <3>2
  <2>4. CASE ~(j = k /\ r.decision = "approve")
    <3>1. {a \in RulingsOn(j)' : rulings'[a].decision = "approve"} = old
      <4>1. CASE j # k
        <5>1. RulingsOn(j)' = RulingsOn(j) /\ \A i \in RulingsOn(j) : rulings'[i] = rulings[i]
            BY <1>3, <1>4, <4>1
        <5> QED
            BY ONLY <5>1
      <4>2. CASE j = k /\ r.decision # "approve"
        <5>1. /\ RulingsOn(j)' = RulingsOn(j) \cup {new} /\ \A i \in RulingsOn(j) : rulings'[i] = rulings[i]
              /\ rulings'[new].decision # "approve"
            BY <1>3, <1>4, <1>5, <4>2
        <5> QED
            BY ONLY <5>1
      <4> QED
          BY <2>4, <4>1, <4>2
    <3> QED
        BY <2>1, <2>4, <3>1
  <2> QED
      BY <2>3, <2>4
<1> QED
    BY <1>6, <1>7 DEF DecisionsTellTheStatus

\* A decision that is made: the key is new, the candidate is as it was read
\* and was not rejected, and what an approval publishes is certified.
LEMMA DecisionKeepsInv ==
    ASSUME GovernanceInv, NEW o \in Owners, NEW gate \in BOOLEAN, deciding[o] # None,
           Recorded(o) = {}, Decidable(o, gate), NEW q \in AskedDecision, q = deciding[o],
           rulings' = Append(rulings, Ruling(o)),
           NEW row, row = [items[q.item] EXCEPT
                             !.status = IF q.decision = "approve" THEN "approved" ELSE "rejected",
                             !.approval = q.report],
           items' = [items EXCEPT ![q.item] = row],
           upserts' = [upserts EXCEPT ![q.item] = IF q.decision = "approve" THEN upserts[q.item] + 1
                                                  ELSE upserts[q.item]],
           deciding' \in [Owners -> {None} \cup AskedDecision],
           \A x \in Owners : deciding'[x] \in {None, deciding[x]},
           UNCHANGED <<reports, validating, revising>>
    PROVE  GovernanceInv'
<1>1. PICK k \in Items, n \in 0 .. MaxValidations : k = q.item /\ n = q.report
    BY DEF AskedDecision
<1>2. /\ items \in [Items -> ItemRow] /\ reports \in Seq(ReportRow) /\ rulings \in Seq(RulingRow)
      /\ upserts \in [Items -> Nat] /\ q.decision \in {"approve", "reject"}
    BY DEF GovernanceInv, GovernanceShape, GovernanceTypeOK, AskedDecision
<1>3. PICK r \in RulingRow :
         /\ r = Ruling(o) /\ r.item = k /\ r.key = q.key /\ r.report = n /\ r.by = o /\ r.decision = q.decision
    BY <1>1 DEF Ruling, AskedDecision, RulingRow
<1>4. /\ items[k].status \in {"pending", "approved"}
      /\ q.decision = "approve" =>
            Certified(n, k) /\ Separated(o, reports[n].by, "product_approval", k) /\ n \in 1 .. Len(reports)
    BY <1>1 DEF Decidable, Approvable, GovernanceInv, DecisionsName
<1>5. /\ row \in ItemRow /\ row.status = (IF q.decision = "approve" THEN "approved" ELSE "rejected")
      /\ row.approval = n /\ row.content = items[k].content /\ row.version = items[k].version
  <2>1. PICK st \in {"approved", "rejected"} : st = IF q.decision = "approve" THEN "approved" ELSE "rejected"
      OBVIOUS
  <2>2. row = [items[k] EXCEPT !.status = st, !.approval = n] /\ items[k] \in ItemRow
      BY <1>1, <1>2, <2>1
  <2> QED
      BY <2>1, <2>2 DEF ItemRow
<1>6. items' \in [Items -> ItemRow] /\ items'[k] = row /\ \A j \in Items : j # k => items'[j] = items[j]
    BY <1>1, <1>2, <1>5
<1>7. /\ rulings' \in Seq(RulingRow) /\ Len(rulings') = Len(rulings) + 1 /\ Len(rulings) \in Nat
      /\ rulings'[Len(rulings) + 1] = r /\ \A i \in 1 .. Len(rulings) : rulings'[i] = rulings[i]
    BY <1>2, <1>3
<1>8. DecisionsTellTheStatus'
  <2>1. \A i \in RulingsOn(k) : rulings[i].key # r.key
      BY <1>1, <1>3 DEF Recorded, RulingsOn
  <2>2. items'[k].status = "rejected" <=> r.decision = "reject"
    <3>1. items'[k].status = IF r.decision = "approve" THEN "approved" ELSE "rejected"
        BY <1>3, <1>5, <1>6
    <3> QED
        BY ONLY <3>1, <1>2, <1>3
  <2>3. DecisionsTellTheStatus
      BY DEF GovernanceInv
  <2>4. upserts' = [upserts EXCEPT ![k] = IF r.decision = "approve" THEN upserts[k] + 1 ELSE upserts[k]]
      BY <1>1, <1>3
  <2>5. rulings' = Append(rulings, r)
      BY <1>3
  <2> QED
    <3>1. /\ rulings \in Seq(RulingRow) /\ upserts \in [Items -> Nat] /\ r.item = k
          /\ items[k].status # "rejected" /\ \A j \in Items : j # k => items'[j] = items[j]
        BY <1>2, <1>3, <1>4, <1>6
    <3> QED
        BY ONLY <2>1, <2>2, <2>3, <2>4, <2>5, <3>1, k \in Items, r \in RulingRow, StoryContinues
<1>9. GovernanceShape'
  <2>1. upserts' \in [Items -> Nat]
      BY <1>1, <1>2
  <2>2. GovernanceTypeOK'
      BY <1>4, <1>5, <1>6, <1>7, <2>1, <1>2 DEF GovernanceInv, GovernanceShape, GovernanceTypeOK
  <2> QED
      BY <1>4, <1>5, <1>6, <2>2 DEF GovernanceInv, GovernanceShape
<1>10. DecisionsName'
  <2>1. \A i \in 1 .. Len(rulings') : rulings'[i].decision = "approve" => rulings'[i].report \in 1 .. Len(reports)
      BY <1>3, <1>4, <1>7 DEF GovernanceInv, DecisionsName
  <2> QED
      BY <2>1 DEF GovernanceInv, DecisionsName
<1>11. ApprovedIsCertified'
  <2> SUFFICES ASSUME NEW j \in Items, items'[j].status = "approved"
               PROVE  /\ items'[j].approval \in 1 .. Len(reports)
                      /\ reports[items'[j].approval].item = j /\ reports[items'[j].approval].verdict = "pass"
                      /\ reports[items'[j].approval].version = items'[j].version
                      /\ reports[items'[j].approval].content = items'[j].content
      BY DEF ApprovedIsCertified
  <2>1. CASE j = k
    <3>1. q.decision = "approve" /\ items'[j] = row
      <4>1. items'[j] = row
          BY <1>6, <2>1
      <4> QED
          BY ONLY <1>5, <4>1, items'[j].status = "approved"
    <3>2. Certified(n, k) /\ n \in 1 .. Len(reports)
        BY <1>4, <3>1
    <3> QED
        BY ONLY <1>5, <2>1, <3>1, <3>2 DEF Certified
  <2>2. CASE j # k
    <3>1. items'[j] = items[j]
        BY <1>6, <2>2
    <3>2. ApprovedIsCertified
        BY DEF GovernanceInv
    <3> QED
        BY ONLY <3>1, <3>2, items'[j].status = "approved", j \in Items DEF ApprovedIsCertified
  <2> QED
      BY <2>1, <2>2
<1>12. NobodyPublishesOwnWork'
  <2> SUFFICES ASSUME "product_approval" \in DistinctGates, NEW i \in 1 .. Len(rulings'),
                      rulings'[i].decision = "approve"
               PROVE  rulings'[i].by # reports[rulings'[i].report].by /\ rulings'[i].by # Implementer[rulings'[i].item]
      BY DEF NobodyPublishesOwnWork
  <2>1. CASE i = Len(rulings) + 1
      BY <1>3, <1>4, <1>7, <2>1 DEF Separated
  <2>2. CASE i \in 1 .. Len(rulings)
      BY <1>7, <2>2 DEF GovernanceInv, NobodyPublishesOwnWork
  <2> QED
      BY <1>7, <2>1, <2>2
<1> QED
    BY <1>8, <1>9, <1>10, <1>11, <1>12 DEF GovernanceInv

\* The answer comes or is lost; what was decided before, or is refused, has no
\* effect.
LEMMA SendDecisionKeepsInv ==
    ASSUME GovernanceInv, NEW o \in Owners, NEW gate \in BOOLEAN, NEW answered \in BOOLEAN,
           SendDecision(o, gate, answered)
    PROVE  GovernanceInv'
<1> USE DEF GovernanceInv
<1>1. /\ deciding' \in [Owners -> {None} \cup AskedDecision]
      /\ \A x \in Owners : deciding'[x] \in {None, deciding[x]}
    BY DEF SendDecision, GovernanceShape
<1>2. CASE UNCHANGED <<items, rulings, upserts>>
  <2>1. GovernanceShape' /\ DecisionsName'
      BY <1>1, <1>2 DEF SendDecision, GovernanceShape, GovernanceTypeOK, DecisionsName
  <2>2. ApprovedIsCertified' /\ NobodyPublishesOwnWork'
      BY <1>2 DEF SendDecision, ApprovedIsCertified, NobodyPublishesOwnWork
  <2>3. DecisionsTellTheStatus'
      BY <1>2, RulingsUnchanged
  <2> QED
      BY <2>1, <2>2, <2>3
<1>3. CASE Recorded(o) = {} /\ Decidable(o, gate)
  <2>1. PICK q \in AskedDecision : q = deciding[o]
      BY DEF SendDecision, GovernanceShape
  <2>2. q.item \in Items /\ items \in [Items -> ItemRow] /\ upserts \in [Items -> Nat]
      BY DEF GovernanceShape, GovernanceTypeOK, AskedDecision
  <2>3. items' = [items EXCEPT ![q.item] =
                    [items[q.item] EXCEPT !.status = IF q.decision = "approve" THEN "approved" ELSE "rejected",
                                          !.approval = q.report]]
      BY <1>3, <2>1, <2>2 DEF SendDecision, DecideKnowledge
  <2>4. upserts' = [upserts EXCEPT ![q.item] = IF q.decision = "approve" THEN upserts[q.item] + 1
                                                ELSE upserts[q.item]]
      BY <1>3, <2>1, <2>2 DEF SendDecision, DecideKnowledge
  <2> QED
    <3>1. /\ deciding[o] # None /\ Recorded(o) = {} /\ Decidable(o, gate)
          /\ rulings' = Append(rulings, Ruling(o)) /\ UNCHANGED <<reports, validating, revising>>
        BY <1>3 DEF SendDecision, DecideKnowledge
    <3>2. GovernanceInv
        OBVIOUS
    <3> HIDE DEF GovernanceInv
    <3> QED
        BY ONLY <1>1, <2>1, <2>3, <2>4, <3>1, <3>2, o \in Owners, gate \in BOOLEAN, q \in AskedDecision, DecisionKeepsInv
<1> QED
    BY <1>2, <1>3 DEF SendDecision, DecideKnowledge

LEMMA GovernanceStepInv == GovernanceInv /\ [GovernanceNext]_governanceVars => GovernanceInv'
<1> SUFFICES ASSUME GovernanceInv, [GovernanceNext]_governanceVars PROVE GovernanceInv'
    OBVIOUS
<1>1. CASE UNCHANGED governanceVars
  <2>1. ReportsKept
      BY <1>1 DEF governanceVars, ReportsKept, GovernanceInv, GovernanceShape, GovernanceTypeOK
  <2> QED
      BY <1>1, <2>1, ReportsKeptKeepsInv DEF governanceVars, GovernanceInv, GovernanceShape, GovernanceTypeOK
<1>2. CASE GovernanceNext
    BY <1>2, CandidateNextKeepsInv, BeginDecisionKeepsInv, SendDecisionKeepsInv DEF GovernanceNext
<1> QED
    BY <1>1, <1>2

\* What is published was certified as it stands, and not by its publisher
\* (RecordKnowledgeValidation, DecideKnowledge).
THEOREM Publication == GovernanceSpec => []PublicationIsSound
<1>1. GovernanceInv => PublicationIsSound
    BY DEF GovernanceInv, PublicationIsSound
<1> QED
    BY <1>1, GovernanceInitInv, GovernanceStepInv, PTL DEF GovernanceSpec

\* The recorded decisions, the status of the candidates and the indexing jobs
\* tell the same story, however often a request is sent (DecideKnowledge).
THEOREM Decisions == GovernanceSpec => []DecisionsTellTheStatus
<1>1. GovernanceInv => DecisionsTellTheStatus
    BY DEF GovernanceInv
<1> QED
    BY <1>1, GovernanceInitInv, GovernanceStepInv, PTL DEF GovernanceSpec

\* Candidates, reports and rulings keep the shapes of their rows, and a
\* captured candidate has a version of its own (Capture).
THEOREM GovernanceTypes == GovernanceSpec => []GovernanceTypeOK
<1>1. GovernanceInv => GovernanceTypeOK
    BY DEF GovernanceInv, GovernanceShape
<1> QED
    BY <1>1, GovernanceInitInv, GovernanceStepInv, PTL DEF GovernanceSpec
=============================================================================

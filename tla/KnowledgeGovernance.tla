------------------------ MODULE KnowledgeGovernance -------------------------
(***************************************************************************)
(* Capture, revision, validation and the human decision on knowledge       *)
(* candidates (internal/service/service.go, internal/service/validation.go,*)
(* internal/postgres/repository.go, internal/postgres/validation.go).      *)
(*                                                                         *)
(* Validators, reviewers and product owners read a candidate through the   *)
(* service, work outside of any transaction, and come back with what they  *)
(* read; the transaction locks the row and compares.  A caller that loses  *)
(* the answer of a decision sends the same request again.                  *)
(***************************************************************************)
EXTENDS Common, Sequences, FiniteSets

CONSTANTS
    Items,          \* knowledge candidates
    Contents,       \* content bytes; a digest is the content it is of
    Validators,     \* humans with the qa role, or validation executors
    Owners,         \* humans with the product_owner role
    Implementer,    \* [Items -> the actor of the workflow's implementation, or None]
    DistinctGates,  \* the governance policy's distinct_principal_gates
    MaxVersion,     \* bound: revisions of a candidate
    MaxValidations, \* bound: recorded reports
    MaxKeys         \* bound: idempotency keys used for decisions

ASSUME GovernanceAssumption ==
    /\ Implementer \in [Items -> Validators \cup Owners \cup {None}]
    /\ DistinctGates \subseteq {"qa", "product_approval"}
    /\ MaxVersion \in Nat \ {0} /\ MaxValidations \in Nat /\ MaxKeys \in Nat
    /\ None \notin Validators \cup Owners

VARIABLES
    items,       \* knowledge_items
    reports,     \* sequence of knowledge_validations joined with knowledge_sources
    rulings,     \* sequence of knowledge_decisions
    upserts,     \* [Items -> knowledge.upsert jobs enqueued]
    validating,  \* [Validators -> what a validation in progress read]
    revising,    \* the version a revision in progress is for, or None
    deciding     \* [Owners -> a decision request being sent, or None]

governanceVars == <<items, reports, rulings, upserts, validating, revising, deciding>>

Absent == [status |-> "absent", version |-> 0, content |-> None, approval |-> 0]

GovernanceInit ==
    /\ items = [k \in Items |-> Absent]
    /\ reports = << >> /\ rulings = << >>
    /\ upserts = [k \in Items |-> 0]
    /\ validating = [v \in Validators |-> None]
    /\ revising = None
    /\ deciding = [o \in Owners |-> None]

-----------------------------------------------------------------------------
(* Capture and review *)

\* A new generation becomes a pending candidate; the same generation with the
\* same artifacts returns the candidate it already has.
RecordGeneration(k, c) ==
    items' = [items EXCEPT ![k] = [status |-> "pending", version |-> 1, content |-> c, approval |-> 0]]

Capture(k, c) ==
    /\ items[k].status = "absent"
    /\ RecordGeneration(k, c)
    /\ UNCHANGED <<reports, rulings, upserts, validating, revising, deciding>>

\* A reviewer reads the candidate; expected_version 0 asks for no comparison.
BeginReview(k, expected) ==
    /\ revising = None /\ items[k].status # "absent"
    /\ expected \in {0, items[k].version}
    /\ revising' = [item |-> k, expected |-> expected]
    /\ UNCHANGED <<items, reports, rulings, upserts, validating, deciding>>

\* WHERE status='pending' AND ($5=0 OR version=$5).
Revisable ==
    /\ items[revising.item].status = "pending"
    /\ revising.expected \in {0, items[revising.item].version}

\* A revise verdict replaces the content; without the row the whole
\* transaction, the review record included, is rolled back.
RecordReview(c) ==
    /\ revising # None
    /\ IF Revisable /\ items[revising.item].version < MaxVersion
          THEN items' = [items EXCEPT ![revising.item].content = c,
                                      ![revising.item].version = @ + 1]
          ELSE items' = items
    /\ revising' = None
    /\ UNCHANGED <<reports, rulings, upserts, validating, deciding>>

-----------------------------------------------------------------------------
(* Validation *)

Open(k) == items[k].status \in {"pending", "approved"}

\* validationCandidateFor: the version and content the checks will be about.
BeginValidation(v, k) ==
    /\ validating[v] = None /\ Open(k) /\ Len(reports) < MaxValidations
    /\ validating' = [validating EXCEPT ![v] =
          [item |-> k, version |-> items[k].version, content |-> items[k].content]]
    /\ UNCHANGED <<items, reports, rulings, upserts, revising, deciding>>

\* Under the row lock: version, content digest and status as they were read.
StillRead(v) ==
    LET k == validating[v].item
    IN  /\ items[k].version = validating[v].version
        /\ items[k].content = validating[v].content
        /\ Open(k)

\* requireKnowledgeRoleSeparation.
Separated(actor, validator, gate, k) ==
    gate \in DistinctGates => actor # validator /\ actor # Implementer[k]

RecordKnowledgeValidation(v, verdict) ==
    LET k == validating[v].item
    IN  /\ validating[v] # None /\ Len(reports) < MaxValidations
        /\ StillRead(v) /\ Separated(v, None, "qa", k)
        /\ reports' = Append(reports,
              [item |-> k, version |-> items[k].version, content |-> validating[v].content,
               verdict |-> verdict, by |-> v, current |-> TRUE])
        /\ validating' = [validating EXCEPT ![v] = None]
        /\ UNCHANGED <<items, rulings, upserts, revising, deciding>>

\* A policy failure, a refused patch, a source that moved, a conflict or a
\* crash of the verifier: nothing is recorded.
ValidationEnds(v) ==
    /\ validating[v] # None
    /\ validating' = [validating EXCEPT ![v] = None]
    /\ UNCHANGED <<items, reports, rulings, upserts, revising, deciding>>

\* valid_until or a maximum age of the quality policy passes, or a source
\* check withdraws knowledge_sources.valid.
Lapse(n) ==
    /\ reports[n].current
    /\ reports' = [reports EXCEPT ![n].current = FALSE]
    /\ UNCHANGED <<items, rulings, upserts, validating, revising, deciding>>

-----------------------------------------------------------------------------
(* The decision *)

\* DecideKnowledge of the service: an approval names a report of the expected
\* version, and its evidence is readable.
BeginDecision(o, k, verdict, n, key) ==
    /\ deciding[o] = None /\ items[k].status # "absent"
    /\ verdict = "approve" => n # 0 /\ reports[n].item = k
    /\ verdict = "reject" => n = 0
    /\ deciding' = [deciding EXCEPT ![o] =
          [item |-> k, decision |-> verdict, report |-> n, key |-> key,
           version |-> IF n = 0 THEN items[k].version ELSE reports[n].version]]
    /\ UNCHANGED <<items, reports, rulings, upserts, validating, revising>>

Recorded(o) ==
    {i \in 1 .. Len(rulings) : rulings[i].item = deciding[o].item /\ rulings[i].key = deciding[o].key}

\* Mutant: approval compares the version and not the content and the verdict.
Certified_VersionOnly(n, k) == reports[n].item = k /\ reports[n].version = items[k].version

\* The report certifies what the row holds now, and is still current.
Certified(n, k) ==
    /\ reports[n].item = k /\ reports[n].version = items[k].version
    /\ reports[n].content = items[k].content
    /\ reports[n].verdict = "pass" /\ reports[n].current

\* gate: the workflow of the item, when it has one, is ready for promotion.
Approvable(o, gate) ==
    LET k == deciding[o].item
        n == deciding[o].report
    IN  Certified(n, k) /\ Separated(o, reports[n].by, "product_approval", k) /\ gate

Decidable(o, gate) ==
    LET k == deciding[o].item
    IN  /\ \/ items[k].status = "pending"
           \/ items[k].status = "approved" /\ deciding[o].decision = "approve"
        /\ items[k].version = deciding[o].version
        /\ deciding[o].decision = "approve" => Approvable(o, gate)

Ruling(o) ==
    [item |-> deciding[o].item, decision |-> deciding[o].decision, report |-> deciding[o].report,
     key |-> deciding[o].key, version |-> deciding[o].version, by |-> o]

\* Mutant: a repeated request is decided once more.
DecideKnowledge_Repeats(o, gate) ==
    IF Decidable(o, gate)
       THEN LET k == deciding[o].item
                approve == deciding[o].decision = "approve"
            IN  /\ rulings' = Append(rulings, Ruling(o))
                /\ items' = [items EXCEPT ![k].status = IF approve THEN "approved" ELSE "rejected",
                                          ![k].approval = deciding[o].report]
                /\ upserts' = [upserts EXCEPT ![k] = @ + (IF approve THEN 1 ELSE 0)]
       ELSE UNCHANGED <<items, rulings, upserts>>

\* DecideKnowledge of the repository: a key that was used answers from the
\* record or is refused; otherwise decision, status, indexing job and review
\* record are written together.
DecideKnowledge(o, gate) ==
    IF Recorded(o) = {} /\ Decidable(o, gate)
       THEN LET k == deciding[o].item
                approve == deciding[o].decision = "approve"
            IN  /\ rulings' = Append(rulings, Ruling(o))
                /\ items' = [items EXCEPT ![k].status = IF approve THEN "approved" ELSE "rejected",
                                          ![k].approval = deciding[o].report]
                /\ upserts' = [upserts EXCEPT ![k] = @ + (IF approve THEN 1 ELSE 0)]
       ELSE UNCHANGED <<items, rulings, upserts>>

\* The answer reaches the owner, or is lost and the request is sent again.
SendDecision(o, gate, answered) ==
    /\ deciding[o] # None
    /\ DecideKnowledge(o, gate)
    /\ deciding' = IF answered THEN [deciding EXCEPT ![o] = None] ELSE deciding
    /\ UNCHANGED <<reports, validating, revising>>

-----------------------------------------------------------------------------

\* Steps of everyone but the owners.
CandidateNext ==
    \/ \E k \in Items : \/ \E c \in Contents : Capture(k, c)
                        \/ \E expected \in 0 .. MaxVersion : BeginReview(k, expected)
    \/ \E c \in Contents : RecordReview(c)
    \/ \E v \in Validators : \/ \E k \in Items : BeginValidation(v, k)
                             \/ \E verdict \in {"pass", "fail"} : RecordKnowledgeValidation(v, verdict)
                             \/ ValidationEnds(v)
    \/ \E n \in 1 .. Len(reports) : Lapse(n)

GovernanceNext ==
    \/ CandidateNext
    \/ \E o \in Owners :
          \/ \E k \in Items, verdict \in {"approve", "reject"}, n \in 0 .. Len(reports), key \in 1 .. MaxKeys :
                BeginDecision(o, k, verdict, n, key)
          \/ \E gate, answered \in BOOLEAN : SendDecision(o, gate, answered)

GovernanceSpec == GovernanceInit /\ [][GovernanceNext]_governanceVars

-----------------------------------------------------------------------------
(* Properties *)

ItemRow == [status : {"absent", "pending", "approved", "rejected"}, version : 0 .. MaxVersion,
            content : Contents \cup {None}, approval : 0 .. MaxValidations]
ReportRow == [item : Items, version : 1 .. MaxVersion, content : Contents,
              verdict : {"pass", "fail"}, by : Validators, current : BOOLEAN]
RulingRow == [item : Items, decision : {"approve", "reject"}, report : 0 .. MaxValidations,
              key : 1 .. MaxKeys, version : 1 .. MaxVersion, by : Owners]

\* Rows and requests have the shapes of their Go types.
GovernanceTypeOK ==
    /\ items \in [Items -> ItemRow] /\ reports \in Seq(ReportRow) /\ rulings \in Seq(RulingRow)
    /\ \A k \in Items : items[k].status = "absent" <=> items[k].version = 0
    /\ upserts \in [Items -> Nat]

\* Approved content is exactly the content a passing report of the same
\* candidate and version certified, although a local revision, a second
\* validation and the decision all started from their own earlier reads
\* (RecordReview, RecordKnowledgeValidation, DecideKnowledge).
ApprovedIsCertified ==
    \A k \in Items : items[k].status = "approved" =>
        LET n == items[k].approval
        IN  /\ n \in 1 .. Len(reports)
            /\ reports[n].item = k /\ reports[n].verdict = "pass"
            /\ reports[n].version = items[k].version /\ reports[n].content = items[k].content

RulingsOn(k) == {i \in 1 .. Len(rulings) : rulings[i].item = k}

\* "Repeat requests return the original decision": a request that is sent
\* again decides nothing new, a rejection is the last word on a candidate, and
\* every approval enqueued exactly one indexing job (DecideKnowledge).
DecisionsTellTheStatus ==
    \A k \in Items :
        /\ \A i, j \in RulingsOn(k) : rulings[i].key = rulings[j].key => i = j
        /\ items[k].status = "rejected" <=> \E i \in RulingsOn(k) : rulings[i].decision = "reject"
        /\ \A i \in RulingsOn(k) : rulings[i].decision = "reject" => \A j \in RulingsOn(k) : j <= i
        /\ upserts[k] = Cardinality({i \in RulingsOn(k) : rulings[i].decision = "approve"})

\* Where the policy asks for distinct principals, nobody publishes what they
\* validated or implemented (requireKnowledgeRoleSeparation).
NobodyPublishesOwnWork ==
    "product_approval" \in DistinctGates =>
        \A i \in 1 .. Len(rulings) : rulings[i].decision = "approve" =>
            /\ rulings[i].by # reports[rulings[i].report].by
            /\ rulings[i].by # Implementer[rulings[i].item]

\* What is published was certified as it stands and by somebody else than the
\* one who published it, wherever the policy asks for that (DecideKnowledge).
PublicationIsSound == ApprovedIsCertified /\ NobodyPublishesOwnWork
=============================================================================

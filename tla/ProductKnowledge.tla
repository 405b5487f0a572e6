-------------------------- MODULE ProductKnowledge --------------------------
(***************************************************************************)
(* Product records, source observations and the evaluations that compare   *)
(* them (internal/service/product.go, source.go, intent.go and             *)
(* product_evaluation.go, and the files of the same names in               *)
(* internal/postgres and internal/domain).                                 *)
(*                                                                         *)
(* A proposal is captured under the version its caller last read, attested *)
(* by QA, and accepted once; accepting moves the head of its key.  Only    *)
(* the head is context.  An observation is retained with the receipt of    *)
(* its idempotency key.  An evaluation reads its intent, what the intent   *)
(* binds and two observations one after another, while the heads, the      *)
(* clock and the reviewed source contracts move.                           *)
(*                                                                         *)
(* A digest covers the record's identity and version, so a record is named *)
(* by its key and version; an observation by its source and request key.   *)
(***************************************************************************)
EXTENDS Common, Sequences, FiniteSets

CONSTANTS
    SourceKeys,         \* idempotency keys callers use
    Envelopes,          \* ["left", "right" -> what the source may answer]
    ProductClients,     \* callers with a request under way
    Lifetimes,          \* lifetimes a proposal may be given; Never is one
    MaxProductVersion,  \* ["brs", "intent" -> bound: versions captured]
    MaxSchema,          \* ["left", "right" -> bound: schemas of its contract]
    MaxProductTime      \* bound of the clock

Never == MaxProductTime + 1
Proposals == {"brs", "intent"}
Sources == {"left", "right"}

ASSUME ProductAssumption ==
    /\ MaxProductVersion \in [Proposals -> Nat] /\ MaxSchema \in [Sources -> Nat] /\ MaxProductTime \in Nat
    /\ Lifetimes \subseteq 1..Never

\* An answer is a list of rows, each a join key and a value.
RowsOf(envelope) == {envelope.rows[i] : i \in DOMAIN envelope.rows}

ASSUME EnvelopesAssumption ==
    \A s \in Sources : \A envelope \in Envelopes[s] :
        /\ envelope.rows \in Seq(RowsOf(envelope)) /\ envelope.complete \in BOOLEAN
        /\ \A row \in RowsOf(envelope) : row = [key |-> row.key, value |-> row.value]

VARIABLES
    proposals,   \* [Proposals -> Seq(product_records rows with their decision)]
    head,        \* [Proposals -> version product_record_heads names, or 0]
    attested,    \* records with a product_record_validations row that still holds
    receipts,    \* [Sources \X SourceKeys -> product_source_receipts row and its record, or None]
    contract,    \* [Sources -> schema version of the reviewed descriptor]
    evaluations, \* product_evaluations
    pcall,       \* [ProductClients -> request under way, or None]
    pclock,
    torn         \* history: an evaluation was stored or handed out over records that could
                 \* not be read together at any moment of that request

productVars == <<proposals, head, attested, receipts, contract, evaluations, pcall, pclock, torn>>

ProductInit ==
    /\ proposals = [k \in Proposals |-> <<>>] /\ head = [k \in Proposals |-> 0]
    /\ attested = {} /\ evaluations = {}
    /\ receipts = [o \in Sources \X SourceKeys |-> None]
    /\ contract = [s \in Sources |-> 1]
    /\ pcall = [c \in ProductClients |-> None] /\ torn = FALSE
    /\ pclock = 0

Captured == UNION {{<<k, v>> : v \in DOMAIN proposals[k]} : k \in Proposals}
Row(id) == proposals[id[1]][id[2]]
Observed == {o \in DOMAIN receipts : receipts[o] # None /\ receipts[o].status # "failed"}

\* product_record_eligible: the head of its key, unexpired, and either an
\* observation or accepted under an attestation that held at the decision.
ProductEligible(id) ==
    \/ /\ id \in Captured
       /\ head[id[1]] = id[2] /\ Row(id).expires > pclock
       /\ Row(id).decision # None /\ Row(id).decision.verdict = "accept"
    \/ id \in Observed /\ receipts[id].expires > pclock

\* authorizeRetainedObservation: the source is still registered, and what is
\* retained of it is still what its contract lets this caller see.
authorizeRetainedObservation(id) == receipts[id].schema = contract[id[1]]

\* GetProductRecord of the service: an observation is authorized again.
Readable(id) == ProductEligible(id) /\ (id \in Observed => authorizeRetainedObservation(id))

-----------------------------------------------------------------------------
(* Proposals *)

Free(c) == pcall[c] = None
PutCall(c, r) == pcall' = [pcall EXCEPT ![c] = r]

\* What a caller may propose: an intent names the requirements it binds and may
\* leave questions open.
Drafts(k) ==
    [binds : IF k = "intent" THEN {id \in Captured : id[1] = "brs"} ELSE {None},
     open : IF k = "intent" THEN BOOLEAN ELSE {FALSE},
     expires : {IF life = Never THEN Never ELSE pclock + life : life \in Lifetimes}, decision : {None}]

\* PutProductRecord: the next version of a key, under the key's lock and the
\* version the caller expects; a caller that read an older one is refused.
PutProductRecord(k) ==
    /\ Len(proposals[k]) < MaxProductVersion[k]
    /\ \E draft \in Drafts(k) : proposals' = [proposals EXCEPT ![k] = Append(@, draft)]
    /\ UNCHANGED <<head, attested, receipts, contract, evaluations, pcall, pclock, torn>>

\* The repository records an attestation of a version that is still pending
\* under the row lock.
Attest(id) == Row(id).decision = None /\ attested' = attested \cup {id}

\* ValidateProductRecord: a QA attestation of one version the service has read
\* pending.  It holds for a day: until the clock of the model moves.
ValidateProductRecord(id) ==
    /\ id \in Captured /\ Attest(id)
    /\ UNCHANGED <<proposals, head, receipts, contract, evaluations, pcall, pclock, torn>>

\* The attestation an acceptance names is of this record and still holds.
Vouches(v, id) == v \in attested /\ v = id

\* Mutant: a delayed decision is taken whatever the head.
Newer_Always(id) == TRUE

\* "A delayed decision cannot roll the active context back over a newer accepted version."
Newer(id) == head[id[1]] < id[2]

advanceProductHead(id) == [head EXCEPT ![id[1]] = id[2]]

\* DecideProductRecord: once per record, in one transaction with the head.  A
\* repeated decision changes nothing.
DecideProductRecord(id, verdict, v) ==
    /\ id \in Captured /\ Row(id).decision = None
    /\ verdict = "accept" => Vouches(v, id) /\ Newer(id)
    /\ proposals' = [proposals EXCEPT ![id[1]][id[2]].decision = [verdict |-> verdict, vouched |-> v]]
    /\ head' = IF verdict = "accept" THEN advanceProductHead(id) ELSE head
    /\ UNCHANGED <<attested, receipts, contract, evaluations, pcall, pclock, torn>>

-----------------------------------------------------------------------------
(* Source observations *)

\* RecordSourceObservation: the receipt, the observation and its head in one
\* transaction; the key's unique index refuses what a second collection brings.
RecordSourceObservation(o, status, envelope) ==
    /\ receipts[o] = None
    /\ receipts' = [receipts EXCEPT ![o] =
           [status |-> status, schema |-> contract[o[1]], content |-> envelope, expires |-> pclock + 1]]

\* QueryProductSource: a known key answers its receipt, a failed one too.  Else
\* the source is asked under the contract of now and answers, in full or in
\* part, or the request or its validation fails and only that is recorded.
QueryProductSource(o) ==
    /\ \/ RecordSourceObservation(o, "failed", None)
       \/ \E envelope \in Envelopes[o[1]] :
             RecordSourceObservation(o, IF envelope.complete THEN "complete" ELSE "partial", envelope)
    /\ UNCHANGED <<proposals, head, attested, contract, evaluations, pcall, pclock, torn>>

-----------------------------------------------------------------------------
(* Evaluations *)

Keys(envelope) == {envelope.rows[i].key : i \in DOMAIN envelope.rows}
\* Rows whose join key (and, on the right, value) is missing, or repeated.
Malformed(envelope) ==
    \/ \E i \in DOMAIN envelope.rows : None \in {envelope.rows[i].key, envelope.rows[i].value}
    \/ Cardinality(Keys(envelope)) # Len(envelope.rows)

ValueOf(envelope, k) == envelope.rows[CHOOSE i \in DOMAIN envelope.rows : envelope.rows[i].key = k].value

\* Mutant: a row missing on the right is a violation whatever it covers.
CompareObservations_AnyAbsence(left, right) ==
    IF Malformed(left) \/ Malformed(right) \/ left.window # right.window THEN "inconclusive"
    ELSE IF \E k \in Keys(left) : k \notin Keys(right) \/ ValueOf(right, k) # "ok" THEN "violated"
    ELSE IF Keys(left) = {} \/ ~left.complete \/ ~right.complete THEN "inconclusive" ELSE "satisfied"

\* CompareObservations; the rule expects the value "ok" of the right-hand rows.
CompareObservations(left, right) ==
    LET missing == Keys(left) \ Keys(right)
        mismatched == {k \in Keys(left) \cap Keys(right) : ValueOf(right, k) # "ok"}
    IN IF Malformed(left) \/ Malformed(right) \/ left.window # right.window THEN "inconclusive"
       ELSE IF mismatched # {} \/ (missing # {} /\ right.complete) THEN "violated"
       ELSE IF Keys(left) = {} \/ ~left.complete \/ ~right.complete THEN "inconclusive"
       ELSE "satisfied"

\* IntentContext reads the intent, then each record it binds.
IntentReads(intent) == <<intent, Row(intent).binds>>

\* What an evaluation rests on can be read, all of it, at this moment.
Together(intent, l, r) == \A id \in {intent, l, r, Row(intent).binds} : Readable(id)

\* A request that reads `ids` one after another, each on its own.
Reading(c, op, intent, l, r, ids) ==
    PutCall(c, [op |-> op, intent |-> intent, left |-> l, right |-> r, todo |-> ids,
                together |-> Together(intent, l, r)])

\* CompareProductObservations begins: the intent is prepared, then the two
\* observations and the intent are read.  Open questions are blockers.
BeginEvaluate(c, intent, l, r) ==
    /\ Free(c) /\ intent \in Captured /\ intent[1] = "intent" /\ ~Row(intent).open
    /\ Reading(c, "evaluate", intent, l, r, IntentReads(intent) \o <<l, r, intent>>)
    /\ UNCHANGED <<proposals, head, attested, receipts, contract, evaluations, pclock, torn>>

\* GetProductEvaluation reads the three bindings again, then prepares the intent.
RereadBindings(e) == <<e.intent, e.left, e.right>> \o IntentReads(e.intent)

BeginRead(c, e) ==
    /\ Free(c) /\ e \in evaluations
    /\ Reading(c, "read", e.intent, e.left, e.right, RereadBindings(e))
    /\ UNCHANGED <<proposals, head, attested, receipts, contract, evaluations, pclock, torn>>

Busy(c, ops) == pcall[c] # None /\ pcall[c].op \in ops

\* One read: the record can be read now, or the request ends with an error.
\* In the transaction that stores an evaluation, eligibility alone is asked.
ReadNext(c) ==
    /\ Busy(c, {"evaluate", "store", "read"}) /\ pcall[c].todo # <<>>
    /\ LET id == Head(pcall[c].todo)
           found == IF pcall[c].op = "store" THEN ProductEligible(id) ELSE Readable(id)
       IN PutCall(c, IF ~found THEN None
                     ELSE [pcall[c] EXCEPT !.todo = Tail(@),
                              !.together = @ \/ Together(pcall[c].intent, pcall[c].left, pcall[c].right)])
    /\ UNCHANGED <<proposals, head, attested, receipts, contract, evaluations, pclock, torn>>

\* The evidence is stored and the transaction begins: it reads the three again.
BeginStore(c) ==
    /\ Busy(c, {"evaluate"}) /\ pcall[c].todo = <<>>
    /\ PutCall(c, [pcall[c] EXCEPT !.op = "store", !.todo = <<pcall[c].intent, pcall[c].left, pcall[c].right>>])
    /\ UNCHANGED <<proposals, head, attested, receipts, contract, evaluations, pclock, torn>>

Answer(c) == torn' = (torn \/ ~pcall[c].together)

\* RecordProductEvaluation: the first evaluation of these bindings is kept.
RecordProductEvaluation(c) ==
    /\ Busy(c, {"store"}) /\ pcall[c].todo = <<>>
    /\ evaluations' = evaluations \cup
          {[intent |-> pcall[c].intent, left |-> pcall[c].left, right |-> pcall[c].right,
            outcome |-> CompareObservations(receipts[pcall[c].left].content, receipts[pcall[c].right].content)]}
    /\ Answer(c) /\ PutCall(c, None)
    /\ UNCHANGED <<proposals, head, attested, receipts, contract, pclock>>

GetProductEvaluation(c) ==
    /\ Busy(c, {"read"}) /\ pcall[c].todo = <<>>
    /\ Answer(c) /\ PutCall(c, None)
    /\ UNCHANGED <<proposals, head, attested, receipts, contract, evaluations, pclock>>

-----------------------------------------------------------------------------
(* The environment *)

ProductTick ==
    /\ pclock < MaxProductTime /\ pclock' = pclock + 1
    /\ attested' = {}
    /\ UNCHANGED <<proposals, head, receipts, contract, evaluations, pcall, torn>>

\* The service restarts with a reviewed descriptor of another schema.
Redeploy(s) ==
    /\ contract[s] < MaxSchema[s] /\ contract' = [contract EXCEPT ![s] = @ + 1]
    /\ pcall' = [c \in ProductClients |-> None]
    /\ UNCHANGED <<proposals, head, attested, receipts, evaluations, pclock, torn>>

ProductNext ==
    \/ \E k \in Proposals : PutProductRecord(k)
    \/ \E id \in Captured : ValidateProductRecord(id)
    \/ \E id \in Captured : DecideProductRecord(id, "reject", None) \/ \E v \in attested : DecideProductRecord(id, "accept", v)
    \/ \E o \in DOMAIN receipts : QueryProductSource(o)
    \/ \E c \in ProductClients, intent \in Captured, l \in Observed, r \in Observed :
           l[1] = "left" /\ r[1] = "right" /\ BeginEvaluate(c, intent, l, r)
    \/ \E c \in ProductClients, e \in evaluations : BeginRead(c, e)
    \/ \E c \in ProductClients : ReadNext(c) \/ BeginStore(c) \/ RecordProductEvaluation(c) \/ GetProductEvaluation(c)
    \/ ProductTick
    \/ \E s \in Sources : Redeploy(s)

ProductSpec == ProductInit /\ [][ProductNext]_productVars

-----------------------------------------------------------------------------
(* Properties *)

\* Versions, heads, attestations and evaluations refer to rows that exist.
ProductTypeOK ==
    /\ \A k \in Proposals : head[k] \in 0..Len(proposals[k]) /\ Len(proposals[k]) <= MaxProductVersion[k]
    /\ attested \subseteq Captured
    /\ \A e \in evaluations : e.intent \in Captured /\ {e.left, e.right} \subseteq Observed

\* The context of a key is the newest version that was accepted, and that one
\* was accepted on an attestation of itself, in whatever order versions were
\* captured, attested and decided (DecideProductRecord, product_record_eligible).
HeadIsNewestAccepted ==
    \A id \in Captured : Row(id).decision # None /\ Row(id).decision.verdict = "accept" =>
        /\ id[2] <= head[id[1]]
        /\ Row(id).decision.vouched = id

\* An evaluation is stored or handed out only if its intent, the requirements
\* the intent binds and both observations could all be read together at some
\* moment of the request, though they are read one by one while heads, clock and
\* source contracts move (CompareProductObservations, GetProductEvaluation).
EvaluationsAreOfOneState == ~torn

\* CompareObservations row by row: satisfaction needs evidence that covers the
\* window and confirms every input, a violation names an input that is
\* contradicted or provably absent.
Earned(outcome, left, right) ==
    LET Confirmed(i) == \E j \in DOMAIN right.rows : right.rows[j] = [key |-> left.rows[i].key, value |-> "ok"]
        Contradicted(i) == \E j \in DOMAIN right.rows : right.rows[j].key = left.rows[i].key /\ right.rows[j].value # "ok"
        Absent(i) == right.complete /\ \A j \in DOMAIN right.rows : right.rows[j].key # left.rows[i].key
    IN /\ outcome = "satisfied" => /\ left.complete /\ right.complete /\ left.rows # <<>>
                                   /\ \A i \in DOMAIN left.rows : Confirmed(i) /\ ~Contradicted(i)
       /\ outcome = "violated" => \E i \in DOMAIN left.rows : Contradicted(i) \/ Absent(i)

OutcomesAreEarned ==
    \A e \in evaluations : Earned(e.outcome, receipts[e.left].content, receipts[e.right].content)

\* An evaluation is of one state of the records and says of it what the
\* observations show (CompareProductObservations, RecordProductEvaluation).
EvaluationsAreSound == EvaluationsAreOfOneState /\ OutcomesAreEarned
=============================================================================

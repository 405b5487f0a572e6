---------------------------- MODULE ContextProofs ----------------------------
(***************************************************************************)
(* Proofs about what callers are given as context: product records and     *)
(* the evaluations that compare them, the semantic registry, and the       *)
(* answers of operational sources.                                         *)
(*                                                                         *)
(* An evaluation is of one moment only because what it has read so far     *)
(* could be read together, or what is left to read is gone for good        *)
(* (CallStands); a definition found by search is approved because jobs,    *)
(* projections under way and vectors are of approved definitions           *)
(* (ProjectionsAreApproved); and an answer of a source is whole because a  *)
(* read has seen a prefix of every log (SeenSoFar) and a producer that     *)
(* promised the end of the window only repeats events from before its      *)
(* promise (LogOrdered).                                                   *)
(***************************************************************************)
EXTENDS ProductKnowledge, SemanticContext, SourceAdapters, FiniteSetTheorems, SequenceTheorems, TLAPS

-----------------------------------------------------------------------------
(* Comparing observations *)

WellFormed(env) ==
    /\ env.rows \in Seq(RowsOf(env)) /\ env.complete \in BOOLEAN
    /\ \A row \in RowsOf(env) : row = [key |-> row.key, value |-> row.value]

\* Rows that are not malformed have keys of their own.
LEMMA KeysAreDistinct ==
    ASSUME NEW env, WellFormed(env), ~Malformed(env)
    PROVE  \A i, j \in DOMAIN env.rows : env.rows[i].key = env.rows[j].key => i = j
<1> DEFINE rows == env.rows
           n == Len(rows)
           f == [i \in 1 .. n |-> rows[i].key]
<1>1. n \in Nat /\ DOMAIN rows = 1 .. n
    BY DEF WellFormed
<1>2. IsFiniteSet(1 .. n) /\ Cardinality(1 .. n) = n
    BY <1>1, FS_Interval
<1>3. Keys(env) = {rows[i].key : i \in 1 .. n} /\ Cardinality(Keys(env)) = n
    BY <1>1 DEF Keys, Malformed
<1>4. f \in Surjection(1 .. n, Keys(env))
    BY <1>3 DEF Surjection
<1>5. f \in Injection(1 .. n, Keys(env))
    BY <1>2, <1>3, <1>4, FS_Surjection
<1>6. \A i, j \in 1 .. n : f[i] = f[j] => i = j
    BY ONLY <1>5 DEF Injection, IsInjective
<1> QED
    BY <1>1, <1>6

\* The value of a key is that of its one row.
LEMMA ValueOfRow ==
    ASSUME NEW env, WellFormed(env), ~Malformed(env), NEW i \in DOMAIN env.rows
    PROVE  ValueOf(env, env.rows[i].key) = env.rows[i].value
BY KeysAreDistinct DEF ValueOf

\* CompareObservations says of two observations only what their rows show.
LEMMA ComparisonIsEarned ==
    ASSUME NEW left, NEW right, WellFormed(left), WellFormed(right)
    PROVE  Earned(CompareObservations(left, right), left, right)
<1> DEFINE missing == Keys(left) \ Keys(right)
           mismatched == {k \in Keys(left) \cap Keys(right) : ValueOf(right, k) # "ok"}
           bad == Malformed(left) \/ Malformed(right) \/ left.window # right.window
           outcome == CompareObservations(left, right)
<1>1. CASE outcome = "satisfied"
  <2>1. /\ ~Malformed(left) /\ ~Malformed(right) /\ mismatched = {} /\ (missing = {} \/ ~right.complete)
        /\ Keys(left) # {} /\ left.complete /\ right.complete
      BY <1>1 DEF CompareObservations
  <2>2. left.rows # <<>>
      BY <2>1 DEF Keys
  <2>3. ASSUME NEW i \in DOMAIN left.rows
        PROVE  /\ \E j \in DOMAIN right.rows : right.rows[j] = [key |-> left.rows[i].key, value |-> "ok"]
               /\ \A j \in DOMAIN right.rows : right.rows[j].key = left.rows[i].key => right.rows[j].value = "ok"
    <3>1. PICK k \in Keys(left) : k = left.rows[i].key
        BY DEF Keys
    <3>2. k \in Keys(right) /\ ValueOf(right, k) = "ok"
        BY <2>1
    <3>3. PICK j \in DOMAIN right.rows : right.rows[j].key = k
        BY <3>2 DEF Keys
    <3>4. \A h \in DOMAIN right.rows : right.rows[h].key = k => right.rows[h].value = "ok"
        BY <2>1, <3>2, ValueOfRow
    <3>5. right.rows[j] \in RowsOf(right)
        BY DEF RowsOf
    <3>6. right.rows[j] = [key |-> k, value |-> "ok"]
        BY <3>3, <3>4, <3>5 DEF WellFormed
    <3> QED
        BY <3>1, <3>4, <3>6
  <2> QED
      BY <1>1, <2>1, <2>2, <2>3 DEF Earned
<1>2. CASE outcome = "violated"
  <2>1. ~Malformed(right) /\ (mismatched # {} \/ (missing # {} /\ right.complete))
      BY <1>2 DEF CompareObservations
  <2>2. CASE mismatched # {}
    <3>1. PICK k \in mismatched : TRUE
        BY <2>2
    <3>2. PICK i \in DOMAIN left.rows, j \in DOMAIN right.rows : left.rows[i].key = k /\ right.rows[j].key = k
        BY <3>1 DEF Keys
    <3>3. right.rows[j].value # "ok"
        BY <2>1, <3>1, <3>2, ValueOfRow
    <3> QED
        BY <1>2, <3>2, <3>3 DEF Earned
  <2>3. CASE missing # {} /\ right.complete
    <3>1. PICK k \in missing : TRUE
        BY <2>3
    <3>2. PICK i \in DOMAIN left.rows : left.rows[i].key = k
        BY <3>1 DEF Keys
    <3>3. \A j \in DOMAIN right.rows : right.rows[j].key # k
        BY <3>1 DEF Keys
    <3> QED
        BY <1>2, <2>3, <3>2, <3>3 DEF Earned
  <2> QED
      BY <2>1, <2>2, <2>3
<1> QED
    BY <1>1, <1>2 DEF Earned

-----------------------------------------------------------------------------
(* Product records: what the rows are *)

Ids == (Proposals \X Nat) \cup (Sources \X SourceKeys)
ProposalDecision == [verdict : {"accept", "reject"}, vouched : {None} \cup Proposals \X Nat]
ProductRow ==
    [binds : {None} \cup {"brs"} \X Nat, open : BOOLEAN, expires : Nat, decision : {None} \cup ProposalDecision]
Receipt == [status : {"failed", "complete", "partial"}, schema : Nat,
            content : {None} \cup UNION {Envelopes[s] : s \in Sources}, expires : Nat]
Call == [op : {"evaluate", "store", "read"}, intent : Ids, left : Ids, right : Ids, todo : Seq(Ids), together : BOOLEAN]

ProductShape ==
    /\ proposals \in [Proposals -> Seq(ProductRow)] /\ head \in [Proposals -> Nat]
    /\ \A k \in Proposals : head[k] <= Len(proposals[k]) /\ Len(proposals[k]) <= MaxProductVersion[k]
    /\ \A v \in DOMAIN proposals["intent"] : proposals["intent"][v].binds \in {"brs"} \X Nat
    /\ receipts \in [Sources \X SourceKeys -> {None} \cup Receipt]
    /\ \A o \in Observed : receipts[o].content \in Envelopes[o[1]]
    /\ contract \in [Sources -> Nat] /\ pclock \in Nat
    /\ pcall \in [ProductClients -> {None} \cup Call]
    /\ attested \subseteq Captured

Accepted(id) == id \in Captured /\ Row(id).decision # None /\ Row(id).decision.verdict = "accept"

\* What is known to the requests can, once it cannot be read, never be read
\* again: a head moves on and a lifetime ends.
Dead(id) == (Accepted(id) \/ id \in Observed) /\ ~Readable(id)

\* A stored evaluation is of records that were accepted and observations that
\* are kept, and says what they show.
EvaluationStands(e) ==
    /\ e.intent \in Captured /\ e.intent[1] = "intent" /\ e.left \in Observed /\ e.right \in Observed
    /\ Accepted(e.intent) /\ Accepted(Row(e.intent).binds)
    /\ e.outcome = CompareObservations(receipts[e.left].content, receipts[e.right].content)

\* Either there was a moment at which everything could be read, or the
\* request has yet to find that something cannot.
Decided(q) ==
    /\ Accepted(q.intent) /\ Accepted(Row(q.intent).binds)
    /\ q.together \/ \E i \in DOMAIN q.todo : Dead(q.todo[i])

CallStands(q) ==
    /\ q.intent \in Captured /\ q.intent[1] = "intent" /\ q.left \in Observed /\ q.right \in Observed
    /\ \/ /\ q.op = "evaluate"
          /\ \/ q.todo = <<q.intent, Row(q.intent).binds, q.left, q.right, q.intent>>
             \/ q.todo = <<Row(q.intent).binds, q.left, q.right, q.intent>> /\ Accepted(q.intent)
             \/ Decided(q)
       \/ q.op = "store" /\ q.together /\ Decided(q)
       \/ q.op = "read" /\ Decided(q)

ProductInv ==
    /\ ProductShape /\ HeadIsNewestAccepted /\ ~torn
    /\ \A e \in evaluations : EvaluationStands(e)
    /\ \A q \in {pcall[c] : c \in ProductClients} : q # None => CallStands(q)

-----------------------------------------------------------------------------
(* Rows only grow *)

LEMMA CapturedIs == \A id : id \in Captured <=> \E k \in Proposals : \E v \in DOMAIN proposals[k] : id = <<k, v>>
BY DEF Captured

\* Records and observations are told apart by their identities.
LEMMA RowsAndIds ==
    ASSUME ProductShape
    PROVE  /\ \A id \in Captured : /\ id \in Proposals \X Nat /\ id = <<id[1], id[2]>> /\ id \notin Observed
                                   /\ id[2] \in DOMAIN proposals[id[1]]
                                   /\ Row(id) \in ProductRow
           /\ \A id \in Observed : /\ id \in Sources \X SourceKeys /\ receipts[id] \in Receipt /\ id \notin Captured
           /\ Captured \subseteq Ids /\ Observed \subseteq Ids
<1>1. \A k \in Proposals : proposals[k] \in Seq(ProductRow) /\ DOMAIN proposals[k] \subseteq Nat
    BY DEF ProductShape
<1>2. ASSUME NEW id \in Captured
      PROVE  /\ id \in Proposals \X Nat /\ id = <<id[1], id[2]>> /\ id[2] \in DOMAIN proposals[id[1]]
             /\ Row(id) \in ProductRow /\ id[1] \in {"brs", "intent"}
  <2>1. PICK k \in Proposals : \E v \in DOMAIN proposals[k] : id = <<k, v>>
      BY CapturedIs
  <2>2. PICK v \in DOMAIN proposals[k] : id = <<k, v>>
      BY <2>1
  <2>3. proposals[k][v] \in ProductRow
      BY <1>1
  <2> QED
      BY <1>1, <2>2, <2>3 DEF Row, Proposals
<1>3. ASSUME NEW id \in Observed
      PROVE  id \in Sources \X SourceKeys /\ receipts[id] \in Receipt /\ id[1] \in {"left", "right"}
    BY DEF Observed, ProductShape, Sources
<1> QED
    BY <1>2, <1>3 DEF Ids

Grows ==
    /\ pclock <= pclock' /\ pclock' \in Nat
    /\ \A k \in Proposals : head[k] <= head'[k] /\ head'[k] \in Nat
    /\ \A id \in Captured : /\ id \in Captured' /\ Row(id)'.binds = Row(id).binds
                            /\ Row(id)'.expires = Row(id).expires
                            /\ Row(id).decision # None => Row(id)'.decision = Row(id).decision
    /\ \A o \in Observed : o \in Observed' /\ receipts'[o] = receipts[o]

LEMMA AcceptedStays ==
    ASSUME Grows, NEW id, Accepted(id)
    PROVE  Accepted(id)'
BY DEF Accepted, Grows

LEMMA DeadForGood ==
    ASSUME ProductInv, ProductShape', Grows, UNCHANGED contract, NEW id, Dead(id)
    PROVE  Dead(id)'
<1>1. CASE Accepted(id)
  <2>1. /\ id \in Proposals \X Nat /\ id[1] \in Proposals /\ id[2] \in Nat /\ id \notin Observed
        /\ Row(id).expires \in Nat
      BY <1>1, RowsAndIds DEF Accepted, ProductInv, ProductRow
  <2>2. id[2] <= head[id[1]] /\ head[id[1]] <= head'[id[1]] /\ head[id[1]] \in Nat /\ head'[id[1]] \in Nat
      BY <1>1, <2>1 DEF Accepted, ProductInv, HeadIsNewestAccepted, Grows, ProductShape
  <2>3. Accepted(id)' /\ Row(id)'.expires = Row(id).expires /\ pclock <= pclock' /\ pclock \in Nat /\ pclock' \in Nat
      BY <1>1, AcceptedStays DEF Accepted, Grows, ProductInv, ProductShape
  <2>4. (id \notin Observed)'
    <3>1. Observed' \subseteq Sources \X SourceKeys
        BY DEF Observed, ProductShape
    <3> QED
        BY <2>1, <3>1 DEF Sources, Proposals
  <2>5. ASSUME Readable(id)' PROVE FALSE
    <3>1. head'[id[1]] = id[2] /\ Row(id)'.expires > pclock'
        BY <2>4, <2>5 DEF Readable, ProductEligible
    <3>2. head[id[1]] = id[2] /\ Row(id).expires > pclock
        BY <2>1, <2>2, <2>3, <3>1
    <3>3. Readable(id)
        BY <1>1, <2>1, <3>2 DEF Readable, ProductEligible, Accepted
    <3> QED
        BY <3>3 DEF Dead
  <2> QED
      BY <2>3, <2>5 DEF Dead
<1>2. CASE id \in Observed
  <2>1. id \in Sources \X SourceKeys /\ receipts[id] \in Receipt /\ receipts[id].expires \in Nat
      BY <1>2, RowsAndIds DEF ProductInv, Receipt
  <2>2. (id \in Observed)' /\ receipts'[id] = receipts[id] /\ pclock <= pclock' /\ pclock \in Nat /\ pclock' \in Nat
      BY <1>2 DEF Grows, ProductInv, ProductShape
  <2>3. (id \notin Captured)'
    <3>1. \A i \in Captured' : i[1] \in Proposals
        BY DEF Captured
    <3> QED
        BY <2>1, <3>1 DEF Sources, Proposals
  <2>4. ASSUME Readable(id)' PROVE FALSE
    <3>1. receipts[id].expires > pclock' /\ receipts[id].schema = contract[id[1]]
        BY <2>2, <2>3, <2>4 DEF Readable, ProductEligible, authorizeRetainedObservation
    <3>2. Readable(id)
        BY <1>2, <2>1, <2>2, <3>1 DEF Readable, ProductEligible, authorizeRetainedObservation
    <3> QED
        BY <3>2 DEF Dead
  <2> QED
      BY <2>2, <2>4 DEF Dead
<1> QED
    BY <1>1, <1>2 DEF Dead

\* What a stored evaluation rests on stays.
LEMMA EvaluationStays ==
    ASSUME Grows, NEW e, EvaluationStands(e)
    PROVE  EvaluationStands(e)'
<1>1. /\ e.intent \in Captured /\ Accepted(e.intent) /\ Accepted(Row(e.intent).binds)
      /\ e.left \in Observed /\ e.right \in Observed
    BY DEF EvaluationStands
<1>2. Row(e.intent)'.binds = Row(e.intent).binds /\ (e.intent \in Captured)'
    BY <1>1 DEF Grows
<1>3. Accepted(e.intent)' /\ Accepted(Row(e.intent).binds)'
  <2>1. PICK b : b = Row(e.intent).binds
      OBVIOUS
  <2>2. Accepted(b)'
      BY <1>1, <2>1, AcceptedStays
  <2>3. b = Row(e.intent)'.binds
      BY <1>2, <2>1
  <2> QED
      BY <1>1, <2>2, <2>3, AcceptedStays
<1> QED
    BY <1>1, <1>2, <1>3 DEF EvaluationStands, Grows

\* So does a request under way, as long as the contracts do.
LEMMA CallStays ==
    ASSUME ProductInv, ProductShape', Grows, UNCHANGED contract, NEW q \in Call, CallStands(q)
    PROVE  CallStands(q)'
<1> DEFINE b == Row(q.intent).binds
<1>1. /\ q.intent \in Captured /\ q.intent[1] = "intent" /\ q.left \in Observed /\ q.right \in Observed
      /\ (q.intent \in Captured)' /\ (q.left \in Observed)' /\ (q.right \in Observed)'
      /\ Row(q.intent)'.binds = b
    BY DEF CallStands, Grows
<1>2. Accepted(q.intent) => Accepted(q.intent)'
    BY AcceptedStays
<1>3. Decided(q) => Decided(q)'
  <2>1. \A id : Accepted(id) => Accepted(id)'
      BY AcceptedStays
  <2>2. \A id : Dead(id) => Dead(id)'
      BY DeadForGood
  <2> HIDE DEF b
  <2> QED
      BY <1>1, <2>1, <2>2 DEF Decided, b
<1> QED
    BY <1>1, <1>2, <1>3 DEF CallStands

\* A step that only adds keeps the invariant.
LEMMA GrowsKeepsInv ==
    ASSUME ProductInv, ProductShape', HeadIsNewestAccepted', Grows, UNCHANGED <<evaluations, torn>>,
           UNCHANGED <<contract, pcall>> \/ pcall' = [c \in ProductClients |-> None]
    PROVE  ProductInv'
<1>1. \A e \in evaluations' : EvaluationStands(e)'
    BY EvaluationStays DEF ProductInv
<1>2. \A q \in {pcall'[c] : c \in ProductClients} : q # None => CallStands(q)'
  <2>1. CASE UNCHANGED <<contract, pcall>>
      BY <2>1, CallStays DEF ProductInv, ProductShape
  <2> QED
      BY <2>1
<1> QED
    BY <1>1, <1>2 DEF ProductInv

\* The rows are the same: one request moves.
LEMMA RequestKeepsInv ==
    ASSUME ProductInv, NEW c \in ProductClients, NEW q \in {None} \cup Call,
           UNCHANGED <<proposals, head, attested, receipts, contract, pclock>>,
           pcall' = [pcall EXCEPT ![c] = q], q # None => CallStands(q),
           \A e \in evaluations' : EvaluationStands(e), ~torn'
    PROVE  ProductInv'
<1>1. pcall' \in [ProductClients -> {None} \cup Call] /\ \A d \in ProductClients : pcall'[d] = IF d = c THEN q ELSE pcall[d]
    BY DEF ProductInv, ProductShape
<1>2. ProductShape' /\ HeadIsNewestAccepted'
    BY <1>1
    DEF ProductInv, ProductShape, HeadIsNewestAccepted, Captured, Row, Observed
<1>3. Grows
    BY DEF ProductInv, ProductShape, Grows, Captured, Row, Observed
<1>4. \A e \in evaluations' : EvaluationStands(e)'
    BY <1>3, EvaluationStays
<1>5. \A p \in {pcall'[d] : d \in ProductClients} : p # None => CallStands(p)'
    BY <1>1, <1>2, <1>3, CallStays DEF ProductInv
<1> QED
    BY <1>2, <1>4, <1>5 DEF ProductInv

-----------------------------------------------------------------------------
(* The actions *)

LEMMA ProductInitInv == ProductInit => ProductInv
<1> SUFFICES ASSUME ProductInit PROVE ProductInv
    OBVIOUS
<1>1. Captured = {} /\ Observed = {}
    BY DEF ProductInit, Captured, Observed
<1>2. ProductShape
    BY <1>1, ProductAssumption DEF ProductInit, ProductShape, ProductAssumption, Proposals
<1>3. HeadIsNewestAccepted
    BY <1>1 DEF HeadIsNewestAccepted
<1> QED
    BY <1>2, <1>3 DEF ProductInit, ProductInv

\* One request reads the next of its records.
LEMMA ReadNextKeepsInv ==
    ASSUME ProductInv, NEW c \in ProductClients, ReadNext(c)
    PROVE  ProductInv'
<1>1. PICK q \in Call : q = pcall[c] /\ q # None /\ q.todo # <<>> /\ CallStands(q)
    BY DEF ReadNext, Busy, ProductInv, ProductShape
<1> DEFINE id == Head(q.todo)
           found == IF q.op = "store" THEN ProductEligible(id) ELSE Readable(id)
           now == Together(q.intent, q.left, q.right)
           next == [q EXCEPT !.todo = Tail(@), !.together = @ \/ now]
<1>2. /\ pcall' = [pcall EXCEPT ![c] = IF ~found THEN None ELSE next]
      /\ UNCHANGED <<proposals, head, attested, receipts, contract, evaluations, pclock, torn>>
    BY <1>1 DEF ReadNext, PutCall
<1>3. \A e \in evaluations' : EvaluationStands(e)
    BY <1>2 DEF ProductInv
<1>4. ~torn'
    BY <1>2 DEF ProductInv
<1>5. CASE ~found
    BY <1>2, <1>3, <1>4, <1>5, RequestKeepsInv
<1>6. CASE found
  <2>1. now \in BOOLEAN
      BY DEF Together
  <2>2. Tail(q.todo) \in Seq(Ids) /\ q.todo \in Seq(Ids)
      BY <1>1 DEF Call
  <2> HIDE DEF now
  <2>3. /\ next \in Call /\ next.op = q.op /\ next.intent = q.intent /\ next.left = q.left /\ next.right = q.right
        /\ next.todo = Tail(q.todo) /\ next.together = (q.together \/ now)
      BY <2>1, <2>2 DEF Call
  <2> HIDE DEF next
  <2>4. Decided(q) => Decided(next)
    <3> SUFFICES ASSUME Decided(q), ~next.together PROVE \E i \in DOMAIN next.todo : Dead(next.todo[i])
        BY <2>3 DEF Decided
    <3>1. PICK i \in DOMAIN q.todo : Dead(q.todo[i])
        BY <2>3 DEF Decided
    <3>2. q.op # "store"
        BY <1>1, <2>3 DEF CallStands
    <3>3. ~Dead(id)
        BY <1>6, <3>2 DEF Dead
    <3>4. i # 1 /\ i \in 1 .. Len(q.todo)
        BY <2>2, <3>1, <3>3
    <3>5. i - 1 \in DOMAIN Tail(q.todo) /\ Tail(q.todo)[i - 1] = q.todo[i]
        BY <1>1, <2>2, <3>4
    <3> QED
        BY <2>3, <3>1, <3>5
  <2>5. ASSUME q.op = "evaluate", ~Decided(q) PROVE CallStands(next)
    <3> DEFINE b == Row(q.intent).binds
    <3>1. /\ q.intent \in Captured /\ q.intent[1] = "intent" /\ q.left \in Observed /\ q.right \in Observed
          /\ q.intent \notin Observed
        BY <1>1, RowsAndIds DEF CallStands, ProductInv
    <3>2. Readable(id) /\ (id \notin Observed => Accepted(id))
        BY <1>6, <2>5 DEF Readable, ProductEligible, Accepted
    <3>3. b \in {"brs"} \X Nat /\ b \notin Observed
      <4>1. b \in {"brs"} \X Nat
          BY <3>1, RowsAndIds DEF ProductInv, ProductShape, Row
      <4> QED
          BY <4>1, RowsAndIds DEF ProductInv, Sources
    <3> HIDE DEF b
    <3>4. CASE q.todo = <<q.intent, b, q.left, q.right, q.intent>>
      <4>1. id = q.intent /\ next.todo = <<b, q.left, q.right, q.intent>>
          BY <2>3, <3>4
      <4> QED
          BY <2>3, <2>5, <3>1, <3>2, <4>1 DEF CallStands, b
    <3>5. CASE q.todo = <<b, q.left, q.right, q.intent>> /\ Accepted(q.intent)
      <4>1. id = b /\ next.todo = <<q.left, q.right, q.intent>>
          BY <2>3, <3>5
      <4>2. Accepted(b) /\ Readable(b)
          BY <3>2, <3>3, <4>1
      <4>3. ASSUME ~now PROVE \E i \in DOMAIN next.todo : Dead(next.todo[i])
        <5>1. ~Readable(q.intent) \/ ~Readable(q.left) \/ ~Readable(q.right)
            BY <4>2, <4>3 DEF Together, now, b
        <5>2. Dead(q.intent) \/ Dead(q.left) \/ Dead(q.right)
            BY <3>1, <3>5, <5>1 DEF Dead
        <5>3. /\ DOMAIN next.todo = {1, 2, 3} /\ next.todo[1] = q.left /\ next.todo[2] = q.right
              /\ next.todo[3] = q.intent
            BY <4>1
        <5> QED
            BY <5>2, <5>3
      <4>4. Decided(next)
          BY <2>3, <3>5, <4>2, <4>3 DEF Decided, b
      <4> QED
          BY <2>3, <2>5, <3>1, <4>4 DEF CallStands
    <3> QED
        BY <1>1, <2>5, <3>4, <3>5 DEF CallStands, b
  <2>6. ASSUME q.op # "evaluate" \/ Decided(q) PROVE CallStands(next)
      BY <1>1, <2>3, <2>4, <2>6 DEF CallStands
  <2>7. CallStands(next)
      BY <2>5, <2>6
  <2> QED
      BY <1>2, <1>3, <1>4, <1>6, <2>3, <2>7, RequestKeepsInv
<1> QED
    BY <1>5, <1>6

\* A request starts to read.
LEMMA ReadingKeepsInv ==
    ASSUME ProductInv, NEW c \in ProductClients, NEW op \in {"evaluate", "read"},
           NEW intent, NEW l, NEW r, NEW ids \in Seq(Ids),
           intent \in Captured, intent[1] = "intent", l \in Observed, r \in Observed,
           op = "evaluate" => ids = <<intent, Row(intent).binds, l, r, intent>>,
           op = "read" => /\ Accepted(intent) /\ Accepted(Row(intent).binds)
                          /\ \A id \in {intent, Row(intent).binds, l, r} : \E i \in DOMAIN ids : ids[i] = id,
           Reading(c, op, intent, l, r, ids),
           UNCHANGED <<proposals, head, attested, receipts, contract, evaluations, pclock, torn>>
    PROVE  ProductInv'
<1> DEFINE now == Together(intent, l, r)
           q == [op |-> op, intent |-> intent, left |-> l, right |-> r, todo |-> ids, together |-> now]
<1>1. now \in BOOLEAN
    BY DEF Together
<1>2. intent \in Ids /\ l \in Ids /\ r \in Ids
    BY RowsAndIds DEF ProductInv
<1>3. pcall' = [pcall EXCEPT ![c] = q]
    BY DEF Reading, PutCall
<1> HIDE DEF now
<1>4. /\ q \in Call /\ q.op = op /\ q.intent = intent /\ q.left = l /\ q.right = r /\ q.todo = ids
      /\ q.together = now
    BY <1>1, <1>2 DEF Call
<1> HIDE DEF q
<1>5. CallStands(q)
  <2>1. CASE op = "evaluate"
      BY <1>4, <2>1 DEF CallStands
  <2>2. CASE op = "read"
    <3>1. ASSUME ~now PROVE \E i \in DOMAIN ids : Dead(ids[i])
      <4>1. PICK id \in {intent, Row(intent).binds, l, r} : ~Readable(id)
          BY <3>1 DEF now, Together
      <4>2. Dead(id)
          BY <2>2, <4>1 DEF Dead
      <4> QED
          BY <2>2, <4>2
    <3>2. Decided(q)
        BY <1>4, <2>2, <3>1 DEF Decided
    <3> QED
        BY <1>4, <2>2, <3>2 DEF CallStands
  <2> QED
      BY <2>1, <2>2
<1> QED
    BY <1>3, <1>4, <1>5, RequestKeepsInv DEF ProductInv

LEMMA BeginEvaluateKeepsInv ==
    ASSUME ProductInv, NEW c \in ProductClients, NEW intent \in Captured, NEW l \in Observed, NEW r \in Observed,
           BeginEvaluate(c, intent, l, r)
    PROVE  ProductInv'
<1>1. intent[1] = "intent" /\ intent \in Ids /\ l \in Ids /\ r \in Ids
    BY RowsAndIds DEF BeginEvaluate, ProductInv
<1> DEFINE b == Row(intent).binds
           ids == <<intent, b, l, r, intent>>
<1>2. b \in Ids
    BY <1>1, RowsAndIds DEF ProductInv, ProductShape, Row, Ids, Proposals
<1> HIDE DEF b
<1>3. ids \in Seq(Ids) /\ ids = <<intent, b>> \o <<l, r, intent>>
    BY <1>1, <1>2
<1>4. IntentReads(intent) = <<intent, b>>
    BY DEF IntentReads, b
<1> HIDE DEF ids
<1>5. /\ Reading(c, "evaluate", intent, l, r, ids)
      /\ UNCHANGED <<proposals, head, attested, receipts, contract, evaluations, pclock, torn>>
    BY <1>3, <1>4 DEF BeginEvaluate
<1> QED
    BY <1>1, <1>3, <1>5, ReadingKeepsInv DEF ids, b

LEMMA BeginReadKeepsInv ==
    ASSUME ProductInv, NEW c \in ProductClients, NEW e \in evaluations, BeginRead(c, e)
    PROVE  ProductInv'
<1>1. /\ e.intent \in Captured /\ e.intent[1] = "intent" /\ e.left \in Observed /\ e.right \in Observed
      /\ Accepted(e.intent) /\ Accepted(Row(e.intent).binds)
    BY DEF ProductInv, EvaluationStands
<1> DEFINE b == Row(e.intent).binds
           ids == <<e.intent, e.left, e.right, e.intent, b>>
<1>2. e.intent \in Ids /\ e.left \in Ids /\ e.right \in Ids /\ b \in Ids
    BY <1>1, RowsAndIds DEF ProductInv, Accepted
<1> HIDE DEF b
<1>3. ids \in Seq(Ids) /\ ids = <<e.intent, e.left, e.right>> \o <<e.intent, b>> /\ DOMAIN ids = 1 .. 5
    BY <1>2
<1>4. RereadBindings(e) = <<e.intent, e.left, e.right>> \o <<e.intent, b>>
    BY DEF IntentReads, RereadBindings, b
<1>5. \A id \in {e.intent, b, e.left, e.right} : \E i \in DOMAIN ids : ids[i] = id
  <2>1. ids[1] = e.intent /\ ids[2] = e.left /\ ids[3] = e.right /\ ids[5] = b
      OBVIOUS
  <2> QED
      BY <1>3, <2>1
<1> HIDE DEF ids
<1>6. /\ Reading(c, "read", e.intent, e.left, e.right, ids)
      /\ UNCHANGED <<proposals, head, attested, receipts, contract, evaluations, pclock, torn>>
    BY <1>3, <1>4 DEF BeginRead
<1> QED
    BY <1>1, <1>3, <1>5, <1>6, ReadingKeepsInv DEF b

\* Everything was read: the transaction begins, and ends with an answer.
LEMMA AnswerKeepsInv ==
    ASSUME ProductInv, NEW c \in ProductClients, BeginStore(c) \/ RecordProductEvaluation(c) \/ GetProductEvaluation(c)
    PROVE  ProductInv'
<1>1. PICK q \in Call : q = pcall[c] /\ q # None /\ q.todo = <<>> /\ CallStands(q)
    BY DEF BeginStore, RecordProductEvaluation, GetProductEvaluation, Busy, ProductInv, ProductShape
<1>2. Decided(q) /\ q.together
  <2>1. Decided(q)
      BY <1>1 DEF CallStands
  <2> QED
      BY <1>1, <2>1 DEF Decided
<1>3. CASE BeginStore(c)
  <2> DEFINE next == [q EXCEPT !.op = "store", !.todo = <<q.intent, q.left, q.right>>]
  <2>1. /\ pcall' = [pcall EXCEPT ![c] = next]
        /\ UNCHANGED <<proposals, head, attested, receipts, contract, evaluations, pclock, torn>>
      BY <1>1, <1>3 DEF BeginStore, PutCall
  <2>2. /\ next \in Call /\ next.op = "store" /\ next.intent = q.intent /\ next.left = q.left /\ next.right = q.right
        /\ next.together = q.together
    <3>1. <<q.intent, q.left, q.right>> \in Seq(Ids)
        BY DEF Call
    <3> QED
        BY <3>1 DEF Call
  <2> HIDE DEF next
  <2>3. CallStands(next)
      BY <1>1, <1>2, <2>2 DEF CallStands, Decided
  <2> QED
      BY <2>1, <2>2, <2>3, RequestKeepsInv DEF ProductInv
<1>4. CASE RecordProductEvaluation(c)
  <2> DEFINE e == [intent |-> q.intent, left |-> q.left, right |-> q.right,
                   outcome |-> CompareObservations(receipts[q.left].content, receipts[q.right].content)]
  <2>1. /\ pcall' = [pcall EXCEPT ![c] = None] /\ evaluations' = evaluations \cup {e}
        /\ torn' = (torn \/ ~q.together)
        /\ UNCHANGED <<proposals, head, attested, receipts, contract, pclock>>
      BY <1>1, <1>4 DEF RecordProductEvaluation, PutCall, Answer
  <2>2. EvaluationStands(e)
      BY <1>1, <1>2 DEF EvaluationStands, CallStands, Decided
  <2> HIDE DEF e
  <2>3. \A f \in evaluations' : EvaluationStands(f)
      BY <2>1, <2>2 DEF ProductInv
  <2>4. ~torn'
      BY <1>2, <2>1 DEF ProductInv
  <2> QED
      BY <2>1, <2>3, <2>4, RequestKeepsInv
<1>5. CASE GetProductEvaluation(c)
  <2>1. /\ pcall' = [pcall EXCEPT ![c] = None] /\ torn' = (torn \/ ~q.together)
        /\ UNCHANGED <<proposals, head, attested, receipts, contract, evaluations, pclock>>
      BY <1>1, <1>5 DEF GetProductEvaluation, PutCall, Answer
  <2>2. ~torn'
      BY <1>2, <2>1 DEF ProductInv
  <2> QED
      BY <2>1, <2>2, RequestKeepsInv DEF ProductInv
<1> QED
    BY <1>3, <1>4, <1>5

\* A version is captured.
LEMMA PutKeepsInv ==
    ASSUME ProductInv, NEW k \in Proposals, PutProductRecord(k)
    PROVE  ProductInv'
<1>1. PICK draft \in Drafts(k) : proposals' = [proposals EXCEPT ![k] = Append(@, draft)]
    BY DEF PutProductRecord
<1>2. /\ UNCHANGED <<head, attested, receipts, contract, evaluations, pcall, pclock, torn>>
      /\ Len(proposals[k]) < MaxProductVersion[k] /\ MaxProductVersion[k] \in Nat
    BY ProductAssumption DEF PutProductRecord, ProductAssumption
<1>3. draft \in ProductRow /\ draft.decision = None /\ (k = "intent" => draft.binds \in {"brs"} \X Nat)
  <2>1. \A id \in Captured : id[1] = "brs" => id \in {"brs"} \X Nat
      BY RowsAndIds DEF ProductInv
  <2>2. \A life \in Lifetimes : life \in Nat /\ Never \in Nat /\ pclock \in Nat
      BY ProductAssumption DEF ProductAssumption, Never, ProductInv, ProductShape
  <2>3. {IF life = Never THEN Never ELSE pclock + life : life \in Lifetimes} \subseteq Nat
      BY <2>2
  <2>4. draft.binds \in {None} \cup {"brs"} \X Nat /\ (k = "intent" => draft.binds \in {"brs"} \X Nat)
      BY <2>1 DEF Drafts
  <2>5. draft.expires \in Nat
      BY <2>3 DEF Drafts
  <2>6. draft.open \in BOOLEAN /\ draft.decision = None
      BY DEF Drafts
  <2>7. draft = [binds |-> draft.binds, open |-> draft.open, expires |-> draft.expires, decision |-> draft.decision]
      BY DEF Drafts
  <2> QED
      BY ONLY <2>4, <2>5, <2>6, <2>7 DEF ProductRow
<1> HIDE DEF Drafts
<1>4. proposals \in [Proposals -> Seq(ProductRow)]
    BY DEF ProductInv, ProductShape
<1>5. /\ proposals' \in [Proposals -> Seq(ProductRow)]
      /\ proposals'[k] = Append(proposals[k], draft) /\ \A j \in Proposals : j # k => proposals'[j] = proposals[j]
    BY ONLY <1>1, <1>3, <1>4, k \in Proposals
<1>6. \A j \in Proposals : \A v \in DOMAIN proposals[j] : v \in DOMAIN proposals'[j] /\ proposals'[j][v] = proposals[j][v]
  <2>1. proposals[k] \in Seq(ProductRow)
      BY <1>4
  <2>2. \A v \in DOMAIN proposals[k] :
           v \in DOMAIN Append(proposals[k], draft) /\ Append(proposals[k], draft)[v] = proposals[k][v]
      BY ONLY <1>3, <2>1
  <2> QED
      BY ONLY <1>5, <2>2, k \in Proposals
<1>7. \A j \in Proposals : \A v \in DOMAIN proposals'[j] :
         v \in DOMAIN proposals[j] \/ (j = k /\ proposals'[j][v] = draft)
    BY ONLY <1>3, <1>4, <1>5, k \in Proposals
<1>8. /\ Captured \subseteq Captured' /\ \A id \in Captured : Row(id)' = Row(id)
      /\ \A id \in Captured' : id \in Captured \/ Row(id)'.decision = None
    BY <1>3, <1>6, <1>7 DEF Captured, Row
<1>9. ProductShape'
  <2>1. \A v \in DOMAIN proposals'["intent"] : proposals'["intent"][v].binds \in {"brs"} \X Nat
      BY <1>3, <1>6, <1>7 DEF ProductInv, ProductShape, Proposals
  <2>2. \A j \in Proposals : head[j] <= Len(proposals'[j]) /\ Len(proposals'[j]) <= MaxProductVersion[j]
    <3>1. Len(proposals'[k]) = Len(proposals[k]) + 1 /\ Len(proposals[k]) \in Nat
        BY <1>3, <1>4, <1>5
    <3>2. \A j \in Proposals : head[j] \in Nat /\ head[j] <= Len(proposals[j]) /\ Len(proposals[j]) <= MaxProductVersion[j]
        BY DEF ProductInv, ProductShape
    <3>3. head[k] <= Len(proposals'[k]) /\ Len(proposals'[k]) <= MaxProductVersion[k]
        BY <1>2, <3>1, <3>2
    <3> QED
        BY ONLY <1>5, <3>2, <3>3
  <2> QED
      BY <1>2, <1>5, <1>8, <2>1, <2>2 DEF ProductInv, ProductShape, Observed
<1>10. HeadIsNewestAccepted'
    BY <1>2, <1>8 DEF ProductInv, HeadIsNewestAccepted
<1>11. Grows
    BY <1>2, <1>8 DEF Grows, ProductInv, ProductShape, Observed
<1> QED
    BY <1>2, <1>9, <1>10, <1>11, GrowsKeepsInv

LEMMA ValidateKeepsInv ==
    ASSUME ProductInv, NEW id \in Captured, ValidateProductRecord(id)
    PROVE  ProductInv'
<1>1. /\ UNCHANGED <<proposals, head, receipts, contract, evaluations, pcall, pclock, torn>>
      /\ attested' = attested \cup {id}
    BY DEF ValidateProductRecord, Attest
<1>2. ProductShape' /\ HeadIsNewestAccepted'
    BY <1>1 DEF ProductInv, ProductShape, HeadIsNewestAccepted, Captured, Row, Observed
<1>3. Grows
    BY <1>1 DEF Grows, ProductInv, ProductShape, Captured, Row, Observed
<1> QED
    BY <1>1, <1>2, <1>3, GrowsKeepsInv

\* A decision, with the head it moves.
LEMMA DecideKeepsInv ==
    ASSUME ProductInv, NEW id \in Captured, NEW verdict \in {"accept", "reject"}, NEW w \in {None} \cup attested,
           DecideProductRecord(id, verdict, w)
    PROVE  ProductInv'
<1>1. PICK k \in Proposals, v \in Nat : id = <<k, v>> /\ v \in DOMAIN proposals[k] /\ Row(id) \in ProductRow
    BY RowsAndIds DEF ProductInv
<1> DEFINE row == [proposals[k][v] EXCEPT !.decision = [verdict |-> verdict, vouched |-> w]]
<1>2. /\ Row(id).decision = None /\ (verdict = "accept" => w = id /\ head[k] < v)
      /\ head' = IF verdict = "accept" THEN [head EXCEPT ![k] = v] ELSE head
      /\ UNCHANGED <<attested, receipts, contract, evaluations, pcall, pclock, torn>>
    BY <1>1 DEF DecideProductRecord, Vouches, Newer, advanceProductHead
<1>3. proposals' = [proposals EXCEPT ![k] = [proposals[k] EXCEPT ![v] = row]]
    BY <1>1 DEF DecideProductRecord
<1>4. /\ row \in ProductRow /\ row.binds = proposals[k][v].binds /\ row.expires = proposals[k][v].expires
      /\ row.decision.verdict = verdict /\ row.decision.vouched = w
  <2>1. w \in {None} \cup Proposals \X Nat
      BY RowsAndIds DEF ProductInv, ProductShape
  <2>2. [verdict |-> verdict, vouched |-> w] \in ProposalDecision
      BY <2>1 DEF ProposalDecision
  <2> QED
      BY <1>1, <2>2 DEF ProductRow, Row
<1> HIDE DEF row
<1>5. proposals \in [Proposals -> Seq(ProductRow)] /\ proposals[k] \in Seq(ProductRow)
    BY DEF ProductInv, ProductShape
<1>6. /\ [proposals[k] EXCEPT ![v] = row] \in Seq(ProductRow)
      /\ Len([proposals[k] EXCEPT ![v] = row]) = Len(proposals[k])
    BY <1>1, <1>4, <1>5
<1>7. /\ proposals' \in [Proposals -> Seq(ProductRow)]
      /\ proposals'[k] = [proposals[k] EXCEPT ![v] = row] /\ \A j \in Proposals : j # k => proposals'[j] = proposals[j]
    BY ONLY <1>3, <1>5, <1>6, k \in Proposals
<1>8. \A j \in Proposals :
         /\ DOMAIN proposals'[j] = DOMAIN proposals[j] /\ Len(proposals'[j]) = Len(proposals[j])
         /\ \A u \in DOMAIN proposals[j] : proposals'[j][u] = IF j = k /\ u = v THEN row ELSE proposals[j][u]
    BY ONLY <1>5, <1>6, <1>7, k \in Proposals
<1>9. /\ Captured' = Captured
      /\ \A i \in Captured : Row(i)' = IF i = id THEN row ELSE Row(i)
    BY <1>1, <1>8 DEF Captured, Row
<1>10. /\ head' \in [Proposals -> Nat] /\ \A j \in Proposals : head[j] <= head'[j] /\ head'[j] <= Len(proposals[j])
    BY <1>1, <1>2, <1>5 DEF ProductInv, ProductShape
<1>11. ProductShape'
  <2>1. \A u \in DOMAIN proposals'["intent"] : proposals'["intent"][u].binds \in {"brs"} \X Nat
      BY <1>1, <1>4, <1>8 DEF ProductInv, ProductShape, Proposals
  <2> QED
      BY <1>2, <1>7, <1>8, <1>9, <1>10, <2>1 DEF ProductInv, ProductShape, Observed
<1>12. HeadIsNewestAccepted'
  <2> SUFFICES ASSUME NEW i \in Captured, Row(i)'.decision # None, Row(i)'.decision.verdict = "accept"
               PROVE  i[2] <= head'[i[1]] /\ Row(i)'.decision.vouched = i
      BY <1>9 DEF HeadIsNewestAccepted
  <2>1. CASE i = id
    <3>1. verdict = "accept" /\ w = id /\ head'[k] = v
        BY <1>2, <1>4, <1>9, <2>1 DEF ProductInv, ProductShape
    <3> QED
        BY <1>1, <1>4, <1>9, <2>1, <3>1
  <2>2. CASE i # id
    <3>1. i[2] <= head[i[1]] /\ Row(i).decision.vouched = i /\ i[1] \in Proposals /\ i[2] \in Nat
        BY <1>9, <2>2, RowsAndIds DEF ProductInv, HeadIsNewestAccepted
    <3>2. head[i[1]] <= head'[i[1]] /\ head[i[1]] \in Nat /\ head'[i[1]] \in Nat
        BY <1>10, <3>1 DEF ProductInv, ProductShape
    <3> QED
        BY <1>9, <2>2, <3>1, <3>2
  <2> QED
      BY <2>1, <2>2
<1>13. Grows
  <2>1. \A i \in Captured : /\ i \in Captured' /\ Row(i)'.binds = Row(i).binds /\ Row(i)'.expires = Row(i).expires
                            /\ Row(i).decision # None => Row(i)'.decision = Row(i).decision
      BY <1>1, <1>2, <1>4, <1>9 DEF Row
  <2> QED
      BY <1>2, <1>10, <2>1 DEF Grows, ProductInv, ProductShape, Observed
<1> QED
    BY <1>2, <1>11, <1>12, <1>13, GrowsKeepsInv

\* An answer of a source is kept under its request key.
LEMMA QueryKeepsInv ==
    ASSUME ProductInv, NEW o \in DOMAIN receipts, QueryProductSource(o)
    PROVE  ProductInv'
<1>1. o \in Sources \X SourceKeys /\ o[1] \in Sources /\ contract[o[1]] \in Nat /\ pclock + 1 \in Nat
    BY DEF ProductInv, ProductShape
<1>2. PICK status \in {"failed", "complete", "partial"}, content \in {None} \cup UNION {Envelopes[s] : s \in Sources} :
         /\ RecordSourceObservation(o, status, content)
         /\ status # "failed" => content \in Envelopes[o[1]]
    BY <1>1 DEF QueryProductSource
<1>3. UNCHANGED <<proposals, head, attested, contract, evaluations, pcall, pclock, torn>>
    BY DEF QueryProductSource
<1> DEFINE row == [status |-> status, schema |-> contract[o[1]], content |-> content, expires |-> pclock + 1]
<1>4. receipts[o] = None /\ receipts' = [receipts EXCEPT ![o] = row]
    BY <1>2 DEF RecordSourceObservation
<1>5. row \in Receipt /\ row.status = status /\ row.content = content
    BY <1>1 DEF Receipt
<1> HIDE DEF row
<1>6. receipts \in [Sources \X SourceKeys -> {None} \cup Receipt]
    BY DEF ProductInv, ProductShape
<1>7. /\ receipts' \in [Sources \X SourceKeys -> {None} \cup Receipt]
      /\ \A p \in Sources \X SourceKeys : receipts'[p] = IF p = o THEN row ELSE receipts[p]
    BY ONLY <1>1, <1>4, <1>5, <1>6
<1>8. /\ \A p \in Observed : p \in Observed' /\ receipts'[p] = receipts[p]
      /\ \A p \in Observed' : p \in Observed \/ (p = o /\ status # "failed")
    BY <1>4, <1>5, <1>6, <1>7 DEF Observed
<1>9. ProductShape'
  <2>1. \A p \in Observed' : receipts'[p].content \in Envelopes[p[1]]
    <3> SUFFICES ASSUME NEW p \in Observed' PROVE receipts'[p].content \in Envelopes[p[1]]
        OBVIOUS
    <3>1. CASE p \in Observed
        BY <1>8, <3>1 DEF ProductInv, ProductShape
    <3>2. CASE p = o /\ status # "failed"
        BY <1>1, <1>2, <1>5, <1>7, <3>2
    <3> QED
        BY <1>8, <3>1, <3>2
  <2> QED
      BY <1>3, <1>7, <2>1 DEF ProductInv, ProductShape, Captured
<1>10. HeadIsNewestAccepted'
    BY <1>3 DEF ProductInv, HeadIsNewestAccepted, Captured, Row
<1>11. Grows
    BY <1>3, <1>8 DEF Grows, ProductInv, ProductShape, Captured, Row
<1> QED
    BY <1>3, <1>9, <1>10, <1>11, GrowsKeepsInv

\* Time passes, or a reviewed descriptor is deployed.
LEMMA ProductEnvironmentKeepsInv ==
    ASSUME ProductInv, ProductTick \/ \E s \in Sources : Redeploy(s)
    PROVE  ProductInv'
<1>1. /\ UNCHANGED <<proposals, head, receipts, evaluations, torn>>
      /\ UNCHANGED <<contract, pcall>> \/ pcall' = [c \in ProductClients |-> None]
      /\ attested' \subseteq attested
    BY DEF ProductTick, Redeploy
<1>2. contract' \in [Sources -> Nat] /\ pclock <= pclock' /\ pclock' \in Nat
    BY DEF ProductTick, Redeploy, ProductInv, ProductShape
<1>3. ProductShape' /\ HeadIsNewestAccepted'
    BY <1>1, <1>2 DEF ProductInv, ProductShape, HeadIsNewestAccepted, Captured, Row, Observed
<1>4. Grows
    BY <1>1, <1>2 DEF Grows, ProductInv, ProductShape, Captured, Row, Observed
<1> QED
    BY <1>1, <1>3, <1>4, GrowsKeepsInv

LEMMA ProductStepInv == ProductInv /\ [ProductNext]_productVars => ProductInv'
<1> SUFFICES ASSUME ProductInv, [ProductNext]_productVars PROVE ProductInv'
    OBVIOUS
<1>1. CASE UNCHANGED productVars
  <2>1. ProductShape' /\ HeadIsNewestAccepted'
      BY <1>1 DEF productVars, ProductInv, ProductShape, HeadIsNewestAccepted, Captured, Row, Observed
  <2>2. Grows
      BY <1>1 DEF productVars, Grows, ProductInv, ProductShape, Captured, Row, Observed
  <2> QED
      BY <1>1, <2>1, <2>2, GrowsKeepsInv DEF productVars
<1>2. CASE ProductNext
    BY <1>2, PutKeepsInv, ValidateKeepsInv, DecideKeepsInv, QueryKeepsInv, BeginEvaluateKeepsInv, BeginReadKeepsInv,
       ReadNextKeepsInv, AnswerKeepsInv, ProductEnvironmentKeepsInv
    DEF ProductNext
<1> QED
    BY <1>1, <1>2

\* The context of a key is the newest accepted version, accepted on an
\* attestation of itself (DecideProductRecord).
THEOREM NewestAccepted == ProductSpec => []HeadIsNewestAccepted
<1>1. ProductInv => HeadIsNewestAccepted
    BY DEF ProductInv
<1> QED
    BY <1>1, ProductInitInv, ProductStepInv, PTL DEF ProductSpec

\* An evaluation is of records that could be read together at one moment of
\* its request, and says of them what their rows show
\* (CompareProductObservations, GetProductEvaluation, CompareObservations).
THEOREM Evaluations == ProductSpec => []EvaluationsAreSound
<1>1. ProductInv => EvaluationsAreSound
  <2> SUFFICES ASSUME ProductInv, NEW e \in evaluations
               PROVE  Earned(e.outcome, receipts[e.left].content, receipts[e.right].content)
      BY DEF EvaluationsAreSound, EvaluationsAreOfOneState, OutcomesAreEarned, ProductInv
  <2>1. /\ e.left \in Observed /\ e.right \in Observed
        /\ e.outcome = CompareObservations(receipts[e.left].content, receipts[e.right].content)
      BY DEF ProductInv, EvaluationStands
  <2>2. \A o \in Observed : o[1] \in Sources /\ receipts[o].content \in Envelopes[o[1]]
      BY RowsAndIds DEF ProductInv, ProductShape
  <2>3. WellFormed(receipts[e.left].content) /\ WellFormed(receipts[e.right].content)
      BY <2>1, <2>2, EnvelopesAssumption DEF EnvelopesAssumption, WellFormed
  <2> QED
      BY <2>1, <2>3, ComparisonIsEarned
<1> QED
    BY <1>1, ProductInitInv, ProductStepInv, PTL DEF ProductSpec

\* Versions, heads, attestations and evaluations refer to rows that exist.
THEOREM ProductTypes == ProductSpec => []ProductTypeOK
<1>1. ProductInv => ProductTypeOK
    BY DEF ProductInv, ProductShape, ProductTypeOK, EvaluationStands
<1> QED
    BY <1>1, ProductInitInv, ProductStepInv, PTL DEF ProductSpec

-----------------------------------------------------------------------------
(* Semantic context: what the rows are *)

Digest == [version : Versions, registry : Versions, model : Models]
Job == [step : {"upsert", "verify", "record"}, of : Definitions \X Versions, digest : Digest, job : BOOLEAN]

SemanticShape ==
    /\ config \in [Projectors \cup {Server} -> [registry : Versions, model : Models]]
    /\ definitions \in [Definitions \X Versions -> {None} \cup DefinitionRow]
    /\ registryChecks \subseteq RegistryCheck /\ sclock \in Nat
    /\ vector \in [Definitions -> {None} \cup Digest]
    /\ projecting \in [Projectors -> {None} \cup Job]

\* A definition is stored under the version its registry gives it.
StoredAsListed == \A dv \in Stored : dv[2] = VersionIn[definitions[dv].registry][dv[1]]

\* Jobs, projections under way and vectors are of approved definitions.
ProjectionsAreApproved ==
    /\ contextJobs \subseteq Approved
    /\ \A w \in {projecting[p] : p \in Projectors} : w # None => w.of \in Approved /\ w.digest.version = w.of[2]
    /\ \A d \in Definitions : vector[d] # None => <<d, vector[d].version>> \in Approved

SemanticInv == SemanticShape /\ StoredAsListed /\ ApprovedOnItsRegistry /\ ProjectionsAreApproved

-----------------------------------------------------------------------------
(* The rows of definitions *)

LEMMA SemanticInitInv == SemanticInit => SemanticInv
<1> SUFFICES ASSUME SemanticInit PROVE SemanticInv
    OBVIOUS
<1>1. (CHOOSE m \in Models : TRUE) \in Models /\ 1 \in Versions
    BY SemanticAssumption DEF SemanticAssumption, Versions
<1>2. SemanticShape
    BY <1>1 DEF SemanticInit, SemanticShape
<1>3. Stored = {} /\ Approved = {}
    BY DEF SemanticInit, Stored, Approved
<1> QED
    BY <1>2, <1>3 DEF SemanticInit, SemanticInv, StoredAsListed, ApprovedOnItsRegistry, ProjectionsAreApproved

\* A validation renews a row and a read-back is recorded on it; neither
\* touches what was decided.
LEMMA RenewedRow ==
    ASSUME NEW r \in DefinitionRow, NEW t \in Nat
    PROVE  LET new == [r EXCEPT !.validated = t]
           IN  /\ new \in DefinitionRow /\ new.status = r.status /\ new.registry = r.registry
               /\ r.status = "approved" => new.check = r.check
BY DEF DefinitionRow

LEMMA ProjectedRow ==
    ASSUME NEW r \in DefinitionRow, r.status = "approved", NEW p \in Projection
    PROVE  LET new == [r EXCEPT !.projected = p]
           IN  /\ new \in DefinitionRow /\ new.status = r.status /\ new.registry = r.registry
               /\ new.check = r.check
BY DEF DefinitionRow

Advances ==
    /\ definitions' \in [Definitions \X Versions -> {None} \cup DefinitionRow]
    /\ \A dv \in Stored : dv \in Stored' /\ definitions'[dv].registry = definitions[dv].registry
    /\ \A dv \in Approved : dv \in Approved' /\ definitions'[dv].check = definitions[dv].check

\* Definitions advance while nothing is projected.
LEMMA AdvancesKeepsInv ==
    ASSUME SemanticInv, Advances, UNCHANGED <<config, vector, projecting, sclock>>,
           registryChecks' \subseteq RegistryCheck, contextJobs' \subseteq Approved',
           \A dv \in Stored' : dv \notin Stored => dv[2] = VersionIn[definitions'[dv].registry][dv[1]],
           \A dv \in Approved' : dv \notin Approved => definitions'[dv].check.registry = definitions'[dv].registry
    PROVE  SemanticInv'
<1>1. SemanticShape'
    BY DEF SemanticInv, SemanticShape, Advances
<1>2. StoredAsListed'
    BY DEF SemanticInv, StoredAsListed, Advances
<1>3. \A dv \in Approved : dv \in Stored /\ definitions'[dv].registry = definitions[dv].registry
    BY DEF Approved, Advances
<1>4. ApprovedOnItsRegistry'
    BY <1>3 DEF SemanticInv, ApprovedOnItsRegistry, Advances
<1>5. ProjectionsAreApproved'
    BY DEF SemanticInv, ProjectionsAreApproved, Advances
<1> QED
    BY <1>1, <1>2, <1>4, <1>5 DEF SemanticInv

LEMMA ValidateRegistryKeepsInv ==
    ASSUME SemanticInv, ValidateContextRegistry
    PROVE  SemanticInv'
<1> DEFINE registry == config[Server].registry
           fresh == [status |-> "pending", registry |-> registry, validated |-> sclock, projected |-> None]
<1>1. registry \in Versions /\ sclock \in Nat /\ definitions \in [Definitions \X Versions -> {None} \cup DefinitionRow]
    BY DEF SemanticInv, SemanticShape
<1>2. /\ \A dv \in Listed : definitions[dv] # None => definitions[dv].registry = registry
      /\ definitions' = [dv \in Definitions \X Versions |->
            IF dv \notin Listed THEN definitions[dv]
            ELSE IF definitions[dv] # None THEN [definitions[dv] EXCEPT !.validated = sclock]
            ELSE fresh]
      /\ registryChecks' = registryChecks \cup {[registry |-> registry, at |-> sclock]}
      /\ UNCHANGED <<config, configured, contextJobs, vector, projecting, sclock>>
    BY <1>1 DEF ValidateContextRegistry
<1>3. fresh \in DefinitionRow /\ fresh.status = "pending" /\ fresh.registry = registry
    BY <1>1 DEF DefinitionRow
<1>4. \A dv \in Listed : dv[2] = VersionIn[registry][dv[1]]
    BY DEF Listed
<1> HIDE DEF fresh, registry
<1>5. ASSUME NEW dv \in Stored
      PROVE  /\ definitions'[dv] \in DefinitionRow /\ definitions'[dv].registry = definitions[dv].registry
             /\ definitions'[dv].status = definitions[dv].status
             /\ definitions[dv].status = "approved" => definitions'[dv].check = definitions[dv].check
  <2>1. definitions[dv] \in DefinitionRow /\ definitions[dv] # None /\ dv \in Definitions \X Versions
      BY <1>1 DEF Stored
  <2>2. CASE dv \notin Listed
      BY <1>2, <2>1, <2>2
  <2>3. CASE dv \in Listed
    <3>1. definitions'[dv] = [definitions[dv] EXCEPT !.validated = sclock]
        BY <1>2, <2>1, <2>3
    <3> QED
        BY <1>1, <2>1, <3>1, RenewedRow
  <2> QED
      BY <2>2, <2>3
<1>6. ASSUME NEW dv \in Definitions \X Versions, dv \notin Stored
      PROVE  \/ definitions'[dv] = None
             \/ /\ definitions'[dv] \in DefinitionRow /\ definitions'[dv].status = "pending"
                /\ definitions'[dv].registry = registry /\ dv \in Listed
  <2>1. definitions[dv] = None
      BY <1>6 DEF Stored
  <2> QED
      BY <1>2, <1>3, <2>1
<1>7. DOMAIN definitions' = Definitions \X Versions /\ definitions' = [dv \in Definitions \X Versions |-> definitions'[dv]]
    BY <1>2
<1>8. definitions' \in [Definitions \X Versions -> {None} \cup DefinitionRow]
    BY <1>5, <1>6, <1>7
<1>9. Advances
  <2>1. \A dv \in Stored : dv \in Stored'
      BY <1>5, DefinitionRowAssumption DEF Stored, DefinitionRowAssumption
  <2>2. \A dv \in Approved : dv \in Approved' /\ definitions'[dv].check = definitions[dv].check
      BY <1>5, <2>1 DEF Approved
  <2> QED
      BY <1>5, <1>8, <2>1, <2>2 DEF Advances
<1>10. \A dv \in Stored' : dv \notin Stored => dv[2] = VersionIn[definitions'[dv].registry][dv[1]] /\ definitions'[dv].status = "pending"
    BY <1>4, <1>6 DEF Stored
<1>11. Approved' \subseteq Approved
  <2> SUFFICES ASSUME NEW dv \in Approved' PROVE dv \in Approved
      OBVIOUS
  <2>1. dv \in Stored' /\ definitions'[dv].status = "approved"
      BY DEF Approved
  <2>2. dv \in Stored
      BY <1>10, <2>1
  <2> QED
      BY <1>5, <2>1, <2>2 DEF Approved
<1>12. registryChecks' \subseteq RegistryCheck
  <2>1. [registry |-> registry, at |-> sclock] \in RegistryCheck
      BY <1>1 DEF RegistryCheck, registry
  <2> QED
      BY <1>2, <2>1 DEF SemanticInv, SemanticShape
<1>13. contextJobs' \subseteq Approved'
    BY <1>2, <1>9 DEF Advances, SemanticInv, ProjectionsAreApproved
<1> QED
    BY <1>2, <1>9, <1>10, <1>11, <1>12, <1>13, AdvancesKeepsInv

\* One row changes, to one that keeps its registry and, if it was approved,
\* its check.
LEMMA OneRowAdvances ==
    ASSUME SemanticInv, NEW dv \in Stored, NEW row \in DefinitionRow,
           definitions' = [definitions EXCEPT ![dv] = row], row.registry = definitions[dv].registry,
           definitions[dv].status = "approved" => row.status = "approved" /\ row.check = definitions[dv].check
    PROVE  /\ Advances /\ Stored' = Stored /\ definitions'[dv] = row
           /\ row.status = "approved" => Approved' = Approved \cup {dv}
           /\ row.status # "approved" => Approved' = Approved
<1>1. definitions \in [Definitions \X Versions -> {None} \cup DefinitionRow] /\ dv \in Definitions \X Versions
    BY DEF SemanticInv, SemanticShape, Stored
<1>2. row # None
    BY DefinitionRowAssumption DEF DefinitionRowAssumption
<1>3. /\ definitions' \in [Definitions \X Versions -> {None} \cup DefinitionRow]
      /\ \A e \in Definitions \X Versions : definitions'[e] = IF e = dv THEN row ELSE definitions[e]
    BY ONLY <1>1, row \in DefinitionRow, definitions' = [definitions EXCEPT ![dv] = row]
<1>4. Stored' = Stored
    BY <1>2, <1>3 DEF Stored
<1>5. \A e \in Stored : e \in Definitions \X Versions
    BY DEF Stored
<1> QED
    BY <1>1, <1>3, <1>4, <1>5 DEF Advances, Approved

LEMMA DecideDefinitionKeepsInv ==
    ASSUME SemanticInv, NEW dv \in Stored, NEW status \in {"approved", "rejected"}, NEW check \in registryChecks,
           DecideContextDefinition(dv, status, check)
    PROVE  SemanticInv'
<1> DEFINE r == definitions[dv]
           row == [status |-> status, registry |-> r.registry, validated |-> r.validated, projected |-> r.projected,
                   check |-> check]
<1>1. r \in DefinitionRow /\ r.status = "pending" /\ check \in RegistryCheck /\ dv \in Definitions \X Versions
      /\ definitions \in [Definitions \X Versions -> {None} \cup DefinitionRow]
    BY DEF SemanticInv, SemanticShape, Stored, DecideContextDefinition
<1>2. /\ definitions' = [definitions EXCEPT ![dv] = row] /\ r.registry = config[Server].registry
      /\ check.registry = config[Server].registry
      /\ contextJobs' = contextJobs \cup Enqueued(dv, status)
      /\ UNCHANGED <<config, configured, registryChecks, vector, projecting, sclock>>
    BY <1>1 DEF DecideContextDefinition, Evidence
<1>3. row \in DefinitionRow /\ row.registry = r.registry /\ row.status = status /\ row.check = check
    BY <1>1 DEF DefinitionRow
<1> HIDE DEF row
<1>4. /\ Advances /\ Stored' = Stored /\ definitions'[dv] = row
      /\ status = "approved" => Approved' = Approved \cup {dv}
      /\ status # "approved" => Approved' = Approved
    BY <1>1, <1>2, <1>3, OneRowAdvances
<1>5. contextJobs' \subseteq Approved'
    BY <1>2, <1>4 DEF Enqueued, SemanticInv, ProjectionsAreApproved
<1>6. \A e \in Approved' : e \notin Approved => definitions'[e].check.registry = definitions'[e].registry
    BY <1>2, <1>3, <1>4
<1> QED
    BY <1>2, <1>4, <1>5, <1>6, AdvancesKeepsInv DEF SemanticInv, SemanticShape

-----------------------------------------------------------------------------
(* Projection *)

\* The definitions stay, one projector moves.
LEMMA ProjectorKeepsInv ==
    ASSUME SemanticInv, NEW p \in Projectors, NEW w \in {None} \cup Job, w # None => w.of \in Approved /\ w.digest.version = w.of[2],
           projecting' = [projecting EXCEPT ![p] = w],
           UNCHANGED <<config, definitions, registryChecks, contextJobs, sclock>>,
           vector' \in [Definitions -> {None} \cup Digest],
           \A d \in Definitions : vector'[d] # None => <<d, vector'[d].version>> \in Approved
    PROVE  SemanticInv'
<1>1. Stored' = Stored /\ Approved' = Approved
    BY DEF Stored, Approved
<1>2. /\ projecting' \in [Projectors -> {None} \cup Job]
      /\ \A q \in Projectors : projecting'[q] = IF q = p THEN w ELSE projecting[q]
    BY DEF SemanticInv, SemanticShape
<1>3. SemanticShape'
    BY <1>2 DEF SemanticInv, SemanticShape
<1>4. StoredAsListed' /\ ApprovedOnItsRegistry'
    BY <1>1 DEF SemanticInv, StoredAsListed, ApprovedOnItsRegistry
<1>5. ProjectionsAreApproved'
    BY <1>1, <1>2 DEF SemanticInv, ProjectionsAreApproved
<1> QED
    BY <1>3, <1>4, <1>5 DEF SemanticInv

LEMMA ClaimKeepsInv ==
    ASSUME SemanticInv, NEW p \in Projectors, NEW dv \in Stored,
           indexDefinition(p, dv) \/ ClaimDefinitionRefresh(p, dv)
    PROVE  SemanticInv'
<1>1. dv \in Approved /\ dv \in Definitions \X Versions /\ definitions[dv] \in DefinitionRow /\ dv[2] \in Versions
    BY DEF indexDefinition, ClaimDefinitionRefresh, SemanticInv, ProjectionsAreApproved, SemanticShape, Stored, Approved
<1>2. config[p].model \in Models /\ definitions[dv].registry \in Versions
    BY <1>1 DEF SemanticInv, SemanticShape, DefinitionRow
<1> DEFINE digest == ProjectionDigest(dv, config[p].model)
<1>3. digest \in Digest /\ digest.version = dv[2]
    BY <1>1, <1>2 DEF ProjectionDigest, Digest
<1> HIDE DEF digest
<1>4. PICK step \in {"upsert", "verify"}, job \in BOOLEAN :
         /\ projecting' = [projecting EXCEPT ![p] = [step |-> step, of |-> dv, digest |-> digest, job |-> job]]
         /\ UNCHANGED <<config, configured, definitions, registryChecks, contextJobs, vector, sclock>>
    BY DEF indexDefinition, ClaimDefinitionRefresh, Work, digest
<1> DEFINE w == [step |-> step, of |-> dv, digest |-> digest, job |-> job]
<1>5. w \in Job /\ w.of = dv /\ w.digest = digest
    BY <1>1, <1>3 DEF Job
<1> HIDE DEF w
<1> QED
    BY <1>1, <1>3, <1>4, <1>5, ProjectorKeepsInv DEF SemanticInv, SemanticShape, ProjectionsAreApproved, w

\* The vector row is written, and read back.
LEMMA UpsertKeepsInv ==
    ASSUME SemanticInv, NEW p \in Projectors, UpsertDefinition(p) \/ VerifyDefinitionProjection(p)
    PROVE  SemanticInv'
<1>1. PICK w \in Job : w = projecting[p] /\ w # None /\ w.of \in Approved /\ w.digest.version = w.of[2]
    BY DEF UpsertDefinition, VerifyDefinitionProjection, SemanticInv, SemanticShape, ProjectionsAreApproved
<1>2. UNCHANGED <<config, definitions, registryChecks, contextJobs, sclock>>
    BY DEF UpsertDefinition, VerifyDefinitionProjection
<1>3. PICK d \in Definitions, v \in Versions : w.of = <<d, v>> /\ w.digest \in Digest /\ w.digest.version = v
    BY <1>1 DEF Job
<1>4. ASSUME NEW step \in {"verify", "record"}
      PROVE  LET new == [w EXCEPT !.step = step]
             IN  new \in Job /\ new.of = w.of /\ new.digest = w.digest
    BY DEF Job
<1>5. CASE UpsertDefinition(p)
  <2>1. vector' = [vector EXCEPT ![d] = w.digest] /\ projecting' = [projecting EXCEPT ![p] = [w EXCEPT !.step = "verify"]]
    <3>1. w.of[1] = d
        BY <1>3
    <3> QED
        BY <1>1, <1>5, <3>1 DEF UpsertDefinition, Work
  <2>2. vector' \in [Definitions -> {None} \cup Digest] /\ \A e \in Definitions : vector'[e] = IF e = d THEN w.digest ELSE vector[e]
      BY <1>3, <2>1 DEF SemanticInv, SemanticShape
  <2>3. \A e \in Definitions : vector'[e] # None => <<e, vector'[e].version>> \in Approved
      BY <1>1, <1>3, <2>2 DEF SemanticInv, ProjectionsAreApproved
  <2> DEFINE new == [w EXCEPT !.step = "verify"]
  <2>4. new \in Job /\ new.of = w.of /\ new.digest = w.digest
      BY <1>4
  <2> HIDE DEF new
  <2> QED
      BY <1>1, <1>2, <2>1, <2>2, <2>3, <2>4, ProjectorKeepsInv DEF new
<1>6. CASE VerifyDefinitionProjection(p)
  <2> DEFINE new == [w EXCEPT !.step = "record"]
  <2>1. new \in Job /\ new.of = w.of /\ new.digest = w.digest
      BY <1>4
  <2>2. UNCHANGED vector /\ projecting' = [projecting EXCEPT ![p] = IF ReadBackMatches(p) THEN new ELSE None]
      BY <1>1, <1>6 DEF VerifyDefinitionProjection, Work
  <2> HIDE DEF new
  <2>3. PICK x \in {None} \cup Job :
           /\ projecting' = [projecting EXCEPT ![p] = x] /\ (x # None => x.of \in Approved /\ x.digest.version = x.of[2])
      BY <1>1, <2>1, <2>2
  <2> QED
      BY <1>2, <2>2, <2>3, ProjectorKeepsInv DEF SemanticInv, SemanticShape, ProjectionsAreApproved
<1> QED
    BY <1>5, <1>6

\* A projection that was read back is recorded, unless its row lapsed.
LEMMA RecordKeepsInv ==
    ASSUME SemanticInv, NEW p \in Projectors, RecordDefinitionProjection(p)
    PROVE  SemanticInv'
<1>1. PICK w \in Job : w = projecting[p] /\ w # None
    BY DEF RecordDefinitionProjection, SemanticInv, SemanticShape
<1>2. PICK dv \in Definitions \X Versions, m \in Models : dv = w.of /\ m = w.digest.model
    BY DEF Job, Digest
<1>3. projecting' = [projecting EXCEPT ![p] = None] /\ UNCHANGED <<config, configured, registryChecks, vector, sclock>>
    BY DEF RecordDefinitionProjection, Work
<1>4. CASE UNCHANGED <<definitions, contextJobs>>
    BY <1>3, <1>4, ProjectorKeepsInv DEF SemanticInv, SemanticShape, ProjectionsAreApproved
<1>5. CASE /\ dv \in Approved
           /\ definitions' = [definitions EXCEPT ![dv].projected = [model |-> m, at |-> sclock]]
           /\ contextJobs' \subseteq contextJobs
  <2> DEFINE r == definitions[dv]
             row == [r EXCEPT !.projected = [model |-> m, at |-> sclock]]
  <2>1. dv \in Stored /\ r \in DefinitionRow /\ r.status = "approved"
      BY <1>5 DEF Approved, Stored, SemanticInv, SemanticShape
  <2>2. [model |-> m, at |-> sclock] \in Projection
      BY DEF Projection, SemanticInv, SemanticShape
  <2>3. row \in DefinitionRow /\ row.status = "approved" /\ row.registry = r.registry /\ row.check = r.check
      BY <2>1, <2>2, ProjectedRow
  <2>4. definitions' = [definitions EXCEPT ![dv] = row]
      BY <1>5
  <2> HIDE DEF row
  <2>5. Advances /\ Stored' = Stored /\ Approved' = Approved /\ definitions'[dv] = row
    <3>1. Advances /\ Stored' = Stored /\ definitions'[dv] = row /\ Approved' = Approved \cup {dv}
        BY <2>1, <2>3, <2>4, OneRowAdvances
    <3> QED
        BY <1>5, <3>1
  <2>6. SemanticShape'
      BY <1>3, <2>5 DEF SemanticInv, SemanticShape, Advances
  <2>7. StoredAsListed' /\ ApprovedOnItsRegistry'
      BY <2>5 DEF SemanticInv, StoredAsListed, ApprovedOnItsRegistry, Advances, Approved
  <2>8. ProjectionsAreApproved'
    <3>1. \A q \in Projectors : projecting'[q] = IF q = p THEN None ELSE projecting[q]
        BY <1>3 DEF SemanticInv, SemanticShape
    <3> QED
        BY <1>3, <1>5, <2>5, <3>1 DEF SemanticInv, ProjectionsAreApproved
  <2> QED
      BY <2>6, <2>7, <2>8 DEF SemanticInv
<1> QED
    BY <1>1, <1>2, <1>4, <1>5 DEF RecordDefinitionProjection

\* Jobs are made again, a program is configured anew, time passes.
LEMMA SemanticEnvironmentKeepsInv ==
    ASSUME SemanticInv,
           \/ RequeueContextDefinitions \/ SemanticTick
           \/ \E p \in Projectors \cup {Server}, r \in 1..MaxRegistry, m \in Models : Configure(p, r, m)
    PROVE  SemanticInv'
<1>1. UNCHANGED <<definitions, registryChecks, vector>> /\ sclock' \in Nat /\ contextJobs' \subseteq Approved
  <2>1. sclock \in Nat /\ contextJobs \subseteq Approved
      BY DEF SemanticInv, SemanticShape, ProjectionsAreApproved
  <2>2. CASE RequeueContextDefinitions
      BY <2>1, <2>2 DEF RequeueContextDefinitions
  <2>3. CASE SemanticTick
      BY <2>1, <2>3 DEF SemanticTick
  <2> QED
      BY <2>1, <2>2, <2>3 DEF Configure
<1>2. Stored' = Stored /\ Approved' = Approved
    BY <1>1 DEF Stored, Approved
<1>3. config' \in [Projectors \cup {Server} -> [registry : Versions, model : Models]]
  <2>1. config \in [Projectors \cup {Server} -> [registry : Versions, model : Models]]
      BY DEF SemanticInv, SemanticShape
  <2>2. CASE UNCHANGED config
      BY <2>1, <2>2
  <2>3. ASSUME NEW p \in Projectors \cup {Server}, NEW r \in 1..MaxRegistry, NEW m \in Models, Configure(p, r, m)
        PROVE  config' \in [Projectors \cup {Server} -> [registry : Versions, model : Models]]
    <3>1. [registry |-> r, model |-> m] \in [registry : Versions, model : Models]
        BY DEF Versions
    <3> QED
        BY <2>1, <2>3, <3>1 DEF Configure
  <2> QED
      BY <2>2, <2>3 DEF RequeueContextDefinitions, SemanticTick
<1>4. /\ projecting' \in [Projectors -> {None} \cup Job]
      /\ \A q \in Projectors : projecting'[q] \in {None, projecting[q]}
    BY DEF RequeueContextDefinitions, SemanticTick, Configure, SemanticInv, SemanticShape
<1>5. SemanticShape'
    BY <1>1, <1>3, <1>4 DEF SemanticInv, SemanticShape
<1>6. StoredAsListed' /\ ApprovedOnItsRegistry'
    BY <1>1, <1>2 DEF SemanticInv, StoredAsListed, ApprovedOnItsRegistry
<1>7. ProjectionsAreApproved'
    BY <1>1, <1>2, <1>4 DEF SemanticInv, ProjectionsAreApproved
<1> QED
    BY <1>5, <1>6, <1>7 DEF SemanticInv

LEMMA SemanticStepInv == SemanticInv /\ [SemanticNext]_semanticVars => SemanticInv'
<1> SUFFICES ASSUME SemanticInv, [SemanticNext]_semanticVars PROVE SemanticInv'
    OBVIOUS
<1>1. CASE UNCHANGED semanticVars
    BY <1>1
    DEF semanticVars, SemanticInv, SemanticShape, StoredAsListed, ApprovedOnItsRegistry, ProjectionsAreApproved, Stored,
        Approved
<1>2. CASE SemanticNext
    BY <1>2, ValidateRegistryKeepsInv, DecideDefinitionKeepsInv, ClaimKeepsInv, UpsertKeepsInv, RecordKeepsInv,
       SemanticEnvironmentKeepsInv
    DEF SemanticNext
<1> QED
    BY <1>1, <1>2

\* Approval, search and metric queries follow one registry, whatever
\* replicas of other registries and models project at the same time
\* (DecideContextDefinition, SearchContextDefinitions, QueryPlatformMetric).
THEOREM OneRegistry == SemanticSpec => []ContextFollowsTheRegistry
<1>1. SemanticInv => ContextFollowsTheRegistry
  <2> SUFFICES ASSUME SemanticInv PROVE SearchFollowsTheServer
      BY DEF SemanticInv, ContextFollowsTheRegistry
  <2>1. \A dv \in Approved : dv \in Stored /\ dv = <<dv[1], dv[2]>>
      BY DEF Approved, Stored
  <2>2. \A dv \in Approved : definitions[dv].registry = config[Server].registry =>
           dv = <<dv[1], VersionIn[config[Server].registry][dv[1]]>>
      BY <2>1 DEF SemanticInv, StoredAsListed
  <2>3. \A dv \in Approved : Admitted(dv) =>
           vector[dv[1]].version = dv[2] /\ vector[dv[1]].model = config[Server].model
      BY DEF Admitted, ProjectionDigest
  <2> QED
      BY <2>2, <2>3 DEF SearchFollowsTheServer, SearchContextDefinitions, QueryPlatformMetric, Admitted
<1> QED
    BY <1>1, SemanticInitInv, SemanticStepInv, PTL DEF SemanticSpec

\* Rows have the shapes of their tables; jobs and vectors are of approved
\* definitions (DecideContextDefinition, RequeueContextDefinitions).
THEOREM SemanticTypes == SemanticSpec => []SemanticTypeOK
<1>1. SemanticInv => SemanticTypeOK
    BY DEF SemanticInv, SemanticShape, ProjectionsAreApproved, SemanticTypeOK
<1> QED
    BY <1>1, SemanticInitInv, SemanticStepInv, PTL DEF SemanticSpec

-----------------------------------------------------------------------------
(* Folds over what a source returns *)

\* Induction on the natural numbers, for a set.
LEMMA NatSetInduction ==
    ASSUME NEW S, 0 \in S, \A n \in Nat : n \in S => n + 1 \in S
    PROVE  Nat \subseteq S
<1>. DEFINE R == {ss \in Nat \X Nat : ss[1] < ss[2]}
<1>1. IsWellFoundedOn(R, Nat)
  BY NatLessThanWellFounded DEF OpToRel
<1>. SUFFICES ASSUME Nat \ S # {} PROVE FALSE
  OBVIOUS
<1>2. PICK x \in Nat \ S : \A y \in Nat \ S : ~(<<y, x>> \in R)
  BY <1>1, WFMin
<1>3. x # 0 /\ x - 1 \in Nat /\ x - 1 < x
  BY <1>2
<1>4. <<x - 1, x>> \in R
  BY <1>2, <1>3
<1>5. x - 1 \in S
  BY <1>2, <1>3, <1>4
<1>. QED
  BY <1>2, <1>3, <1>5

\* A bounded set of numbers that is not empty has a greatest element.
LEMMA MaxIsIn ==
    ASSUME NEW n \in Nat, NEW T, T \subseteq 0 .. n, T # {}
    PROVE  Max(T) \in T /\ \A y \in T : y <= Max(T)
<1>. DEFINE N == {m \in Nat : \A U \in SUBSET (0 .. m) : U # {} => \E x \in U : \A y \in U : x >= y}
<1>1. 0 \in N
  <2>1. ASSUME NEW U \in SUBSET (0 .. 0), U # {} PROVE \E x \in U : \A y \in U : x >= y
    <3>1. \A y \in U : y = 0
      OBVIOUS
    <3>2. PICK u \in U : TRUE
      BY <2>1
    <3>3. \A y \in U : u >= y
      BY <3>1, <3>2
    <3>. QED
      BY <3>2, <3>3
  <2>. QED
    BY <2>1
<1>2. ASSUME NEW m \in Nat, m \in N PROVE m + 1 \in N
  <2>. SUFFICES ASSUME NEW U \in SUBSET (0 .. m + 1), U # {} PROVE \E x \in U : \A y \in U : x >= y
    OBVIOUS
  <2>1. CASE m + 1 \in U
    BY <2>1
  <2>2. CASE m + 1 \notin U
    <3>1. U \in SUBSET (0 .. m)
      BY <2>2
    <3>. QED
      BY <1>2, <3>1
  <2>. QED
    BY <2>1, <2>2
<1>3. Nat \subseteq N
  <2>. HIDE DEF N
  <2>. QED
    BY <1>1, <1>2, NatSetInduction
<1>4. \E x \in T : \A y \in T : x >= y
  BY <1>3
<1>5. Max(T) \in T /\ \A y \in T : Max(T) >= y
  BY <1>4, Zenon DEF Max
<1>6. \A y \in T : y \in Int
  OBVIOUS
<1>. QED
  BY <1>5, <1>6

\* The subsets of at most m positions.
UpTo(n, m) == {s \in SUBSET (1 .. n) : Cardinality(s) <= m}

\* f folds the entries of r into x.
Folds(f, D, x, r) ==
    f = [s \in D |-> IF s = {} THEN x ELSE Entry(f[s \ {Max(s)}], r[Max(s)].stream, r[Max(s)].entry)]

LEMMA LastTaken ==
    ASSUME NEW n \in Nat, NEW s \in SUBSET (1 .. n), s # {}
    PROVE  /\ Max(s) \in s /\ s \ {Max(s)} \in SUBSET (1 .. n)
           /\ Cardinality(s) \in Nat /\ Cardinality(s \ {Max(s)}) \in Nat
           /\ Cardinality(s \ {Max(s)}) = Cardinality(s) - 1
<1>1. Max(s) \in s
  <2>1. s \subseteq 0 .. n
    OBVIOUS
  <2>. QED
    BY <2>1, MaxIsIn
<1>2. IsFiniteSet(1 .. n)
  BY FS_Interval
<1>3. IsFiniteSet(s)
  BY <1>2, FS_Subset
<1>4. IsFiniteSet(s \ {Max(s)}) /\ Cardinality(s \ {Max(s)}) = Cardinality(s) - 1
  BY <1>1, <1>3, FS_RemoveElement
<1>5. Cardinality(s) \in Nat /\ Cardinality(s \ {Max(s)}) \in Nat
  BY <1>3, <1>4, FS_CardinalityType
<1>. QED
  BY <1>1, <1>4, <1>5

LEMMA SetsOfPositions ==
    ASSUME NEW n \in Nat
    PROVE  \A s \in SUBSET (1 .. n) : /\ Cardinality(s) \in Nat /\ Cardinality(s) <= n
                                      /\ Cardinality(s) = 0 <=> s = {}
<1>1. IsFiniteSet(1 .. n) /\ Cardinality(1 .. n) = n
  BY FS_Interval
<1>2. ASSUME NEW s \in SUBSET (1 .. n)
      PROVE  /\ Cardinality(s) \in Nat /\ Cardinality(s) <= n
             /\ Cardinality(s) = 0 <=> s = {}
  <2>1. IsFiniteSet(s) /\ Cardinality(s) <= n
    BY <1>1, FS_Subset
  <2>. QED
    BY <2>1, FS_CardinalityType, FS_EmptySet
<1>. QED
  BY <1>2

\* Such a function exists, up to every size.
LEMMA FoldUpToExists ==
    ASSUME NEW n \in Nat, NEW x, NEW r, NEW m \in Nat
    PROVE  \E f : Folds(f, UpTo(n, m), x, r)
<1>. DEFINE N == {k \in Nat : \E f : Folds(f, UpTo(n, k), x, r)}
<1>1. 0 \in N
  <2>1. \A s \in UpTo(n, 0) : s = {}
    BY SetsOfPositions DEF UpTo
  <2>2. PICK f : f = [s \in UpTo(n, 0) |-> x]
    OBVIOUS
  <2>3. f = [s \in UpTo(n, 0) |->
                IF s = {} THEN x ELSE Entry(f[s \ {Max(s)}], r[Max(s)].stream, r[Max(s)].entry)]
    BY <2>1, <2>2
  <2>. QED
    BY <2>3 DEF Folds
<1>2. ASSUME NEW k \in Nat, k \in N PROVE k + 1 \in N
  <2>1. PICK f : Folds(f, UpTo(n, k), x, r)
    BY <1>2
  <2>2. PICK h : h = [s \in UpTo(n, k + 1) |->
                         IF s = {} THEN x ELSE Entry(f[s \ {Max(s)}], r[Max(s)].stream, r[Max(s)].entry)]
    OBVIOUS
  <2>3. ASSUME NEW s \in UpTo(n, k) PROVE s \in UpTo(n, k + 1) /\ h[s] = f[s]
    <3>1. s \in UpTo(n, k + 1)
      BY SetsOfPositions DEF UpTo
    <3>2. f[s] = IF s = {} THEN x ELSE Entry(f[s \ {Max(s)}], r[Max(s)].stream, r[Max(s)].entry)
      BY <2>1 DEF Folds
    <3>. QED
      BY <2>2, <3>1, <3>2
  <2>4. ASSUME NEW s \in UpTo(n, k + 1)
        PROVE  h[s] = IF s = {} THEN x ELSE Entry(h[s \ {Max(s)}], r[Max(s)].stream, r[Max(s)].entry)
    <3>1. CASE s = {}
      BY <2>2, <3>1
    <3>2. CASE s # {}
      <4>1. s \ {Max(s)} \in UpTo(n, k)
        BY <3>2, LastTaken DEF UpTo
      <4>2. h[s \ {Max(s)}] = f[s \ {Max(s)}]
        BY <2>3, <4>1
      <4>. QED
        BY <2>2, <3>2, <4>2
    <3>. QED
      BY <3>1, <3>2
  <2>5. h = [s \in UpTo(n, k + 1) |-> h[s]]
    BY <2>2
  <2>6. h = [s \in UpTo(n, k + 1) |->
                IF s = {} THEN x ELSE Entry(h[s \ {Max(s)}], r[Max(s)].stream, r[Max(s)].entry)]
    BY <2>4, <2>5
  <2>. QED
    BY <2>6 DEF Folds
<1>3. Nat \subseteq N
  <2>. HIDE DEF N
  <2>. QED
    BY <1>1, <1>2, NatSetInduction
<1>. QED
  BY <1>3

LEMMA FoldExists ==
    ASSUME NEW n \in Nat, NEW x, NEW r
    PROVE  \E f : Folds(f, SUBSET (1 .. n), x, r)
<1>1. UpTo(n, n) = SUBSET (1 .. n)
  BY SetsOfPositions DEF UpTo
<1>2. \E f : Folds(f, UpTo(n, n), x, r)
  BY FoldUpToExists
<1>. QED
  BY <1>1, <1>2

\* What f folds, position by position.
Steps(f, n, x, r) == f[0] = x /\ \A k \in 1 .. n : f[k] = Entry(f[k - 1], r[k].stream, r[k].entry)

LEMMA FoldIsSteps ==
    ASSUME NEW n \in Nat, NEW x, NEW r, NEW f, Folds(f, SUBSET (1 .. n), x, r)
    PROVE  Steps([k \in 0 .. n |-> f[1 .. k]], n, x, r)
<1>1. PICK h : h = [k \in 0 .. n |-> f[1 .. k]]
  OBVIOUS
<1>2. h[0] = x
  <2>1. 1 .. 0 = {} /\ {} \in SUBSET (1 .. n)
    OBVIOUS
  <2>2. f[{}] = x
    BY <2>1 DEF Folds
  <2>. QED
    BY <1>1, <2>1, <2>2
<1>3. ASSUME NEW k \in 1 .. n PROVE h[k] = Entry(h[k - 1], r[k].stream, r[k].entry)
  <2>1. PICK s : s = 1 .. k
    OBVIOUS
  <2>2. s \in SUBSET (1 .. n) /\ s # {} /\ s \subseteq 0 .. n /\ k \in s /\ \A y \in s : y <= k
    BY <2>1
  <2>3. Max(s) \in s /\ \A y \in s : y <= Max(s)
    BY <2>2, MaxIsIn
  <2>4. Max(s) = k
    BY <2>1, <2>2, <2>3
  <2>5. s \ {k} = 1 .. (k - 1)
    BY <2>1
  <2>6. f[s] = Entry(f[s \ {Max(s)}], r[Max(s)].stream, r[Max(s)].entry)
    BY <2>2 DEF Folds
  <2>7. h[k] = f[s] /\ h[k - 1] = f[1 .. (k - 1)]
    BY <1>1, <2>1
  <2>. QED
    BY <2>4, <2>5, <2>6, <2>7
<1>. QED
  BY <1>1, <1>2, <1>3 DEF Steps

\* The fold over the entries of all streams ...
LEMMA EntriesFolded ==
    ASSUME NEW n \in Nat, NEW x, NEW r, DOMAIN r = 1 .. n
    PROVE  \E f : /\ Entries(x, r) = f[n]
                  /\ Steps(f, n, x, r)
<1>. DEFINE f == CHOOSE f : f = [s \in SUBSET DOMAIN r |->
                     IF s = {} THEN x ELSE Entry(f[s \ {Max(s)}], r[Max(s)].stream, r[Max(s)].entry)]
<1>1. \E h : Folds(h, SUBSET (1 .. n), x, r)
  BY FoldExists
<1>2. \E h : h = [s \in SUBSET DOMAIN r |->
                     IF s = {} THEN x ELSE Entry(h[s \ {Max(s)}], r[Max(s)].stream, r[Max(s)].entry)]
  BY <1>1 DEF Folds
<1>3. f = [s \in SUBSET DOMAIN r |->
              IF s = {} THEN x ELSE Entry(f[s \ {Max(s)}], r[Max(s)].stream, r[Max(s)].entry)]
  BY <1>2, Zenon
<1>4. Entries(x, r) = f[DOMAIN r]
  BY DEF Entries, FoldLeft, MapThenFoldSet
<1>. HIDE DEF f
<1>5. Folds(f, SUBSET (1 .. n), x, r)
  BY <1>3 DEF Folds
<1>6. PICK h : h = [k \in 0 .. n |-> f[1 .. k]]
  OBVIOUS
<1>7. Steps(h, n, x, r)
  BY <1>5, <1>6, FoldIsSteps
<1>8. h[n] = f[DOMAIN r]
  BY <1>6
<1>. QED
  BY <1>4, <1>7, <1>8

\* ... and the fold over rows, which are entries too.
LEMMA RowsFolded ==
    ASSUME NEW n \in Nat, NEW x, NEW events, DOMAIN events = 1 .. n, \A k \in 1 .. n : events[k] # None
    PROVE  \E f : /\ appendRows(x, events) = f[n]
                  /\ Steps(f, n, x, [k \in 1 .. n |-> [stream |-> None, entry |-> Event(events[k])]])
<1>0. PICK r : r = [k \in 1 .. n |-> [stream |-> None, entry |-> Event(events[k])]]
  OBVIOUS
<1>. DEFINE f == CHOOSE f : f = [s \in SUBSET DOMAIN events |->
                     IF s = {} THEN x ELSE appendRow(f[s \ {Max(s)}], events[Max(s)])]
<1>1. PICK h : Folds(h, SUBSET (1 .. n), x, r)
  BY FoldExists
<1>2. ASSUME NEW g
      PROVE  Folds(g, SUBSET (1 .. n), x, r) <=>
                 g = [s \in SUBSET DOMAIN events |->
                        IF s = {} THEN x ELSE appendRow(g[s \ {Max(s)}], events[Max(s)])]
  <2>1. ASSUME NEW s \in SUBSET (1 .. n), s # {}
        PROVE  Entry(g[s \ {Max(s)}], r[Max(s)].stream, r[Max(s)].entry) =
                   appendRow(g[s \ {Max(s)}], events[Max(s)])
    <3>1. Max(s) \in 1 .. n
      BY <2>1, LastTaken
    <3>2. r[Max(s)].entry = Event(events[Max(s)]) /\ events[Max(s)] # None
      BY <1>0, <3>1
    <3>3. Event(events[Max(s)]).event = events[Max(s)]
      BY DEF Event
    <3>. QED
      BY <3>2, <3>3 DEF Entry
  <2>. QED
    BY <2>1 DEF Folds
<1>3. \E g : g = [s \in SUBSET DOMAIN events |->
                    IF s = {} THEN x ELSE appendRow(g[s \ {Max(s)}], events[Max(s)])]
  BY <1>1, <1>2
<1>4. f = [s \in SUBSET DOMAIN events |->
              IF s = {} THEN x ELSE appendRow(f[s \ {Max(s)}], events[Max(s)])]
  BY <1>3, Zenon
<1>5. appendRows(x, events) = f[DOMAIN events]
  BY DEF appendRows, FoldLeft, MapThenFoldSet
<1>. HIDE DEF f
<1>6. Folds(f, SUBSET (1 .. n), x, r)
  BY <1>2, <1>4
<1>7. PICK g : g = [k \in 0 .. n |-> f[1 .. k]]
  OBVIOUS
<1>8. Steps(g, n, x, r)
  BY <1>6, <1>7, FoldIsSteps
<1>9. g[n] = f[DOMAIN events]
  BY <1>7
<1>. QED
  BY <1>0, <1>5, <1>8, <1>9

-----------------------------------------------------------------------------
(* What reading an entry does to an answer *)

EntryRecord == [event : SourceEvents, mark : {0}] \cup [event : {None}, mark : 1 .. 2]

\* A read in progress keeps to the limit.
ReadOK(x) == x \in ReadRecord /\ Len(x.rows) <= RowLimit

\* The events of the window among some entries.
WindowOf(L) == {e \in SourceEvents : InWindow(e) /\ \E r \in L : r.entry.event = e}

\* Between x and z the entries L were read: an answer that is still complete
\* has all their events of the window, and none has others; a watermark is one
\* of theirs.
ReadsInto(x, z, L) ==
    /\ ReadOK(z)
    /\ z.phase = x.phase /\ z.watermark = x.watermark /\ z.end = x.end /\ z.pos = x.pos /\ z.etag = x.etag
    /\ ToSet(z.rows) \subseteq ToSet(x.rows) \cup WindowOf(L)
    /\ z.complete => x.complete /\ ToSet(x.rows) \cup WindowOf(L) \subseteq ToSet(z.rows)
    /\ \A p \in Producers : z.marks[p] = x.marks[p] \/ \E r \in L : r.stream = p /\ r.entry = Mark(z.marks[p])

LEMMA AppendedSet ==
    ASSUME NEW s \in Seq(SourceEvents), NEW e \in SourceEvents
    PROVE  ToSet(Append(s, e)) = ToSet(s) \cup {e}
<1>1. Append(s, e) \in Seq(SourceEvents) /\ Len(Append(s, e)) = Len(s) + 1 /\ Len(s) \in Nat
  OBVIOUS
<1>2. \A i \in 1 .. Len(s) : Append(s, e)[i] = s[i]
  OBVIOUS
<1>3. Append(s, e)[Len(s) + 1] = e
  OBVIOUS
<1>4. DOMAIN s = 1 .. Len(s) /\ DOMAIN Append(s, e) = 1 .. Len(s) + 1
  BY <1>1
<1>. QED
  BY <1>1, <1>2, <1>3, <1>4 DEF ToSet

\* A watermark moves its stream's, or is behind it.
LEMMA MarkReads ==
    ASSUME NEW x, ReadOK(x), NEW p \in Producers, NEW t \in 1 .. 2
    PROVE  ReadsInto(x, Entry(x, p, Mark(t)), {[stream |-> p, entry |-> Mark(t)]})
<1>1. x.marks \in [Producers -> 0 .. 2] /\ x.marks[p] \in 0 .. 2
  BY DEF ReadOK, ReadRecord
<1>2. PICK m : m = Max({x.marks[p], t})
  OBVIOUS
<1>3. m \in {x.marks[p], t} /\ m \in 0 .. 2
  <2>1. {x.marks[p], t} \subseteq 0 .. 2 /\ {x.marks[p], t} # {}
    BY <1>1
  <2>2. Max({x.marks[p], t}) \in {x.marks[p], t}
    BY <2>1, MaxIsIn
  <2>. QED
    BY <1>2, <2>1, <2>2
<1>4. PICK f : f = [x.marks EXCEPT ![p] = m]
  OBVIOUS
<1>5. f \in [Producers -> 0 .. 2] /\ f[p] = m /\ \A q \in Producers : q # p => f[q] = x.marks[q]
  BY <1>1, <1>3, <1>4
<1>6. Entry(x, p, Mark(t)) = [x EXCEPT !.marks = f]
  <2>1. Mark(t).event = None /\ Mark(t).mark = t
    BY DEF Mark
  <2>2. [x EXCEPT !.marks[p] = m] = [x EXCEPT !.marks = f]
    BY <1>4 DEF ReadOK, ReadRecord
  <2>. QED
    BY <1>2, <2>1, <2>2 DEF Entry
<1>7. PICK z : z = [x EXCEPT !.marks = f]
  OBVIOUS
<1>8. /\ ReadOK(z) /\ z.marks = f
      /\ z.phase = x.phase /\ z.watermark = x.watermark /\ z.end = x.end /\ z.pos = x.pos /\ z.etag = x.etag
      /\ z.rows = x.rows /\ z.complete = x.complete
  BY <1>5, <1>7 DEF ReadOK, ReadRecord
<1>9. WindowOf({[stream |-> p, entry |-> Mark(t)]}) = {}
  BY SourceNoneAssumption DEF WindowOf, Mark
<1>10. ASSUME NEW q \in Producers
       PROVE  z.marks[q] = x.marks[q] \/ \E r \in {[stream |-> p, entry |-> Mark(t)]} : r.stream = q /\ r.entry = Mark(z.marks[q])
  <2>1. CASE q # p
    BY <1>5, <1>8, <2>1
  <2>2. CASE q = p /\ m = x.marks[p]
    BY <1>5, <1>8, <2>2
  <2>3. CASE q = p /\ m = t
    BY <1>5, <1>8, <2>3
  <2>. QED
    BY <1>3, <2>1, <2>2, <2>3
<1>. QED
  BY <1>6, <1>7, <1>8, <1>9, <1>10 DEF ReadsInto

\* An event becomes a row, is outside the window or makes the answer partial.
LEMMA EventReads ==
    ASSUME NEW x, ReadOK(x), NEW p, NEW e \in SourceEvents
    PROVE  ReadsInto(x, Entry(x, p, Event(e)), {[stream |-> p, entry |-> Event(e)]})
<1>0. PICK L : L = {[stream |-> p, entry |-> Event(e)]}
  OBVIOUS
<1>1. Event(e).event = e /\ e # None
  BY SourceNoneAssumption DEF Event
<1>2. Entry(x, p, Event(e)) = appendRow(x, e)
  BY <1>1 DEF Entry
<1>3. WindowOf(L) = IF InWindow(e) THEN {e} ELSE {}
  BY <1>0, <1>1 DEF WindowOf
<1>4. x \in ReadRecord /\ x.rows \in Seq(SourceEvents) /\ Len(x.rows) \in Nat /\ RowLimit \in Nat
  BY SourceAssumption DEF ReadOK, ReadRecord
<1>5. CASE ~InWindow(e)
  <2>1. appendRow(x, e) = x
    BY <1>5 DEF appendRow
  <2>. QED
    BY <1>0, <1>2, <1>3, <1>5, <2>1 DEF ReadsInto
<1>6. CASE InWindow(e) /\ Len(x.rows) >= RowLimit
  <2>1. appendRow(x, e) = [x EXCEPT !.complete = FALSE]
    BY <1>6 DEF appendRow
  <2>2. PICK z : z = [x EXCEPT !.complete = FALSE]
    OBVIOUS
  <2>3. /\ ReadOK(z) /\ z.marks = x.marks /\ z.complete = FALSE
        /\ z.phase = x.phase /\ z.watermark = x.watermark /\ z.end = x.end /\ z.pos = x.pos /\ z.etag = x.etag
        /\ z.rows = x.rows
    BY <1>4, <2>2 DEF ReadOK, ReadRecord
  <2>. QED
    BY <1>0, <1>2, <2>1, <2>2, <2>3 DEF ReadsInto
<1>7. CASE InWindow(e) /\ ~(Len(x.rows) >= RowLimit)
  <2>1. appendRow(x, e) = [x EXCEPT !.rows = Append(x.rows, e)]
    BY <1>4, <1>7 DEF appendRow, ReadRecord
  <2>2. PICK s : s = Append(x.rows, e)
    OBVIOUS
  <2>3. s \in Seq(SourceEvents) /\ Len(s) <= RowLimit /\ ToSet(s) = ToSet(x.rows) \cup {e}
    BY <1>4, <1>7, <2>2, AppendedSet
  <2>4. PICK z : z = [x EXCEPT !.rows = s]
    OBVIOUS
  <2>5. /\ ReadOK(z) /\ z.marks = x.marks /\ z.complete = x.complete
        /\ z.phase = x.phase /\ z.watermark = x.watermark /\ z.end = x.end /\ z.pos = x.pos /\ z.etag = x.etag
        /\ z.rows = s
    BY <1>4, <2>3, <2>4 DEF ReadOK, ReadRecord
  <2>. QED
    BY <1>0, <1>2, <1>3, <1>7, <2>1, <2>2, <2>3, <2>4, <2>5 DEF ReadsInto
<1>. QED
  BY <1>5, <1>6, <1>7

\* Reading on.
LEMMA ReadsOn ==
    ASSUME NEW x, NEW y, NEW z, NEW L, NEW M, ReadsInto(x, y, L), ReadsInto(y, z, M)
    PROVE  ReadsInto(x, z, L \cup M)
<1>1. WindowOf(L \cup M) = WindowOf(L) \cup WindowOf(M)
  BY DEF WindowOf
<1>2. ASSUME NEW p \in Producers
      PROVE  z.marks[p] = x.marks[p] \/ \E r \in L \cup M : r.stream = p /\ r.entry = Mark(z.marks[p])
  BY DEF ReadsInto
<1>. QED
  BY <1>1, <1>2 DEF ReadsInto

\* Entries with their stream; of an event any will do.
IsEntry(r) ==
    /\ r = [stream |-> r.stream, entry |-> r.entry]
    /\ \/ \E e \in SourceEvents : r.entry = Event(e)
       \/ r.stream \in Producers /\ \E t \in 1 .. 2 : r.entry = Mark(t)

\* The entries of a fold are all read.
LEMMA StepsRead ==
    ASSUME NEW x, ReadOK(x), NEW n \in Nat, NEW r, NEW f, Steps(f, n, x, r),
           \A k \in 1 .. n : IsEntry(r[k]), NEW L, L = {r[k] : k \in 1 .. n}
    PROVE  ReadsInto(x, f[n], L)
<1>. DEFINE N == {m \in Nat : m <= n => ReadsInto(x, f[m], {r[k] : k \in 1 .. m})}
<1>1. 0 \in N
  <2>1. {r[k] : k \in 1 .. 0} = {}
    OBVIOUS
  <2>2. WindowOf({}) = {}
    BY DEF WindowOf
  <2>3. ReadsInto(x, x, {})
    BY <2>2 DEF ReadsInto
  <2>. QED
    BY <2>1, <2>3 DEF Steps
<1>2. ASSUME NEW m \in Nat, m \in N PROVE m + 1 \in N
  <2>. SUFFICES ASSUME m + 1 <= n PROVE ReadsInto(x, f[m + 1], {r[k] : k \in 1 .. m + 1})
    OBVIOUS
  <2>1. PICK j : j = m + 1
    OBVIOUS
  <2>2. j \in 1 .. n /\ j - 1 = m /\ m <= n
    BY <2>1
  <2>3. f[j] = Entry(f[m], r[j].stream, r[j].entry)
    BY <2>2 DEF Steps
  <2>4. ReadsInto(x, f[m], {r[k] : k \in 1 .. m}) /\ ReadOK(f[m])
    BY <1>2, <2>2 DEF ReadsInto
  <2>5. ReadsInto(f[m], f[j], {r[j]})
    <3>1. r[j] = [stream |-> r[j].stream, entry |-> r[j].entry]
      BY <2>2 DEF IsEntry
    <3>2. CASE \E e \in SourceEvents : r[j].entry = Event(e)
      <4>1. PICK e \in SourceEvents : r[j].entry = Event(e)
        BY <3>2
      <4>2. ReadsInto(f[m], Entry(f[m], r[j].stream, Event(e)), {[stream |-> r[j].stream, entry |-> Event(e)]})
        BY <2>4, EventReads
      <4>. QED
        BY <2>3, <3>1, <4>1, <4>2
    <3>3. CASE r[j].stream \in Producers /\ \E t \in 1 .. 2 : r[j].entry = Mark(t)
      <4>1. PICK t \in 1 .. 2 : r[j].entry = Mark(t)
        BY <3>3
      <4>2. ReadsInto(f[m], Entry(f[m], r[j].stream, Mark(t)), {[stream |-> r[j].stream, entry |-> Mark(t)]})
        BY <2>4, <3>3, MarkReads
      <4>. QED
        BY <2>3, <3>1, <4>1, <4>2
    <3>. QED
      BY <2>2, <3>2, <3>3 DEF IsEntry
  <2>6. {r[k] : k \in 1 .. m} \cup {r[j]} = {r[k] : k \in 1 .. j}
    BY <2>1
  <2>7. ReadsInto(x, f[j], {r[k] : k \in 1 .. m} \cup {r[j]})
    BY <2>4, <2>5, ReadsOn
  <2>. QED
    BY <2>1, <2>6, <2>7
<1>3. Nat \subseteq N
  <2>. HIDE DEF N
  <2>. QED
    BY <1>1, <1>2, NatSetInduction
<1>4. n \in N
  <2>. HIDE DEF N
  <2>. QED
    BY <1>3
<1>. QED
  BY <1>4

-----------------------------------------------------------------------------
(* What producers write *)

\* Once a producer has promised the end of the window it only repeats events
\* of the window.
LogOrdered(s) ==
    /\ s \in Seq(EntryRecord)
    /\ \A i, j \in DOMAIN s : s[i] = Mark(2) /\ s[j].event \in SourceEvents /\ InWindow(s[j].event) =>
          \E k \in DOMAIN s : k < i /\ s[k].event = s[j].event

WindowIn(s) == {e \in SourceEvents : InWindow(e) /\ \E i \in DOMAIN s : s[i].event = e}

\* What is in a log stays, and a producer that promised the end of the window
\* adds no event to it.
LogGrows(s, t) ==
    /\ Len(s) <= Len(t) /\ \A i \in 1 .. Len(s) : t[i] = s[i]
    /\ WindowIn(s) \subseteq WindowIn(t)
    /\ MarkIn(s) = 2 => MarkIn(t) = 2 /\ WindowIn(t) = WindowIn(s)

LEMMA EntryShape ==
    ASSUME NEW e \in EntryRecord
    PROVE  /\ e.mark \in 0 .. 2 /\ e.event \in SourceEvents \cup {None}
           /\ \/ e.event \in SourceEvents /\ e = Event(e.event) /\ e.event # None /\ e.mark = 0
              \/ e.event = None /\ e.mark \in 1 .. 2 /\ e = Mark(e.mark)
           /\ e.mark = 2 <=> e = Mark(2)
<1>1. CASE e \in [event : SourceEvents, mark : {0}]
  BY <1>1, SourceNoneAssumption DEF Event, Mark, Epoch
<1>2. CASE e \in [event : {None}, mark : 1 .. 2]
  BY <1>2 DEF Event, Mark
<1>. QED
  BY <1>1, <1>2 DEF EntryRecord

LEMMA MarkIsIn ==
    ASSUME NEW s \in Seq(EntryRecord)
    PROVE  /\ MarkIn(s) \in 0 .. 2
           /\ \A i \in DOMAIN s : s[i].mark <= MarkIn(s)
           /\ MarkIn(s) = 2 <=> \E i \in DOMAIN s : s[i] = Mark(2)
<1>0. \A i \in DOMAIN s : s[i] \in EntryRecord
  OBVIOUS
<1>1. PICK T : T = {Epoch} \cup {s[i].mark : i \in DOMAIN s}
  OBVIOUS
<1>2. T \subseteq 0 .. 2 /\ T # {}
  BY <1>0, <1>1, EntryShape DEF Epoch
<1>3. Max(T) \in T /\ \A y \in T : y <= Max(T)
  BY <1>2, MaxIsIn
<1>4. MarkIn(s) = Max(T)
  BY <1>1 DEF MarkIn
<1>5. MarkIn(s) \in 0 .. 2
  BY <1>2, <1>3, <1>4
<1>6. \A i \in DOMAIN s : s[i].mark \in T
  BY <1>1
<1>7. ASSUME MarkIn(s) = 2 PROVE \E i \in DOMAIN s : s[i] = Mark(2)
  <2>1. 2 \in T
    BY <1>3, <1>4, <1>7
  <2>2. PICK i \in DOMAIN s : s[i].mark = 2
    BY <1>1, <2>1 DEF Epoch
  <2>. QED
    BY <1>0, <2>2, EntryShape
<1>8. ASSUME NEW i \in DOMAIN s, s[i] = Mark(2) PROVE MarkIn(s) = 2
  <2>1. 2 \in T
    BY <1>6, <1>8 DEF Mark
  <2>. QED
    BY <1>3, <1>4, <1>5, <2>1
<1>. QED
  BY <1>3, <1>4, <1>5, <1>6, <1>7, <1>8

\* One more entry.
LEMMA AppendGrows ==
    ASSUME NEW s, LogOrdered(s), NEW e \in EntryRecord, NEW t, t = Append(s, e),
           e.event \in SourceEvents /\ InWindow(e.event) /\ MarkIn(s) = 2 => \E i \in DOMAIN s : s[i].event = e.event
    PROVE  LogOrdered(t) /\ LogGrows(s, t)
<1>1. s \in Seq(EntryRecord) /\ t \in Seq(EntryRecord)
  BY DEF LogOrdered
<1>2. PICK n \in Nat : n = Len(s)
  BY <1>1
<1>3. /\ Len(t) = n + 1 /\ DOMAIN s = 1 .. n /\ DOMAIN t = 1 .. n + 1
      /\ \A i \in 1 .. n : t[i] = s[i]
      /\ t[n + 1] = e
  BY <1>1, <1>2
<1>4. ASSUME MarkIn(s) = 2 PROVE MarkIn(t) = 2
  <2>1. PICK i \in DOMAIN s : s[i] = Mark(2)
    BY <1>1, <1>4, MarkIsIn
  <2>2. i \in DOMAIN t /\ t[i] = Mark(2)
    BY <1>3, <2>1
  <2>. QED
    BY <1>1, <2>2, MarkIsIn
<1>5. WindowIn(s) \subseteq WindowIn(t)
  BY <1>3 DEF WindowIn
<1>6. ASSUME MarkIn(s) = 2 PROVE WindowIn(t) \subseteq WindowIn(s)
  <2>. SUFFICES ASSUME NEW d \in WindowIn(t) PROVE d \in WindowIn(s)
    OBVIOUS
  <2>1. PICK i \in 1 .. n + 1 : t[i].event = d
    BY <1>3 DEF WindowIn
  <2>2. d \in SourceEvents /\ InWindow(d)
    BY DEF WindowIn
  <2>3. CASE i = n + 1
    BY <1>3, <1>6, <2>1, <2>2, <2>3 DEF WindowIn
  <2>4. CASE i # n + 1
    <3>1. i \in 1 .. n
      BY <2>4
    <3>. QED
      BY <1>3, <2>1, <2>2, <3>1 DEF WindowIn
  <2>. QED
    BY <2>3, <2>4
<1>7. ASSUME NEW i \in 1 .. n + 1, NEW j \in 1 .. n + 1, t[i] = Mark(2),
             t[j].event \in SourceEvents, InWindow(t[j].event)
      PROVE  \E k \in 1 .. n + 1 : k < i /\ t[k].event = t[j].event
  <2>1. t[j].event \in WindowIn(s) \/ j = n + 1
    <3>1. j # n + 1 => j \in 1 .. n
      OBVIOUS
    <3>. QED
      BY <1>3, <1>7, <3>1 DEF WindowIn
  <2>2. CASE i = n + 1
    <3>1. e = Mark(2)
      BY <1>3, <1>7, <2>2
    <3>2. j # n + 1
      BY <1>3, <1>7, <3>1, SourceNoneAssumption DEF Mark
    <3>. QED
      BY <1>3, <2>2, <3>2
  <2>3. CASE i # n + 1
    <3>1. i \in 1 .. n /\ s[i] = Mark(2)
      BY <1>3, <1>7, <2>3
    <3>2. MarkIn(s) = 2
      BY <1>1, <1>3, <3>1, MarkIsIn
    <3>3. t[j].event \in WindowIn(s)
      BY <1>3, <1>6, <1>7, <3>2 DEF WindowIn
    <3>4. PICK m \in 1 .. n : s[m].event = t[j].event
      BY <1>3, <3>3 DEF WindowIn
    <3>5. PICK k \in 1 .. n : k < i /\ s[k].event = s[m].event
      <4>1. i \in DOMAIN s /\ m \in DOMAIN s /\ s[m].event \in SourceEvents /\ InWindow(s[m].event)
        BY <1>3, <1>7, <3>1, <3>4
      <4>. QED
        BY <1>3, <3>1, <4>1 DEF LogOrdered
    <3>. QED
      BY <1>3, <3>4, <3>5
  <2>. QED
    BY <2>2, <2>3
<1>8. LogOrdered(t)
  BY <1>1, <1>3, <1>7 DEF LogOrdered
<1>. QED
  <2>1. Len(s) <= Len(t) /\ \A i \in 1 .. Len(s) : t[i] = s[i]
    BY <1>2, <1>3
  <2>. QED
    BY <1>4, <1>5, <1>6, <1>8, <2>1 DEF LogGrows

\* The events of the window are those of the logs.
LEMMA WindowOfLogs ==
    ASSUME log \in [Producers -> Seq(EntryRecord)]
    PROVE  WindowEvents = UNION {WindowIn(log[p]) : p \in Producers}
<1>1. ASSUME NEW p \in Producers PROVE {e \in WrittenBy(p) : InWindow(e)} = WindowIn(log[p])
  <2>1. \A i \in DOMAIN log[p] : log[p][i] \in EntryRecord
    OBVIOUS
  <2>2. \A i \in DOMAIN log[p] : log[p][i].event \in SourceEvents \cup {None}
    BY <2>1, EntryShape
  <2>. QED
    BY <2>2, SourceNoneAssumption DEF WrittenBy, WindowIn
<1>. QED
  BY <1>1 DEF WindowEvents

\* They are finitely many.
LEMMA WindowIsFinite ==
    ASSUME log \in [Producers -> Seq(EntryRecord)]
    PROVE  IsFiniteSet(WindowEvents) /\ WindowEvents \subseteq SourceEvents
<1>1. ASSUME NEW p \in Producers PROVE IsFiniteSet(WindowIn(log[p]))
  <2>1. PICK n \in Nat : n = Len(log[p])
    OBVIOUS
  <2>2. DOMAIN log[p] = 1 .. n /\ IsFiniteSet(1 .. n)
    BY <2>1, FS_Interval
  <2>3. PICK f : f = [i \in 1 .. n |-> log[p][i].event]
    OBVIOUS
  <2>4. PICK S : S = {log[p][i].event : i \in 1 .. n}
    OBVIOUS
  <2>5. f \in Surjection(1 .. n, S)
    BY <2>3, <2>4 DEF Surjection
  <2>6. IsFiniteSet(S)
    BY <2>2, <2>5, FS_Surjection
  <2>7. WindowIn(log[p]) \in SUBSET S
    BY <2>2, <2>4 DEF WindowIn
  <2>. QED
    BY <2>6, <2>7, FS_Subset
<1>2. PICK f : f = [p \in Producers |-> WindowIn(log[p])]
  OBVIOUS
<1>3. PICK S : S = {WindowIn(log[p]) : p \in Producers}
  OBVIOUS
<1>4. f \in Surjection(Producers, S)
  BY <1>2, <1>3 DEF Surjection
<1>5. IsFiniteSet(S)
  BY <1>4, FS_Surjection, SourceAssumption
<1>6. \A T \in S : IsFiniteSet(T)
  BY <1>1, <1>3
<1>7. IsFiniteSet(UNION S)
  BY <1>5, <1>6, FS_UNION
<1>. QED
  BY <1>3, <1>7, WindowOfLogs DEF WindowIn

-----------------------------------------------------------------------------
(* What a source returns *)

LEMMA SetToSeqIs ==
    ASSUME NEW S, IsFiniteSet(S)
    PROVE  /\ SetToSeq(S) \in Seq(S) /\ Len(SetToSeq(S)) = Cardinality(S) /\ Cardinality(S) \in Nat
           /\ DOMAIN SetToSeq(S) = 1 .. Cardinality(S)
           /\ ToSet(SetToSeq(S)) = S
<1>1. PICK n \in Nat : n = Cardinality(S)
  BY FS_CardinalityType
<1>2. PICK g : g \in Bijection(1 .. n, S)
  BY <1>1, FS_CardinalityType DEF ExistsBijection
<1>3. g \in [1 .. n -> S] /\ IsInjective(g)
  BY <1>2 DEF Bijection, Injection, IsInjective
<1>4. PICK f : f = SetToSeq(S)
  OBVIOUS
<1>5. f \in [1 .. n -> S] /\ IsInjective(f)
  <2>1. \E h \in [1 .. n -> S] : IsInjective(h)
    BY <1>3
  <2>2. f = CHOOSE h \in [1 .. n -> S] : IsInjective(h)
    BY <1>1, <1>4 DEF SetToSeq
  <2>. QED
    BY <2>1, <2>2, Zenon
<1>6. f \in Injection(1 .. n, S)
  BY <1>5 DEF Injection
<1>7. IsFiniteSet(1 .. n) /\ Cardinality(1 .. n) = n
  BY FS_Interval
<1>8. f \in Surjection(1 .. n, S)
  BY <1>1, <1>6, <1>7, FS_Injection
<1>9. \A x \in S : \E i \in 1 .. n : f[i] = x
  BY <1>8 DEF Surjection
<1>10. f \in Seq(S) /\ Len(f) = n /\ DOMAIN f = 1 .. n
  BY <1>5
<1>11. ToSet(f) = S
  BY <1>5, <1>9, <1>10 DEF ToSet
<1>. QED
  BY <1>1, <1>4, <1>10, <1>11

LEMMA MinIsIn ==
    ASSUME NEW a \in Int, NEW b \in Int
    PROVE  Min({a, b}) \in {a, b} /\ Min({a, b}) <= a /\ Min({a, b}) <= b
<1>1. \E x \in {a, b} : \A y \in {a, b} : x =< y
  <2>1. CASE a <= b
    BY <2>1
  <2>2. CASE b <= a
    BY <2>2
  <2>. QED
    BY <2>1, <2>2
<1>2. Min({a, b}) \in {a, b} /\ \A y \in {a, b} : Min({a, b}) =< y
  BY <1>1, Zenon DEF Min
<1>. QED
  BY <1>2

LEMMA PrefixIs ==
    ASSUME NEW R, NEW s \in Seq(R), NEW k \in Nat, k <= Len(s)
    PROVE  /\ SubSeq(s, 1, k) \in Seq(R) /\ Len(SubSeq(s, 1, k)) = k
           /\ \A i \in 1 .. k : SubSeq(s, 1, k)[i] = s[i]
  OBVIOUS

\* The first m of a sequence: all of it if there are no more.
FirstRows(s, m) == SubSeq(s, 1, Min({Len(s), m}))

LEMMA FirstOf ==
    ASSUME NEW R, NEW s \in Seq(R), NEW m \in Nat, NEW t, t = FirstRows(s, m)
    PROVE  /\ t \in Seq(R) /\ ToSet(t) \subseteq ToSet(s) /\ Len(t) <= Len(s)
           /\ Len(t) < m \/ Len(s) <= m => t = s
<1>1. PICK n \in Nat : n = Len(s)
  OBVIOUS
<1>2. PICK k : k = Min({n, m})
  OBVIOUS
<1>3. k \in {n, m} /\ k <= n /\ k <= m /\ k \in Nat
  <2>1. n \in Int /\ m \in Int
    OBVIOUS
  <2>2. k \in {n, m} /\ k <= n /\ k <= m
    BY <1>2, <2>1, MinIsIn
  <2>. QED
    BY <2>2
<1>4. t = SubSeq(s, 1, k)
  BY <1>1, <1>2 DEF FirstRows
<1>5. t \in Seq(R) /\ Len(t) = k /\ \A i \in 1 .. k : t[i] = s[i]
  <2>1. k <= Len(s) /\ k \in Nat
    BY <1>1, <1>3
  <2>2. /\ SubSeq(s, 1, k) \in Seq(R) /\ Len(SubSeq(s, 1, k)) = k
        /\ \A i \in 1 .. k : SubSeq(s, 1, k)[i] = s[i]
    BY <2>1, PrefixIs, Zenon
  <2>. QED
    BY <1>4, <2>2, Zenon
<1>6. ToSet(t) \subseteq ToSet(s)
  <2>1. DOMAIN t = 1 .. k /\ DOMAIN s = 1 .. n /\ 1 .. k \subseteq 1 .. n
    BY <1>1, <1>3, <1>5
  <2>. QED
    BY <1>5, <2>1 DEF ToSet
<1>7. ASSUME Len(t) < m \/ Len(s) <= m PROVE t = s
  <2>1. k = n
    BY <1>1, <1>3, <1>5, <1>7
  <2>2. Len(t) = Len(s) /\ \A i \in 1 .. Len(s) : t[i] = s[i]
    BY <1>1, <1>5, <2>1
  <2>. QED
    BY <1>5, <2>2, SeqEqual
<1>. QED
  BY <1>1, <1>3, <1>5, <1>6, <1>7

\* f joins the sequences of q one after the other.
Join(s, t) == s \o t
Joins(f, n, q) == f = [i \in 1 .. n |-> IF i = 1 THEN q[i] ELSE Join(f[i - 1], q[i])]

LEMMA JoinExists ==
    ASSUME NEW q, NEW n \in Nat
    PROVE  \E f : Joins(f, n, q)
<1>. DEFINE N == {m \in Nat : \E f : Joins(f, m, q)}
<1>1. 0 \in N
  <2>1. 1 .. 0 = {}
    OBVIOUS
  <2>2. PICK f : f = [i \in 1 .. 0 |-> {}]
    OBVIOUS
  <2>3. f = [i \in 1 .. 0 |-> IF i = 1 THEN q[i] ELSE Join(f[i - 1], q[i])]
    BY <2>1, <2>2
  <2>. QED
    BY <2>3 DEF Joins
<1>2. ASSUME NEW m \in Nat, m \in N PROVE m + 1 \in N
  <2>1. PICK f : Joins(f, m, q)
    BY <1>2
  <2>2. PICK h : h = [i \in 1 .. m + 1 |-> IF i = 1 THEN q[i] ELSE Join(f[i - 1], q[i])]
    OBVIOUS
  <2>3. ASSUME NEW i \in 1 .. m PROVE h[i] = f[i]
    BY <2>1, <2>2 DEF Joins
  <2>4. ASSUME NEW i \in 1 .. m + 1 PROVE h[i] = IF i = 1 THEN q[i] ELSE Join(h[i - 1], q[i])
    <3>1. CASE i = 1
      BY <2>2, <3>1
    <3>2. CASE i # 1
      <4>1. i - 1 \in 1 .. m
        BY <3>2
      <4>2. h[i - 1] = f[i - 1]
        BY <2>3, <4>1
      <4>. QED
        BY <2>2, <3>2, <4>2
    <3>. QED
      BY <3>1, <3>2
  <2>5. h = [i \in 1 .. m + 1 |-> h[i]]
    BY <2>2
  <2>6. h = [i \in 1 .. m + 1 |-> IF i = 1 THEN q[i] ELSE Join(h[i - 1], q[i])]
    BY <2>4, <2>5
  <2>. QED
    BY <2>6 DEF Joins
<1>3. Nat \subseteq N
  <2>. HIDE DEF N
  <2>. QED
    BY <1>1, <1>2, NatSetInduction
<1>4. n \in N
  <2>. HIDE DEF N
  <2>. QED
    BY <1>3
<1>. QED
  BY <1>4

LEMMA ConcatSet ==
    ASSUME NEW R, NEW s \in Seq(R), NEW t \in Seq(R)
    PROVE  s \o t \in Seq(R) /\ ToSet(s \o t) = ToSet(s) \cup ToSet(t)
<1>1. PICK u : u = s \o t
  OBVIOUS
<1>2. PICK m \in Nat : m = Len(s)
  OBVIOUS
<1>3. PICK n \in Nat : n = Len(t)
  OBVIOUS
<1>4. /\ u \in Seq(R) /\ Len(u) = m + n
      /\ \A i \in 1 .. m + n : u[i] = IF i <= m THEN s[i] ELSE t[i - m]
  BY <1>1, <1>2, <1>3
<1>5. DOMAIN u = 1 .. m + n /\ DOMAIN s = 1 .. m /\ DOMAIN t = 1 .. n
  BY <1>2, <1>3, <1>4
<1>6. ToSet(u) \subseteq ToSet(s) \cup ToSet(t)
  <2>. SUFFICES ASSUME NEW i \in 1 .. m + n PROVE u[i] \in ToSet(s) \cup ToSet(t)
    BY <1>5 DEF ToSet
  <2>1. CASE i <= m
    <3>1. i \in 1 .. m /\ u[i] = s[i]
      BY <1>4, <2>1
    <3>. QED
      BY <1>5, <3>1 DEF ToSet
  <2>2. CASE ~(i <= m)
    <3>1. i - m \in 1 .. n
      BY <2>2
    <3>2. u[i] = t[i - m]
      BY <1>4, <2>2
    <3>. QED
      BY <1>5, <3>1, <3>2 DEF ToSet
  <2>. QED
    BY <2>1, <2>2
<1>7. ToSet(s) \subseteq ToSet(u)
  BY <1>4, <1>5 DEF ToSet
<1>8. ToSet(t) \subseteq ToSet(u)
  <2>. SUFFICES ASSUME NEW i \in 1 .. n PROVE t[i] \in ToSet(u)
    BY <1>5 DEF ToSet
  <2>1. PICK j : j = m + i
    OBVIOUS
  <2>2. j \in 1 .. m + n /\ ~(j <= m) /\ j - m = i
    BY <2>1
  <2>3. u[j] = t[i]
    BY <1>4, <2>2
  <2>. QED
    BY <1>5, <2>2, <2>3 DEF ToSet
<1>. QED
  BY <1>1, <1>4, <1>6, <1>7, <1>8

\* Flattening keeps everything and adds nothing.
LEMMA FlattenIs ==
    ASSUME NEW R, NEW n \in Nat, NEW q, q \in [1 .. n -> Seq(R)]
    PROVE  FlattenSeq(q) \in Seq(R) /\ ToSet(FlattenSeq(q)) = UNION {ToSet(q[i]) : i \in 1 .. n}
<1>1. Len(q) = n /\ q \in Seq(Seq(R))
  OBVIOUS
<1>2. CASE n = 0
  <2>1. FlattenSeq(q) = q
    BY <1>1, <1>2 DEF FlattenSeq
  <2>2. q \in Seq(R) /\ DOMAIN q = {} /\ 1 .. n = {}
    BY <1>1, <1>2
  <2>. QED
    BY <2>1, <2>2 DEF ToSet
<1>3. CASE n # 0
  <2>. DEFINE f == CHOOSE f : f = [i \in 1 .. Len(q) |-> IF i = 1 THEN q[i] ELSE f[i - 1] \o q[i]]
  <2>1. \E h : h = [i \in 1 .. Len(q) |-> IF i = 1 THEN q[i] ELSE h[i - 1] \o q[i]]
    <3>1. PICK h : Joins(h, n, q)
      BY JoinExists
    <3>. QED
      BY <1>1, <3>1 DEF Joins, Join
  <2>2. f = [i \in 1 .. Len(q) |-> IF i = 1 THEN q[i] ELSE f[i - 1] \o q[i]]
    BY <2>1, Zenon
  <2>3. FlattenSeq(q) = f[n]
    BY <1>1, <1>3 DEF FlattenSeq
  <2>. HIDE DEF f
  <2>4. f[1] = q[1] /\ \A i \in 1 .. n : i # 1 => f[i] = f[i - 1] \o q[i]
    <3>1. f = [i \in 1 .. n |-> IF i = 1 THEN q[i] ELSE Join(f[i - 1], q[i])]
      BY <1>1, <2>2 DEF Join
    <3>2. f[1] = q[1] /\ \A i \in 1 .. n : i # 1 => f[i] = Join(f[i - 1], q[i])
      BY <1>3, <3>1
    <3>. QED
      BY <3>2 DEF Join
  <2>. DEFINE N == {m \in Nat : m \in 1 .. n => f[m] \in Seq(R) /\ ToSet(f[m]) = UNION {ToSet(q[i]) : i \in 1 .. m}}
  <2>5. 0 \in N
    OBVIOUS
  <2>6. ASSUME NEW m \in Nat, m \in N PROVE m + 1 \in N
    <3>. SUFFICES ASSUME m + 1 \in 1 .. n
                  PROVE  /\ f[m + 1] \in Seq(R)
                         /\ ToSet(f[m + 1]) = UNION {ToSet(q[i]) : i \in 1 .. m + 1}
      OBVIOUS
    <3>1. CASE m = 0
      <4>1. 1 .. m + 1 = {1} /\ q[1] \in Seq(R)
        BY <1>1, <3>1
      <4>. QED
        BY <2>4, <3>1, <4>1
    <3>2. CASE m # 0
      <4>1. m \in 1 .. n /\ m + 1 # 1 /\ (m + 1) - 1 = m
        BY <3>2
      <4>2. f[m] \in Seq(R) /\ ToSet(f[m]) = UNION {ToSet(q[i]) : i \in 1 .. m}
        BY <2>6, <4>1
      <4>3. f[m + 1] = f[m] \o q[m + 1] /\ q[m + 1] \in Seq(R)
        BY <1>1, <2>4, <4>1
      <4>4. f[m + 1] \in Seq(R) /\ ToSet(f[m + 1]) = ToSet(f[m]) \cup ToSet(q[m + 1])
        BY <4>2, <4>3, ConcatSet
      <4>5. 1 .. m + 1 = (1 .. m) \cup {m + 1}
        OBVIOUS
      <4>6. UNION {ToSet(q[i]) : i \in 1 .. m + 1} = (UNION {ToSet(q[i]) : i \in 1 .. m}) \cup ToSet(q[m + 1])
        BY ONLY <4>5
      <4>. QED
        BY <4>2, <4>4, <4>6
    <3>. QED
      BY <3>1, <3>2
  <2>7. Nat \subseteq N
    <3>. HIDE DEF N
    <3>. QED
      BY <2>5, <2>6, NatSetInduction
  <2>8. n \in N
    <3>. HIDE DEF N
    <3>. QED
      BY <2>7
  <2>9. n \in 1 .. n
    BY <1>3
  <2>. QED
    BY <2>3, <2>8, <2>9
<1>. QED
  BY <1>2, <1>3

LEMMA LeastIs ==
    ASSUME NEW T, T \subseteq 0 .. 2
    PROVE  /\ Least(T) \in 0 .. 2
           /\ T # {} => Least(T) = Min(T) /\ Least(T) \in T
           /\ \A y \in T : Least(T) <= y
<1>1. CASE T = {}
  BY <1>1 DEF Least, Epoch
<1>2. CASE T # {}
  <2>1. \E x \in T : \A y \in T : x =< y
    <3>1. CASE 0 \in T
      BY <3>1
    <3>2. CASE 0 \notin T /\ 1 \in T
      BY <3>2
    <3>3. CASE 0 \notin T /\ 1 \notin T
      <4>1. \A y \in T : y = 2
        BY <3>3
      <4>2. PICK x \in T : TRUE
        BY <1>2
      <4>3. x = 2 /\ \A y \in T : 2 =< y
        BY <4>1
      <4>. QED
        BY <4>2, <4>3
    <3>. QED
      BY <3>1, <3>2, <3>3
  <2>2. Min(T) \in T /\ \A y \in T : Min(T) =< y
    BY <2>1, Zenon DEF Min
  <2>3. Least(T) = Min(T)
    BY <1>2 DEF Least
  <2>. QED
    BY <2>2, <2>3
<1>. QED
  BY <1>1, <1>2

StreamRecord == [stream : Producers, entry : EntryRecord]

\* The answer of all streams has every entry of every log, each with its stream.
LEMMA StreamOrder ==
    ASSUME log \in [Producers -> Seq(EntryRecord)]
    PROVE  /\ InStreamOrder \in Seq(StreamRecord)
           /\ ToSet(InStreamOrder) = UNION {{[stream |-> p, entry |-> log[p][j]] : j \in DOMAIN log[p]} : p \in Producers}
<1>1. PICK n \in Nat : n = Cardinality(Producers)
  BY SourceAssumption, FS_CardinalityType
<1>2. PICK s : s = SetToSeq(Producers)
  OBVIOUS
<1>3. s \in Seq(Producers) /\ Len(s) = n /\ DOMAIN s = 1 .. n /\ ToSet(s) = Producers
  BY <1>1, <1>2, SourceAssumption, SetToSeqIs
<1>4. \A i \in 1 .. n : s[i] \in Producers
  BY <1>3
<1>5. \A p \in Producers : \E i \in 1 .. n : s[i] = p
  BY <1>3 DEF ToSet
<1>6. PICK q : q = [i \in 1 .. n |-> [j \in DOMAIN log[s[i]] |-> [stream |-> s[i], entry |-> log[s[i]][j]]]]
  OBVIOUS
<1>7. InStreamOrder = FlattenSeq(q)
  BY <1>1, <1>2, <1>6 DEF InStreamOrder
<1>8. ASSUME NEW i \in 1 .. n
      PROVE  /\ q[i] \in Seq(StreamRecord)
             /\ ToSet(q[i]) = {[stream |-> s[i], entry |-> log[s[i]][j]] : j \in DOMAIN log[s[i]]}
  <2>1. PICK p \in Producers : p = s[i]
    BY <1>4
  <2>2. PICK m \in Nat : DOMAIN log[p] = 1 .. m
    <3>1. log[p] \in Seq(EntryRecord)
      OBVIOUS
    <3>. QED
      BY <3>1
  <2>3. q[i] = [j \in 1 .. m |-> [stream |-> p, entry |-> log[p][j]]]
    BY <1>6, <2>1, <2>2
  <2>4. \A j \in 1 .. m : log[p][j] \in EntryRecord
    BY <2>2
  <2>5. \A j \in 1 .. m : [stream |-> p, entry |-> log[p][j]] \in StreamRecord
    BY <2>4 DEF StreamRecord
  <2>6. q[i] \in Seq(StreamRecord) /\ DOMAIN q[i] = 1 .. m
    BY <2>3, <2>5
  <2>7. ToSet(q[i]) = {[stream |-> p, entry |-> log[p][j]] : j \in 1 .. m}
    <3>1. \A j \in 1 .. m : q[i][j] = [stream |-> p, entry |-> log[p][j]]
      BY <2>3
    <3>2. ToSet(q[i]) = {q[i][j] : j \in 1 .. m}
      BY <2>6 DEF ToSet
    <3>. QED
      BY ONLY <3>1, <3>2
  <2>. QED
    BY <2>1, <2>2, <2>6, <2>7
<1>9. q \in [1 .. n -> Seq(StreamRecord)]
  <2>1. \A i \in 1 .. n : q[i] \in Seq(StreamRecord)
    BY <1>8
  <2>. QED
    BY <1>6, <2>1
<1>10. FlattenSeq(q) \in Seq(StreamRecord) /\ ToSet(FlattenSeq(q)) = UNION {ToSet(q[i]) : i \in 1 .. n}
  BY <1>9, FlattenIs
<1>11. ASSUME NEW r
       PROVE  r \in UNION {ToSet(q[i]) : i \in 1 .. n} <=>
                \E p \in Producers : r \in {[stream |-> p, entry |-> log[p][j]] : j \in DOMAIN log[p]}
  <2>1. ASSUME NEW i \in 1 .. n, r \in ToSet(q[i])
        PROVE  \E p \in Producers : r \in {[stream |-> p, entry |-> log[p][j]] : j \in DOMAIN log[p]}
    BY <1>4, <1>8, <2>1
  <2>2. ASSUME NEW p \in Producers, r \in {[stream |-> p, entry |-> log[p][j]] : j \in DOMAIN log[p]}
        PROVE  \E i \in 1 .. n : r \in ToSet(q[i])
    <3>1. PICK i \in 1 .. n : s[i] = p
      BY <1>5
    <3>2. ToSet(q[i]) = {[stream |-> p, entry |-> log[p][j]] : j \in DOMAIN log[p]}
      BY <1>8, <3>1
    <3>. QED
      BY <2>2, <3>2
  <2>. QED
    BY <2>1, <2>2
<1>. QED
  BY <1>7, <1>10, <1>11

-----------------------------------------------------------------------------
(* The inductive invariant of the source adapters *)

WindowAll(l) == UNION {WindowIn(l[p]) : p \in Producers}

LogsOK(l) ==
    /\ l \in [Producers -> Seq(EntryRecord)]
    /\ \A p \in Producers : LogOrdered(l[p]) /\ Len(l[p]) <= MaxEntries[p]

\* Every producer promised the end of the window, and the rows are its events.
Whole(l, rows) == (\A p \in Producers : MarkIn(l[p]) = 2) /\ ToSet(rows) = WindowAll(l)

\* The sources whose watermark is of the rows they return.
Trusted(kind) == kind # "prometheus" /\ (kind = "postgres" => WatermarkRows = Producers)

\* What a read has seen is a prefix of each log: its watermarks are from there,
\* its rows are events of the window and, unless the answer is partial, all of
\* them that were seen.
SeenSoFar(l, x) ==
    /\ \A p \in Producers :
        /\ x.end[p] # None => x.end[p] <= Len(l[p])
        /\ x.pos[p] <= Len(l[p])
        /\ x.marks[p] = 0 \/ \E i \in 1 .. x.pos[p] : l[p][i] = Mark(x.marks[p])
        /\ x.complete => \A i \in 1 .. x.pos[p] :
              l[p][i].event \in SourceEvents /\ InWindow(l[p][i].event) => l[p][i].event \in ToSet(x.rows)
    /\ ToSet(x.rows) \subseteq WindowAll(l)

QueryOK(l, kind, x) ==
    /\ ReadOK(x)
    /\ x.phase = "read" => SeenSoFar(l, x)
    /\ x.phase = "watermark" => kind = "prometheus"
    /\ x.phase = "done" /\ Covered(x) /\ Trusted(kind) => Whole(l, x.rows)

LakeOK(l, o) ==
    /\ o.etag \in 0 .. MaxSnapshots /\ o.rows \in Seq(SourceEvents)
    /\ o.watermark \in 0 .. 2 /\ o.complete \in BOOLEAN
    /\ o.complete /\ o.watermark >= 2 => Whole(l, o.rows)

AnswerRecord == [rows : Seq(SourceEvents), complete : BOOLEAN]

AnswerOK(l, kind, a) ==
    /\ a \in AnswerRecord /\ IsInjective(a.rows)
    /\ a.complete /\ Trusted(kind) => Whole(l, a.rows)

CountOK(q, n) ==
    /\ IsFiniteSet({c \in SourceQueries : q[c] # None})
    /\ n = Cardinality({c \in SourceQueries : q[c] # None}) /\ n <= MaxActive

SourceInv ==
    /\ sourceKind \in SourceKinds
    /\ LogsOK(log)
    /\ LakeOK(log, lake)
    /\ DOMAIN query = SourceQueries /\ DOMAIN envelope = SourceQueries
    /\ \A c \in SourceQueries : query[c] = None \/ QueryOK(log, sourceKind, query[c])
    /\ \A c \in SourceQueries : envelope[c] = None \/ AnswerOK(log, sourceKind, envelope[c])
    /\ CountOK(query, active)

LEMMA SourceInitInv == SourceInit => SourceInv
<1>. SUFFICES ASSUME SourceInit PROVE SourceInv
  OBVIOUS
<1>1. PICK s : s = <<>>
  OBVIOUS
<1>2. s \in Seq(EntryRecord) /\ s \in Seq(SourceEvents) /\ DOMAIN s = {} /\ Len(s) = 0
  BY <1>1
<1>3. log = [p \in Producers |-> s]
  BY <1>1 DEF SourceInit
<1>4. LogsOK(log)
  <2>1. LogOrdered(s)
    BY <1>2 DEF LogOrdered
  <2>2. \A p \in Producers : MaxEntries[p] \in Nat
    BY SourceAssumption
  <2>. QED
    BY <1>2, <1>3, <2>1, <2>2 DEF LogsOK
<1>5. LakeOK(log, lake)
  BY <1>1, <1>2, SourceAssumption DEF SourceInit, LakeOK, Epoch
<1>6. CountOK(query, active)
  <2>1. {c \in SourceQueries : query[c] # None} = {}
    BY DEF SourceInit
  <2>2. IsFiniteSet({}) /\ Cardinality({}) = 0
    BY FS_EmptySet
  <2>3. active = 0 /\ 0 <= MaxActive
    BY SourceAssumption DEF SourceInit
  <2>. QED
    BY <2>1, <2>2, <2>3 DEF CountOK
<1>. QED
  BY <1>4, <1>5, <1>6 DEF SourceInit, SourceInv

\* Whatever producers write, what was whole stays whole.
LEMMA GrowthKeeps ==
    ASSUME NEW l, NEW m, LogsOK(l), LogsOK(m), \A p \in Producers : LogGrows(l[p], m[p])
    PROVE  /\ WindowAll(l) \subseteq WindowAll(m)
           /\ \A rows : Whole(l, rows) => Whole(m, rows)
<1>1. WindowAll(l) \subseteq WindowAll(m)
  BY DEF WindowAll, LogGrows
<1>2. ASSUME NEW rows, Whole(l, rows) PROVE Whole(m, rows)
  <2>1. \A p \in Producers : MarkIn(l[p]) = 2
    BY <1>2 DEF Whole
  <2>2. \A p \in Producers : MarkIn(m[p]) = 2 /\ WindowIn(m[p]) = WindowIn(l[p])
    BY <2>1 DEF LogGrows
  <2>3. WindowAll(m) = WindowAll(l)
    BY <2>2 DEF WindowAll
  <2>. QED
    BY <1>2, <2>2, <2>3 DEF Whole
<1>. QED
  BY <1>1, <1>2

LEMMA GrowthKeepsQuery ==
    ASSUME NEW l, NEW m, LogsOK(l), LogsOK(m), \A p \in Producers : LogGrows(l[p], m[p]),
           NEW kind, NEW x, QueryOK(l, kind, x)
    PROVE  QueryOK(m, kind, x)
<1>1. ASSUME x.phase = "read" PROVE SeenSoFar(m, x)
  <2>1. SeenSoFar(l, x) /\ x \in ReadRecord
    BY <1>1 DEF QueryOK, ReadOK
  <2>2. ASSUME NEW p \in Producers
        PROVE  /\ x.end[p] # None => x.end[p] <= Len(m[p])
               /\ x.pos[p] <= Len(m[p])
               /\ x.marks[p] = 0 \/ \E i \in 1 .. x.pos[p] : m[p][i] = Mark(x.marks[p])
               /\ x.complete => \A i \in 1 .. x.pos[p] :
                    m[p][i].event \in SourceEvents /\ InWindow(m[p][i].event) => m[p][i].event \in ToSet(x.rows)
    <3>1. x.pos[p] \in Nat /\ (x.end[p] # None => x.end[p] \in Nat)
      BY <2>1 DEF ReadRecord
    <3>2. Len(l[p]) \in Nat /\ Len(m[p]) \in Nat
      BY DEF LogsOK
    <3>3. Len(l[p]) <= Len(m[p]) /\ \A i \in 1 .. Len(l[p]) : m[p][i] = l[p][i]
      BY DEF LogGrows
    <3>4. x.pos[p] <= Len(l[p]) /\ (x.end[p] # None => x.end[p] <= Len(l[p]))
      BY <2>1 DEF SeenSoFar
    <3>5. \A i \in 1 .. x.pos[p] : m[p][i] = l[p][i]
      BY <3>1, <3>2, <3>3, <3>4
    <3>6. x.pos[p] <= Len(m[p]) /\ (x.end[p] # None => x.end[p] <= Len(m[p]))
      BY <3>1, <3>2, <3>3, <3>4
    <3>7. x.marks[p] = 0 \/ \E i \in 1 .. x.pos[p] : m[p][i] = Mark(x.marks[p])
      BY <2>1, <3>5 DEF SeenSoFar
    <3>8. x.complete => \A i \in 1 .. x.pos[p] :
             m[p][i].event \in SourceEvents /\ InWindow(m[p][i].event) => m[p][i].event \in ToSet(x.rows)
      BY <2>1, <3>5 DEF SeenSoFar
    <3>. QED
      BY <3>6, <3>7, <3>8
  <2>3. ToSet(x.rows) \subseteq WindowAll(m)
    BY <2>1, GrowthKeeps DEF SeenSoFar
  <2>. QED
    BY <2>2, <2>3 DEF SeenSoFar
<1>2. ASSUME x.phase = "done", Covered(x), Trusted(kind) PROVE Whole(m, x.rows)
  BY <1>2, GrowthKeeps DEF QueryOK
<1>. QED
  BY <1>1, <1>2 DEF QueryOK

\* One more entry of a producer.
LEMMA LogStepKeepsInv ==
    ASSUME SourceInv, NEW p \in Producers, NEW e \in EntryRecord, Len(log[p]) < MaxEntries[p],
           e.event \in SourceEvents /\ InWindow(e.event) /\ MarkIn(log[p]) = 2 =>
               \E i \in DOMAIN log[p] : log[p][i].event = e.event,
           log' = [log EXCEPT ![p] = Append(log[p], e)],
           UNCHANGED <<sourceKind, lake, active, query, envelope>>
    PROVE  SourceInv'
<1>1. LogsOK(log) /\ log \in [Producers -> Seq(EntryRecord)] /\ \A q \in Producers : LogOrdered(log[q])
  BY DEF SourceInv, LogsOK
<1>2. PICK t : t = Append(log[p], e)
  OBVIOUS
<1>3. LogOrdered(t) /\ LogGrows(log[p], t)
  BY <1>1, <1>2, AppendGrows
<1>4. t \in Seq(EntryRecord) /\ Len(t) <= MaxEntries[p]
  <2>1. log[p] \in Seq(EntryRecord) /\ MaxEntries[p] \in Nat
    BY <1>1, SourceAssumption
  <2>2. Len(t) = Len(log[p]) + 1 /\ Len(log[p]) \in Nat /\ t \in Seq(EntryRecord)
    BY <1>2, <2>1
  <2>. QED
    BY <2>1, <2>2
<1>5. log' = [log EXCEPT ![p] = t]
  BY <1>2
<1>6. PICK m : m = [log EXCEPT ![p] = t]
  OBVIOUS
<1>7. m[p] = t /\ \A q \in Producers : q # p => m[q] = log[q]
  BY <1>1, <1>6
<1>8. m \in [Producers -> Seq(EntryRecord)]
  BY <1>1, <1>4, <1>6
<1>9. ASSUME NEW q \in Producers PROVE LogOrdered(m[q]) /\ Len(m[q]) <= MaxEntries[q] /\ LogGrows(log[q], m[q])
  <2>1. CASE q = p
    BY <1>3, <1>4, <1>7, <2>1
  <2>2. CASE q # p
    <3>1. m[q] = log[q] /\ Len(log[q]) <= MaxEntries[q] /\ Len(log[q]) \in Nat
      BY <1>1, <1>7, <2>2 DEF LogsOK
    <3>2. LogGrows(log[q], log[q])
      BY <3>1 DEF LogGrows
    <3>. QED
      BY <1>1, <3>1, <3>2
  <2>. QED
    BY <2>1, <2>2
<1>10. LogsOK(m)
  BY <1>8, <1>9 DEF LogsOK
<1>11. \A rows : Whole(log, rows) => Whole(m, rows)
  BY <1>1, <1>9, <1>10, GrowthKeeps
<1>12. LakeOK(m, lake)
  BY <1>11 DEF SourceInv, LakeOK
<1>13. ASSUME NEW c \in SourceQueries, envelope[c] # None PROVE AnswerOK(m, sourceKind, envelope[c])
  BY <1>11, <1>13 DEF SourceInv, AnswerOK
<1>14. ASSUME NEW c \in SourceQueries, query[c] # None PROVE QueryOK(m, sourceKind, query[c])
  <2>1. QueryOK(log, sourceKind, query[c])
    BY <1>14 DEF SourceInv
  <2>. QED
    BY <1>1, <1>9, <1>10, <2>1, GrowthKeepsQuery
<1>15. log' = m
  BY <1>5, <1>6
<1>. QED
  BY <1>10, <1>12, <1>13, <1>14, <1>15 DEF SourceInv

LEMMA ProduceKeepsInv ==
    ASSUME SourceInv, \/ \E e \in SourceEvents : WriteEvent(e)
                      \/ \E p \in Producers : WriteMark(p)
    PROVE  SourceInv'
<1>1. ASSUME NEW e \in SourceEvents, WriteEvent(e) PROVE SourceInv'
  <2>1. PICK p \in Producers : p = Producer[e]
    BY SourceAssumption
  <2>2. PICK d : d = Event(e)
    OBVIOUS
  <2>3. d \in EntryRecord /\ d.event = e
    BY <2>2 DEF EntryRecord, Event, Epoch
  <2>4. ASSUME InWindow(e), MarkIn(log[p]) = 2 PROVE \E i \in DOMAIN log[p] : log[p][i].event = e
    <3>1. EventTime[e] \in Int /\ EventTime[e] < 2
      BY <2>4, SourceAssumption DEF InWindow, WindowEnd
    <3>2. e \in WrittenBy(p)
      BY <1>1, <2>1, <2>4, <3>1 DEF WriteEvent
    <3>. QED
      BY <3>2 DEF WrittenBy
  <2>5. /\ Len(log[p]) < MaxEntries[p]
        /\ log' = [log EXCEPT ![p] = Append(log[p], d)]
        /\ UNCHANGED <<sourceKind, lake, active, query, envelope>>
    BY <1>1, <2>1, <2>2 DEF WriteEvent
  <2>. QED
    BY <2>3, <2>4, <2>5, LogStepKeepsInv
<1>2. ASSUME NEW p \in Producers, WriteMark(p) PROVE SourceInv'
  <2>1. MarkIn(log[p]) \in 0 .. 2
    BY MarkIsIn DEF SourceInv, LogsOK
  <2>2. PICK t \in (MarkIn(log[p]) + 1) .. 2 : log' = [log EXCEPT ![p] = Append(log[p], Mark(t))]
    BY <1>2 DEF WriteMark, WindowEnd
  <2>3. t \in 1 .. 2
    BY <2>1, <2>2
  <2>4. PICK d : d = Mark(t)
    OBVIOUS
  <2>5. d \in EntryRecord /\ d.event = None
    BY <2>3, <2>4 DEF EntryRecord, Mark
  <2>6. d.event \notin SourceEvents
    BY <2>5, SourceNoneAssumption
  <2>7. /\ Len(log[p]) < MaxEntries[p]
        /\ log' = [log EXCEPT ![p] = Append(log[p], d)]
        /\ UNCHANGED <<sourceKind, lake, active, query, envelope>>
    BY <1>2, <2>2, <2>4 DEF WriteMark
  <2>. QED
    BY <2>5, <2>6, <2>7, LogStepKeepsInv
<1>. QED
  BY <1>1, <1>2

LEMMA SnapshotRows ==
    ASSUME LogsOK(log)
    PROVE  /\ WindowEvents = WindowAll(log)
           /\ SetToSeq(WindowEvents) \in Seq(SourceEvents)
           /\ ToSet(SetToSeq(WindowEvents)) = WindowAll(log)
<1>1. log \in [Producers -> Seq(EntryRecord)]
  BY DEF LogsOK
<1>2. WindowEvents = WindowAll(log)
  BY <1>1, WindowOfLogs DEF WindowAll
<1>3. IsFiniteSet(WindowEvents) /\ WindowEvents \subseteq SourceEvents
  BY <1>1, WindowIsFinite
<1>4. SetToSeq(WindowEvents) \in Seq(WindowEvents) /\ ToSet(SetToSeq(WindowEvents)) = WindowEvents
  BY <1>3, SetToSeqIs
<1>5. SetToSeq(WindowEvents) \in Seq(SourceEvents)
  BY <1>3, <1>4
<1>. QED
  BY <1>2, <1>4, <1>5

LEMMA MarksOfLogs ==
    ASSUME LogsOK(log)
    PROVE  \A p \in Producers : MarkIn(log[p]) \in 0 .. 2
<1>1. ASSUME NEW p \in Producers PROVE MarkIn(log[p]) \in 0 .. 2
  <2>1. log[p] \in Seq(EntryRecord)
    BY DEF LogsOK
  <2>. QED
    BY <2>1, MarkIsIn
<1>. QED
  BY <1>1

\* An exported object is whole if it says so.
LEMMA ExportKeepsInv ==
    ASSUME SourceInv, ExportSnapshot
    PROVE  SourceInv'
<1>1. LogsOK(log) /\ LakeOK(log, lake)
  BY DEF SourceInv
<1>2. PICK T : T = {MarkIn(log[p]) : p \in Producers}
  OBVIOUS
<1>3. T \subseteq 0 .. 2
  BY <1>1, <1>2, MarksOfLogs
<1>4. PICK w : w = Least(T)
  OBVIOUS
<1>5. w \in 0 .. 2 /\ \A y \in T : w <= y
  BY <1>3, <1>4, LeastIs
<1>6. PICK rows : rows = SetToSeq(WindowEvents)
  OBVIOUS
<1>7. rows \in Seq(SourceEvents) /\ ToSet(rows) = WindowAll(log)
  BY <1>1, <1>6, SnapshotRows
<1>8. PICK n \in Nat : n = lake.etag + 1
  BY <1>1 DEF LakeOK
<1>9. PICK b \in BOOLEAN : b = (w > 0)
  <2>1. CASE w > 0
    <3>1. TRUE = (w > 0)
      BY <2>1
    <3>. QED
      BY <3>1, Zenon
  <2>2. CASE ~(w > 0)
    <3>1. FALSE = (w > 0)
      BY <2>2
    <3>. QED
      BY <3>1, Zenon
  <2>. QED
    BY <2>1, <2>2
<1>10. lake' = [etag |-> n, rows |-> rows, watermark |-> w, complete |-> b]
  BY <1>2, <1>4, <1>6, <1>8, <1>9 DEF ExportSnapshot, Epoch
<1>11. n \in 0 .. MaxSnapshots
  BY <1>1, <1>8, SourceAssumption DEF ExportSnapshot, LakeOK
<1>12. ASSUME w >= 2 PROVE Whole(log, rows)
  <2>1. \A y \in T : y = 2
    BY <1>3, <1>5, <1>12
  <2>2. \A p \in Producers : MarkIn(log[p]) = 2
    BY <1>2, <2>1
  <2>. QED
    BY <1>7, <2>2 DEF Whole
<1>13. PICK o : o = [etag |-> n, rows |-> rows, watermark |-> w, complete |-> b]
  OBVIOUS
<1>14. o.etag = n /\ o.rows = rows /\ o.watermark = w /\ o.complete = b
  BY <1>13
<1>15. LakeOK(log, o)
  BY <1>5, <1>7, <1>9, <1>11, <1>12, <1>14 DEF LakeOK
<1>16. LakeOK(log, lake') /\ UNCHANGED <<sourceKind, log, active, query, envelope>>
  BY <1>10, <1>13, <1>15 DEF ExportSnapshot
<1>. QED
  BY <1>16 DEF SourceInv

LEMMA QueryIs ==
    ASSUME NEW l, NEW kind, NEW x, QueryOK(l, kind, x)
    PROVE  x \in ReadRecord /\ x # None
  BY SourceNoneAssumption DEF QueryOK, ReadOK

\* A step of one read.
LEMMA ReadKeepsInv ==
    ASSUME SourceInv, NEW c \in SourceQueries, query[c] # None, NEW z, QueryOK(log, sourceKind, z), Read(c, z)
    PROVE  SourceInv'
<1>1. z # None
  BY QueryIs
<1>2. PICK q : q = [query EXCEPT ![c] = z]
  OBVIOUS
<1>3. DOMAIN query = SourceQueries
  BY DEF SourceInv
<1>4. DOMAIN q = SourceQueries /\ q[c] = z /\ \A d \in SourceQueries : d # c => q[d] = query[d]
  BY <1>2, <1>3
<1>5. {d \in SourceQueries : q[d] # None} = {d \in SourceQueries : query[d] # None}
  BY <1>1, <1>4
<1>6. CountOK(q, active)
  BY <1>5 DEF SourceInv, CountOK
<1>7. \A d \in SourceQueries : q[d] = None \/ QueryOK(log, sourceKind, q[d])
  BY <1>4 DEF SourceInv
<1>8. query' = q /\ UNCHANGED <<sourceKind, log, lake, active, envelope>>
  BY <1>2 DEF Read
<1>. QED
  BY <1>4, <1>6, <1>7, <1>8 DEF SourceInv

LEMMA BeginKeepsInv ==
    ASSUME SourceInv, NEW c \in SourceQueries, BeginQuery(c)
    PROVE  SourceInv'
<1>1. PICK x : x = EmptyEnvelope
  OBVIOUS
<1>2. PICK s : s = <<>>
  OBVIOUS
<1>3. s \in Seq(SourceEvents) /\ Len(s) = 0 /\ DOMAIN s = {}
  BY <1>2
<1>4. /\ x \in ReadRecord /\ x.rows = s /\ x.phase = "read"
      /\ \A p \in Producers : x.end[p] = None /\ x.pos[p] = 0 /\ x.marks[p] = 0
  BY <1>1, <1>2, <1>3 DEF EmptyEnvelope, ReadRecord, Epoch
<1>5. LogsOK(log) /\ DOMAIN query = SourceQueries /\ CountOK(query, active)
  BY DEF SourceInv
<1>6. ReadOK(x)
  BY <1>3, <1>4, SourceAssumption DEF ReadOK
<1>7. SeenSoFar(log, x)
  <2>1. \A p \in Producers : Len(log[p]) \in Nat
    BY <1>5 DEF LogsOK
  <2>2. ToSet(x.rows) = {}
    BY <1>3, <1>4 DEF ToSet
  <2>3. ASSUME NEW p \in Producers
        PROVE  x.pos[p] <= Len(log[p]) /\ 1 .. x.pos[p] = {}
    BY <1>4, <2>1
  <2>. QED
    BY <1>4, <2>2, <2>3 DEF SeenSoFar
<1>8. QueryOK(log, sourceKind, x) /\ x # None
  <2>1. QueryOK(log, sourceKind, x)
    BY <1>4, <1>6, <1>7 DEF QueryOK
  <2>. QED
    BY <2>1, QueryIs
<1>9. PICK q : q = [query EXCEPT ![c] = x]
  OBVIOUS
<1>10. DOMAIN q = SourceQueries /\ q[c] = x /\ \A d \in SourceQueries : d # c => q[d] = query[d]
  BY <1>5, <1>9
<1>11. PICK R : R = {d \in SourceQueries : query[d] # None}
  OBVIOUS
<1>12. c \notin R /\ IsFiniteSet(R) /\ active = Cardinality(R)
  BY <1>5, <1>11 DEF BeginQuery, CountOK
<1>13. {d \in SourceQueries : q[d] # None} = R \cup {c}
  BY <1>8, <1>10, <1>11
<1>14. IsFiniteSet(R \cup {c}) /\ Cardinality(R \cup {c}) = Cardinality(R) + 1
  BY <1>12, FS_AddElement
<1>15. active + 1 <= MaxActive
  <2>1. active \in Nat
    BY <1>12, FS_CardinalityType
  <2>. QED
    BY <2>1, SourceAssumption DEF BeginQuery
<1>16. CountOK(q, active + 1)
  BY <1>12, <1>13, <1>14, <1>15 DEF CountOK
<1>17. \A d \in SourceQueries : q[d] = None \/ QueryOK(log, sourceKind, q[d])
  BY <1>8, <1>10 DEF SourceInv
<1>18. query' = q /\ active' = active + 1 /\ UNCHANGED <<sourceKind, log, lake, envelope>>
  BY <1>1, <1>9 DEF BeginQuery
<1>19. CountOK(query', active')
  BY <1>16, <1>18
<1>. QED
  BY <1>10, <1>17, <1>18, <1>19 DEF SourceInv

\* A query that ends gives its slot back.
LEMMA LeaveKeepsInv ==
    ASSUME SourceInv, NEW c \in SourceQueries, query[c] # None, Leave(c),
           UNCHANGED <<sourceKind, log, lake>>, DOMAIN envelope' = SourceQueries,
           \A d \in SourceQueries : envelope'[d] = None \/ AnswerOK(log, sourceKind, envelope'[d])
    PROVE  SourceInv'
<1>1. DOMAIN query = SourceQueries /\ CountOK(query, active)
  BY DEF SourceInv
<1>2. PICK q : q = [query EXCEPT ![c] = None]
  OBVIOUS
<1>3. DOMAIN q = SourceQueries /\ q[c] = None /\ \A d \in SourceQueries : d # c => q[d] = query[d]
  BY <1>1, <1>2
<1>4. PICK R : R = {d \in SourceQueries : query[d] # None}
  OBVIOUS
<1>5. c \in R /\ IsFiniteSet(R) /\ active = Cardinality(R) /\ active <= MaxActive
  BY <1>1, <1>4 DEF CountOK
<1>6. {d \in SourceQueries : q[d] # None} = R \ {c}
  BY <1>3, <1>4
<1>7. IsFiniteSet(R \ {c}) /\ Cardinality(R \ {c}) = Cardinality(R) - 1
  BY <1>5, FS_RemoveElement
<1>8. active \in Nat
  BY <1>5, FS_CardinalityType
<1>9. CountOK(q, active - 1)
  <2>1. active - 1 <= MaxActive /\ active - 1 = Cardinality(R \ {c})
    BY <1>5, <1>7, <1>8, SourceAssumption
  <2>. QED
    BY <1>6, <1>7, <2>1 DEF CountOK
<1>10. query' = q /\ active' = active - 1
  BY <1>2 DEF Leave
<1>11. CountOK(query', active')
  BY <1>9, <1>10
<1>12. \A d \in SourceQueries : q[d] = None \/ QueryOK(log, sourceKind, q[d])
  BY <1>3 DEF SourceInv
<1>. QED
  BY <1>3, <1>10, <1>11, <1>12 DEF SourceInv

LEMMA EndKeepsInv ==
    ASSUME SourceInv, NEW c \in SourceQueries, Deliver(c) \/ ReadFails(c)
    PROVE  SourceInv'
<1>1. CASE ReadFails(c)
  <2>1. query[c] # None /\ Leave(c) /\ UNCHANGED <<sourceKind, log, lake, envelope>>
    BY <1>1 DEF ReadFails
  <2>2. DOMAIN envelope' = SourceQueries
    BY <2>1 DEF SourceInv
  <2>3. \A d \in SourceQueries : envelope'[d] = None \/ AnswerOK(log, sourceKind, envelope'[d])
    BY <2>1 DEF SourceInv
  <2>. QED
    BY <2>1, <2>2, <2>3, LeaveKeepsInv
<1>2. CASE Deliver(c)
  <2>1. PICK x : x = query[c]
    OBVIOUS
  <2>2. /\ x # None /\ x.phase = "done" /\ ValidEnvelope(x) /\ Leave(c)
        /\ UNCHANGED <<sourceKind, log, lake>>
        /\ envelope' = [envelope EXCEPT ![c] = [rows |-> x.rows, complete |-> Covered(x)]]
    BY <1>2, <2>1 DEF Deliver
  <2>3. QueryOK(log, sourceKind, x)
    BY <2>1, <2>2 DEF SourceInv
  <2>4. PICK b \in BOOLEAN : b = Covered(x)
    BY DEF Covered
  <2>5. PICK a : a = [rows |-> x.rows, complete |-> b]
    OBVIOUS
  <2>6. a \in AnswerRecord /\ a.rows = x.rows /\ a.complete = b
    BY <2>3, <2>4, <2>5 DEF AnswerRecord, QueryOK, ReadOK, ReadRecord
  <2>7. AnswerOK(log, sourceKind, a)
    BY <2>2, <2>3, <2>4, <2>6 DEF AnswerOK, QueryOK, ValidEnvelope
  <2>8. envelope' = [envelope EXCEPT ![c] = a]
    BY <2>2, <2>4, <2>5
  <2>9. DOMAIN envelope = SourceQueries
    BY DEF SourceInv
  <2>10. DOMAIN envelope' = SourceQueries
    BY <2>8, <2>9
  <2>11. ASSUME NEW d \in SourceQueries PROVE envelope'[d] = None \/ AnswerOK(log, sourceKind, envelope'[d])
    BY <2>7, <2>8, <2>9 DEF SourceInv
  <2>. QED
    BY <2>1, <2>2, <2>10, <2>11, LeaveKeepsInv
<1>. QED
  BY <1>1, <1>2

\* Rows are read as entries are.
LEMMA RowsRead ==
    ASSUME NEW x, ReadOK(x), NEW events \in Seq(SourceEvents), NEW z, z = appendRows(x, events)
    PROVE  /\ ReadOK(z) /\ z.phase = x.phase /\ z.watermark = x.watermark
           /\ ToSet(z.rows) \subseteq ToSet(x.rows) \cup {e \in ToSet(events) : InWindow(e)}
           /\ z.complete => x.complete /\ {e \in ToSet(events) : InWindow(e)} \subseteq ToSet(z.rows)
<1>1. PICK n \in Nat : n = Len(events)
  OBVIOUS
<1>2. DOMAIN events = 1 .. n /\ \A k \in 1 .. n : events[k] \in SourceEvents
  BY <1>1
<1>3. \A k \in 1 .. n : events[k] # None
  BY <1>2, SourceNoneAssumption
<1>4. PICK r : r = [k \in 1 .. n |-> [stream |-> None, entry |-> Event(events[k])]]
  OBVIOUS
<1>5. PICK f : z = f[n] /\ Steps(f, n, x, r)
  BY <1>2, <1>3, <1>4, RowsFolded
<1>6. \A k \in 1 .. n : /\ r[k] = [stream |-> r[k].stream, entry |-> r[k].entry]
                        /\ r[k].entry = Event(events[k])
  BY <1>4
<1>7. \A k \in 1 .. n : IsEntry(r[k])
  BY <1>2, <1>6 DEF IsEntry
<1>8. PICK L : L = {r[k] : k \in 1 .. n}
  OBVIOUS
<1>9. ReadsInto(x, z, L)
  BY <1>5, <1>7, <1>8, StepsRead
<1>10. WindowOf(L) = {e \in ToSet(events) : InWindow(e)}
  <2>1. \A k \in 1 .. n : r[k].entry.event = events[k]
    <3>1. \A e : Event(e).event = e
      BY DEF Event
    <3>. QED
      BY <1>6, <3>1
  <2>2. ToSet(events) = {events[k] : k \in 1 .. n}
    BY <1>2 DEF ToSet
  <2>. QED
    BY <1>2, <1>8, <2>1, <2>2 DEF WindowOf
<1>. QED
  BY <1>9, <1>10 DEF ReadsInto

LEMMA EntriesRead ==
    ASSUME NEW x, ReadOK(x), NEW records \in Seq(StreamRecord)
    PROVE  ReadsInto(x, Entries(x, records), ToSet(records))
<1>1. PICK n \in Nat : n = Len(records)
  OBVIOUS
<1>2. DOMAIN records = 1 .. n /\ \A k \in 1 .. n : records[k] \in StreamRecord
  BY <1>1
<1>3. PICK f : Entries(x, records) = f[n] /\ Steps(f, n, x, records)
  BY <1>2, EntriesFolded
<1>4. ASSUME NEW k \in 1 .. n
      PROVE  IsEntry(records[k])
  <2>1. records[k] = [stream |-> records[k].stream, entry |-> records[k].entry]
    BY <1>2 DEF StreamRecord
  <2>2. records[k].stream \in Producers /\ records[k].entry \in EntryRecord
    BY <1>2 DEF StreamRecord
  <2>3. \/ \E e \in SourceEvents : records[k].entry = Event(e)
        \/ \E t \in 1 .. 2 : records[k].entry = Mark(t)
    BY <2>2, EntryShape
  <2>. QED
    BY <2>1, <2>2, <2>3 DEF IsEntry
<1>5. PICK L : L = {records[k] : k \in 1 .. n}
  OBVIOUS
<1>6. ReadsInto(x, f[n], L)
  BY <1>3, <1>4, <1>5, StepsRead
<1>7. ToSet(records) = L
  BY <1>2, <1>5 DEF ToSet
<1>. QED
  BY <1>3, <1>6, <1>7

\* The watermark of an answer is the end of the window only if every
\* producer's is.
LEMMA AllMarksIs ==
    ASSUME NEW x, ReadOK(x), NEW now \in 1 .. 2, NEW z, z = AllMarks(x, now)
    PROVE  /\ ReadOK(z) /\ z.phase = "done" /\ z.rows = x.rows
           /\ Covered(z) => x.complete /\ \A p \in Producers : x.marks[p] = 2
<1>1. x \in ReadRecord /\ x.marks \in [Producers -> 0 .. 2] /\ x.complete \in BOOLEAN
  BY DEF ReadOK, ReadRecord
<1>2. PICK M : M = {x.marks[p] : p \in Producers}
  OBVIOUS
<1>3. M \subseteq 0 .. 2 /\ M \cup {now} \subseteq 0 .. 2
  BY <1>1, <1>2
<1>4. PICK w : w = Least(M \cup {now})
  OBVIOUS
<1>5. w \in 0 .. 2 /\ \A y \in M : w <= y
  BY <1>3, <1>4, LeastIs
<1>6. PICK b : b = (x.complete /\ Epoch \notin M)
  OBVIOUS
<1>7. b \in BOOLEAN /\ (b => x.complete)
  BY <1>1, <1>6, Zenon
<1>8. z = [x EXCEPT !.phase = "done", !.watermark = w, !.complete = b]
  BY <1>1, <1>2, <1>4, <1>6 DEF AllMarks, ReadRecord
<1>9. /\ z \in ReadRecord /\ z.phase = "done" /\ z.watermark = w /\ z.complete = b
      /\ z.rows = x.rows
  BY <1>1, <1>5, <1>7, <1>8 DEF ReadRecord
<1>10. ReadOK(z)
  BY <1>9 DEF ReadOK
<1>11. ASSUME Covered(z) PROVE x.complete /\ \A p \in Producers : x.marks[p] = 2
  <2>1. w >= 2 /\ b
    BY <1>9, <1>11 DEF Covered, WindowEnd
  <2>2. \A y \in M : y = 2
    BY <1>3, <1>5, <2>1
  <2>. QED
    BY <1>2, <1>7, <2>1, <2>2
<1>. QED
  BY <1>9, <1>10, <1>11

\* A scan that saw every producer's last watermark saw the whole window.
LEMMA SeenIsWhole ==
    ASSUME NEW l, LogsOK(l), NEW x, ReadOK(x), SeenSoFar(l, x), x.complete,
           \A p \in Producers : x.marks[p] = 2
    PROVE  Whole(l, x.rows)
<1>1. ASSUME NEW p \in Producers PROVE MarkIn(l[p]) = 2 /\ WindowIn(l[p]) \subseteq ToSet(x.rows)
  <2>1. l[p] \in Seq(EntryRecord) /\ LogOrdered(l[p]) /\ Len(l[p]) \in Nat
    BY DEF LogsOK
  <2>2. x.pos[p] \in Nat /\ x.pos[p] <= Len(l[p])
    BY DEF SeenSoFar, ReadOK, ReadRecord
  <2>3. PICK i \in 1 .. x.pos[p] : l[p][i] = Mark(2)
    BY DEF SeenSoFar
  <2>4. DOMAIN l[p] = 1 .. Len(l[p]) /\ i \in DOMAIN l[p]
    BY <2>1, <2>2, <2>3
  <2>5. MarkIn(l[p]) = 2
    BY <2>1, <2>3, <2>4, MarkIsIn
  <2>6. ASSUME NEW e \in WindowIn(l[p]) PROVE e \in ToSet(x.rows)
    <3>1. PICK j \in DOMAIN l[p] : l[p][j].event = e
      BY <2>6 DEF WindowIn
    <3>2. e \in SourceEvents /\ InWindow(e)
      BY <2>6 DEF WindowIn
    <3>3. PICK k \in DOMAIN l[p] : k < i /\ l[p][k].event = e
      BY <2>1, <2>3, <2>4, <3>1, <3>2 DEF LogOrdered
    <3>4. k \in 1 .. x.pos[p]
      BY <2>1, <2>2, <2>3, <2>4, <3>3
    <3>. QED
      BY <3>2, <3>3, <3>4 DEF SeenSoFar
  <2>. QED
    BY <2>5, <2>6
<1>2. WindowAll(l) \subseteq ToSet(x.rows)
  BY <1>1 DEF WindowAll
<1>3. ToSet(x.rows) \subseteq WindowAll(l)
  BY DEF SeenSoFar
<1>. QED
  BY <1>1, <1>2, <1>3 DEF Whole

\* What a read in its first phase is.
LEMMA InReadIs ==
    ASSUME SourceInv, NEW c \in SourceQueries, NEW kind, InRead(c, kind), NEW x, x = query[c]
    PROVE  /\ LogsOK(log) /\ LakeOK(log, lake) /\ query[c] # None /\ sourceKind = kind
           /\ x \in ReadRecord /\ ReadOK(x) /\ x.phase = "read" /\ SeenSoFar(log, x)
<1>1. x # None /\ x.phase = "read" /\ sourceKind = kind
  BY DEF InRead
<1>2. QueryOK(log, sourceKind, x)
  BY <1>1 DEF SourceInv
<1>. QED
  BY <1>1, <1>2 DEF SourceInv, QueryOK, ReadOK

LEMMA ListOffsetKeepsInv ==
    ASSUME SourceInv, NEW c \in SourceQueries, NEW p \in Producers, ListOffset(c, p)
    PROVE  SourceInv'
<1>1. PICK x : x = query[c]
  OBVIOUS
<1>2. /\ LogsOK(log) /\ query[c] # None
      /\ x \in ReadRecord /\ ReadOK(x) /\ x.phase = "read" /\ SeenSoFar(log, x)
  BY <1>1, InReadIs DEF ListOffset
<1>3. PICK n \in Nat : n = Len(log[p])
  BY <1>2 DEF LogsOK
<1>4. PICK f : f = [x.end EXCEPT ![p] = n]
  OBVIOUS
<1>5. x.end \in [Producers -> Nat \cup {None}]
  BY <1>2 DEF ReadRecord
<1>6. f \in [Producers -> Nat \cup {None}] /\ f[p] = n /\ \A q \in Producers : q # p => f[q] = x.end[q]
  BY <1>4, <1>5
<1>7. PICK z : z = [x EXCEPT !.end = f]
  OBVIOUS
<1>8. Read(c, z)
  <2>1. Read(c, [x EXCEPT !.end[p] = Len(log[p])])
    BY <1>1 DEF ListOffset
  <2>2. [x EXCEPT !.end[p] = Len(log[p])] = z
    BY <1>2, <1>3, <1>4, <1>7 DEF ReadRecord
  <2>. QED
    BY <2>1, <2>2
<1>9. /\ ReadOK(z) /\ z.end = f /\ z.pos = x.pos /\ z.marks = x.marks /\ z.rows = x.rows
      /\ z.complete = x.complete /\ z.phase = "read"
  BY <1>2, <1>6, <1>7 DEF ReadOK, ReadRecord
<1>10. \A q \in Producers : f[q] # None => f[q] <= Len(log[q])
  BY <1>2, <1>3, <1>6 DEF SeenSoFar
<1>11. SeenSoFar(log, z)
  BY <1>2, <1>9, <1>10 DEF SeenSoFar
<1>12. QueryOK(log, sourceKind, z)
  BY <1>9, <1>11 DEF QueryOK
<1>. QED
  BY <1>2, <1>8, <1>12, ReadKeepsInv

LEMMA StatObjectKeepsInv ==
    ASSUME SourceInv, NEW c \in SourceQueries, StatObject(c)
    PROVE  SourceInv'
<1>1. PICK x : x = query[c]
  OBVIOUS
<1>2. /\ LakeOK(log, lake) /\ query[c] # None
      /\ x \in ReadRecord /\ ReadOK(x) /\ x.phase = "read" /\ SeenSoFar(log, x)
  BY <1>1, InReadIs DEF StatObject
<1>3. PICK n \in Nat : n = lake.etag
  BY <1>2 DEF LakeOK
<1>4. PICK z : z = [x EXCEPT !.etag = n]
  OBVIOUS
<1>5. Read(c, z)
  BY <1>1, <1>3, <1>4 DEF StatObject
<1>6. /\ ReadOK(z) /\ z.end = x.end /\ z.pos = x.pos /\ z.marks = x.marks /\ z.rows = x.rows
      /\ z.complete = x.complete /\ z.phase = "read"
  BY <1>2, <1>4 DEF ReadOK, ReadRecord
<1>7. SeenSoFar(log, z)
  BY <1>2, <1>6 DEF SeenSoFar
<1>8. QueryOK(log, sourceKind, z)
  BY <1>6, <1>7 DEF QueryOK
<1>. QED
  BY <1>2, <1>5, <1>8, ReadKeepsInv

\* One record more of a partition.
RecordAt(l, p, n) == {[stream |-> p, entry |-> l[p][n]]}
MovedTo(x, y, p, n) == [y EXCEPT !.pos = [x.pos EXCEPT ![p] = n]]

LEMMA SeenOneMore ==
    ASSUME NEW l, LogsOK(l), NEW x, ReadOK(x), SeenSoFar(l, x), NEW p \in Producers,
           x.end[p] # None, x.pos[p] < x.end[p], NEW n, n = x.pos[p] + 1,
           NEW y, ReadsInto(x, y, RecordAt(l, p, n)), x.phase = "read", NEW z, z = MovedTo(x, y, p, n)
    PROVE  ReadOK(z) /\ z.phase = "read" /\ SeenSoFar(l, z)
<1>0. PICK L : L = RecordAt(l, p, n)
  OBVIOUS
<1>3. PICK f : f = [x.pos EXCEPT ![p] = n]
  OBVIOUS
<1>1. ReadOK(y) /\ y \in ReadRecord /\ y.pos = x.pos /\ y.end = x.end /\ y.phase = "read"
  BY <1>0 DEF ReadsInto, ReadOK
<1>2. /\ x.pos \in [Producers -> Nat] /\ x.pos[p] \in Nat /\ x.end[p] \in Nat /\ n \in Nat
      /\ \A q \in Producers : x.pos[q] \in Nat
  BY DEF ReadOK, ReadRecord
<1>4. f \in [Producers -> Nat] /\ f[p] = n /\ \A q \in Producers : q # p => f[q] = x.pos[q]
  BY <1>2, <1>3
<1>5. /\ z \in ReadRecord /\ z.pos = f /\ z.end = x.end /\ z.phase = "read"
      /\ z.rows = y.rows /\ z.complete = y.complete /\ z.marks = y.marks
  BY <1>1, <1>3, <1>4 DEF ReadRecord, MovedTo
<1>6. ReadOK(z)
  BY <1>1, <1>5 DEF ReadOK
<1>7. Len(l[p]) \in Nat /\ n \in 1 .. Len(l[p]) /\ DOMAIN l[p] = 1 .. Len(l[p])
  <2>1. x.end[p] <= Len(l[p]) /\ Len(l[p]) \in Nat /\ DOMAIN l[p] = 1 .. Len(l[p])
    BY DEF SeenSoFar, LogsOK
  <2>. QED
    BY <1>2, <2>1
<1>8. WindowOf(L) = {e \in SourceEvents : InWindow(e) /\ l[p][n].event = e}
  BY <1>0 DEF WindowOf, RecordAt
<1>9. ASSUME NEW q \in Producers
      PROVE  /\ z.end[q] # None => z.end[q] <= Len(l[q])
             /\ z.pos[q] <= Len(l[q])
  BY <1>4, <1>5, <1>7 DEF SeenSoFar
<1>10. ASSUME NEW q \in Producers
       PROVE  z.marks[q] = 0 \/ \E i \in 1 .. z.pos[q] : l[q][i] = Mark(z.marks[q])
  <2>1. 1 .. x.pos[q] \subseteq 1 .. z.pos[q]
    BY <1>2, <1>4, <1>5
  <2>2. CASE y.marks[q] = x.marks[q]
    BY <1>5, <2>1, <2>2 DEF SeenSoFar
  <2>3. CASE \E r \in L : r.stream = q /\ r.entry = Mark(y.marks[q])
    <3>1. q = p /\ l[p][n] = Mark(y.marks[p])
      BY <1>0, <2>3 DEF RecordAt
    <3>2. n \in 1 .. z.pos[p]
      BY <1>2, <1>4, <1>5
    <3>. QED
      BY <1>5, <3>1, <3>2
  <2>. QED
    BY <1>0, <2>2, <2>3 DEF ReadsInto
<1>11. ASSUME NEW q \in Producers, z.complete, NEW i \in 1 .. z.pos[q],
              l[q][i].event \in SourceEvents, InWindow(l[q][i].event)
       PROVE  l[q][i].event \in ToSet(z.rows)
  <2>1. x.complete /\ ToSet(x.rows) \cup WindowOf(L) \subseteq ToSet(z.rows)
    BY <1>0, <1>1, <1>5, <1>11 DEF ReadsInto
  <2>2. CASE i \in 1 .. x.pos[q]
    BY <1>11, <2>1, <2>2 DEF SeenSoFar
  <2>3. CASE i \notin 1 .. x.pos[q]
    <3>1. q = p /\ i = n
      BY <1>2, <1>4, <1>5, <2>3
    <3>. QED
      BY <1>8, <1>11, <2>1, <3>1
  <2>. QED
    BY <2>2, <2>3
<1>12. ToSet(z.rows) \subseteq WindowAll(l)
  <2>1. WindowOf(L) \subseteq WindowIn(l[p])
    BY <1>7, <1>8 DEF WindowIn
  <2>2. ToSet(x.rows) \subseteq WindowAll(l) /\ WindowIn(l[p]) \subseteq WindowAll(l)
    BY DEF SeenSoFar, WindowAll
  <2>3. ToSet(y.rows) \subseteq ToSet(x.rows) \cup WindowOf(L)
    BY <1>0 DEF ReadsInto
  <2>. QED
    BY <1>5, <2>1, <2>2, <2>3
<1>. QED
  BY <1>5, <1>6, <1>9, <1>10, <1>11, <1>12 DEF SeenSoFar

LEMMA PollRecordKeepsInv ==
    ASSUME SourceInv, NEW c \in SourceQueries, NEW p \in Producers, PollRecord(c, p)
    PROVE  SourceInv'
<1>1. PICK x : x = query[c]
  OBVIOUS
<1>2. /\ LogsOK(log) /\ query[c] # None
      /\ x \in ReadRecord /\ ReadOK(x) /\ x.phase = "read" /\ SeenSoFar(log, x)
  BY <1>1, InReadIs DEF PollRecord
<1>3. x.end[p] # None /\ x.pos[p] < x.end[p] /\ x.pos[p] \in Nat /\ x.pos \in [Producers -> Nat]
  BY <1>1, <1>2 DEF PollRecord, AllListed, Pending, ReadRecord
<1>4. PICK n \in Nat : n = x.pos[p] + 1
  BY <1>3
<1>5. PICK y : y = Entry(x, p, log[p][n])
  OBVIOUS
<1>6. ReadsInto(x, y, {[stream |-> p, entry |-> log[p][n]]})
  <2>1. x.end[p] <= Len(log[p]) /\ x.end[p] \in Nat /\ Len(log[p]) \in Nat
    BY <1>2, <1>3 DEF SeenSoFar, LogsOK, ReadRecord
  <2>2. n \in 1 .. Len(log[p])
    BY <1>3, <1>4, <2>1
  <2>3. log[p][n] \in EntryRecord
    BY <1>2, <2>2 DEF LogsOK
  <2>4. \/ \E e \in SourceEvents : log[p][n] = Event(e)
        \/ \E t \in 1 .. 2 : log[p][n] = Mark(t)
    BY <2>3, EntryShape
  <2>5. CASE \E e \in SourceEvents : log[p][n] = Event(e)
    <3>1. PICK e \in SourceEvents : log[p][n] = Event(e)
      BY <2>5
    <3>2. ReadsInto(x, Entry(x, p, Event(e)), {[stream |-> p, entry |-> Event(e)]})
      BY <1>2, EventReads
    <3>. QED
      BY <1>5, <3>1, <3>2
  <2>6. CASE \E t \in 1 .. 2 : log[p][n] = Mark(t)
    <3>1. PICK t \in 1 .. 2 : log[p][n] = Mark(t)
      BY <2>6
    <3>2. ReadsInto(x, Entry(x, p, Mark(t)), {[stream |-> p, entry |-> Mark(t)]})
      BY <1>2, MarkReads
    <3>. QED
      BY <1>5, <3>1, <3>2
  <2>. QED
    BY <2>4, <2>5, <2>6
<1>7. y \in ReadRecord /\ y.pos = x.pos
  BY <1>6 DEF ReadsInto, ReadOK
<1>8. PICK z : z = MovedTo(x, y, p, n)
  OBVIOUS
<1>9. Read(c, z)
  <2>1. Read(c, [Entry(x, p, log[p][x.pos[p] + 1]) EXCEPT !.pos[p] = @ + 1])
    BY <1>1 DEF PollRecord
  <2>2. Read(c, [y EXCEPT !.pos[p] = @ + 1])
    BY <1>4, <1>5, <2>1
  <2>3. [y EXCEPT !.pos[p] = @ + 1] = [y EXCEPT !.pos = [x.pos EXCEPT ![p] = n]]
    BY <1>3, <1>4, <1>7 DEF ReadRecord
  <2>. QED
    BY <1>8, <2>2, <2>3 DEF MovedTo
<1>10. ReadOK(z) /\ z.phase = "read" /\ SeenSoFar(log, z)
  <2>1. ReadsInto(x, y, RecordAt(log, p, n))
    BY <1>6 DEF RecordAt
  <2>. QED
    BY <1>2, <1>3, <1>4, <1>8, <2>1, SeenOneMore
<1>11. QueryOK(log, sourceKind, z)
  BY <1>10 DEF QueryOK
<1>. QED
  BY <1>2, <1>9, <1>11, ReadKeepsInv

\* An answer that is made partial, or stays what it is.
LEMMA PartialIs ==
    ASSUME NEW x, ReadOK(x), NEW b \in BOOLEAN, NEW z, z = [x EXCEPT !.complete = b]
    PROVE  /\ ReadOK(z) /\ z.complete = b /\ z.rows = x.rows /\ z.phase = x.phase /\ z.marks = x.marks
           /\ z.pos = x.pos /\ z.end = x.end
  BY DEF ReadOK, ReadRecord

LEMMA FinishScanKeepsInv ==
    ASSUME SourceInv, NEW c \in SourceQueries, FinishScan(c)
    PROVE  SourceInv'
<1>1. PICK x : x = query[c]
  OBVIOUS
<1>2. /\ LogsOK(log) /\ query[c] # None
      /\ x \in ReadRecord /\ ReadOK(x) /\ x.phase = "read" /\ SeenSoFar(log, x)
  BY <1>1, InReadIs DEF FinishScan
<1>3. PICK now \in 1 .. 2 : Read(c, KafkaDone(x, now))
  BY <1>1 DEF FinishScan, Clock, WindowEnd
<1>4. PICK b : b = (x.complete /\ Pending(x) = {})
  OBVIOUS
<1>5. b \in BOOLEAN /\ (b => x.complete)
  BY <1>4, Zenon
<1>6. PICK y : y = [x EXCEPT !.complete = b]
  OBVIOUS
<1>7. ReadOK(y) /\ y.complete = b /\ y.rows = x.rows /\ y.marks = x.marks
  BY <1>2, <1>5, <1>6, PartialIs
<1>8. PICK z : z = AllMarks(y, now)
  OBVIOUS
<1>9. ReadOK(z) /\ z.phase = "done" /\ z.rows = y.rows /\ (Covered(z) => y.complete /\ \A p \in Producers : y.marks[p] = 2)
  BY <1>7, <1>8, AllMarksIs
<1>10. Read(c, z)
  <2>1. [x EXCEPT !.complete = @ /\ Pending(x) = {}] = y
    BY <1>2, <1>4, <1>6 DEF ReadRecord
  <2>. QED
    BY <1>3, <1>8, <2>1 DEF KafkaDone
<1>11. ASSUME Covered(z) PROVE Whole(log, z.rows)
  <2>1. x.complete /\ \A p \in Producers : x.marks[p] = 2
    BY <1>5, <1>7, <1>9, <1>11
  <2>2. Whole(log, x.rows)
    BY <1>2, <2>1, SeenIsWhole
  <2>. QED
    BY <1>7, <1>9, <2>2
<1>12. QueryOK(log, sourceKind, z)
  BY <1>9, <1>11 DEF QueryOK
<1>. QED
  BY <1>2, <1>10, <1>12, ReadKeepsInv

\* All streams at once.
LEMMA StreamsAreWhole ==
    ASSUME LogsOK(log), NEW x, ReadOK(x), SeenSoFar(log, x), NEW z, ReadsInto(x, z, ToSet(InStreamOrder)),
           z.complete, \A p \in Producers : z.marks[p] = 2
    PROVE  Whole(log, z.rows)
<1>0. log \in [Producers -> Seq(EntryRecord)]
  BY DEF LogsOK
<1>1. PICK L : L = ToSet(InStreamOrder)
  OBVIOUS
<1>2. L = UNION {{[stream |-> p, entry |-> log[p][j]] : j \in DOMAIN log[p]} : p \in Producers}
  BY <1>0, <1>1, StreamOrder
<1>3. \A r : r \in L <=> \E p \in Producers : \E j \in DOMAIN log[p] : r = [stream |-> p, entry |-> log[p][j]]
  BY <1>2
<1>4. WindowOf(L) = WindowAll(log)
  <2>1. ASSUME NEW e \in SourceEvents
        PROVE  (\E r \in L : r.entry.event = e) <=> \E p \in Producers : \E j \in DOMAIN log[p] : log[p][j].event = e
    <3>1. ASSUME NEW r \in L, r.entry.event = e
          PROVE  \E p \in Producers : \E j \in DOMAIN log[p] : log[p][j].event = e
      <4>1. PICK p \in Producers : \E j \in DOMAIN log[p] : r = [stream |-> p, entry |-> log[p][j]]
        BY <1>3, <3>1
      <4>2. PICK j \in DOMAIN log[p] : r = [stream |-> p, entry |-> log[p][j]]
        BY <4>1
      <4>3. r.entry = log[p][j]
        BY <4>2
      <4>. QED
        BY <3>1, <4>2, <4>3
    <3>2. ASSUME NEW p \in Producers, NEW j \in DOMAIN log[p], log[p][j].event = e
          PROVE  \E r \in L : r.entry.event = e
      <4>1. PICK r : r = [stream |-> p, entry |-> log[p][j]]
        OBVIOUS
      <4>2. r \in L
        BY <1>3, <4>1
      <4>3. r.entry = log[p][j]
        BY <4>1
      <4>. QED
        BY <3>2, <4>2, <4>3
    <3>. QED
      BY <3>1, <3>2
  <2>. QED
    BY <2>1 DEF WindowOf, WindowAll, WindowIn
<1>5. ToSet(z.rows) = WindowAll(log)
  BY <1>1, <1>4 DEF ReadsInto, SeenSoFar
<1>6. ASSUME NEW p \in Producers PROVE MarkIn(log[p]) = 2
  <2>1. log[p] \in Seq(EntryRecord) /\ Len(log[p]) \in Nat /\ DOMAIN log[p] = 1 .. Len(log[p])
    BY <1>0
  <2>2. \E i \in DOMAIN log[p] : log[p][i] = Mark(2)
    <3>1. CASE z.marks[p] = x.marks[p]
      <4>1. x.pos[p] \in Nat /\ x.pos[p] <= Len(log[p])
        BY DEF SeenSoFar, ReadOK, ReadRecord
      <4>2. PICK i \in 1 .. x.pos[p] : log[p][i] = Mark(2)
        BY <3>1 DEF SeenSoFar
      <4>3. i \in DOMAIN log[p]
        BY <2>1, <4>1
      <4>. QED
        BY <4>2, <4>3
    <3>2. CASE \E r \in L : r.stream = p /\ r.entry = Mark(z.marks[p])
      <4>1. PICK r \in L : r.stream = p /\ r.entry = Mark(2)
        BY <3>2
      <4>2. PICK q \in Producers : \E j \in DOMAIN log[q] : r = [stream |-> q, entry |-> log[q][j]]
        BY <1>3, <4>1
      <4>3. PICK j \in DOMAIN log[q] : r = [stream |-> q, entry |-> log[q][j]]
        BY <4>2
      <4>4. q = p /\ log[q][j] = Mark(2)
        BY <4>1, <4>3
      <4>. QED
        BY <4>3, <4>4
    <3>. QED
      BY <1>1, <3>1, <3>2 DEF ReadsInto
  <2>. QED
    BY <2>1, <2>2, MarkIsIn
<1>. QED
  BY <1>5, <1>6 DEF Whole

LEMMA QueryRangeKeepsInv ==
    ASSUME SourceInv, NEW c \in SourceQueries, QueryRange(c)
    PROVE  SourceInv'
<1>1. PICK x : x = query[c]
  OBVIOUS
<1>2. /\ LogsOK(log) /\ query[c] # None
      /\ x \in ReadRecord /\ ReadOK(x) /\ x.phase = "read" /\ SeenSoFar(log, x)
  BY <1>1, InReadIs DEF QueryRange
<1>3. PICK all : all = InStreamOrder
  OBVIOUS
<1>4. PICK got : got = FirstRows(all, MaxScanRecords)
  OBVIOUS
<1>5. PICK y : y = Entries(x, got)
  OBVIOUS
<1>6. PICK now \in 1 .. 2 : Read(c, AllMarks([y EXCEPT !.complete = @ /\ Len(got) < MaxScanRecords], now))
  BY <1>1, <1>3, <1>4, <1>5 DEF QueryRange, Clock, WindowEnd, FirstRows
<1>7. all \in Seq(StreamRecord)
  BY <1>2, <1>3, StreamOrder DEF LogsOK
<1>8. got \in Seq(StreamRecord) /\ (Len(got) < MaxScanRecords => got = all)
  BY <1>4, <1>7, FirstOf, SourceAssumption
<1>9. ReadsInto(x, y, ToSet(got))
  BY <1>2, <1>5, <1>8, EntriesRead
<1>10. ReadOK(y) /\ y \in ReadRecord
  BY <1>9 DEF ReadsInto, ReadOK
<1>11. PICK b : b = (y.complete /\ Len(got) < MaxScanRecords)
  OBVIOUS
<1>12. b \in BOOLEAN /\ (b => y.complete /\ Len(got) < MaxScanRecords)
  BY <1>11, Zenon
<1>13. PICK u : u = [y EXCEPT !.complete = b]
  OBVIOUS
<1>14. ReadOK(u) /\ u.complete = b /\ u.rows = y.rows /\ u.marks = y.marks
  BY <1>10, <1>12, <1>13, PartialIs
<1>15. PICK z : z = AllMarks(u, now)
  OBVIOUS
<1>16. ReadOK(z) /\ z.phase = "done" /\ z.rows = u.rows /\ (Covered(z) => u.complete /\ \A p \in Producers : u.marks[p] = 2)
  BY <1>14, <1>15, AllMarksIs
<1>17. Read(c, z)
  <2>1. [y EXCEPT !.complete = @ /\ Len(got) < MaxScanRecords] = u
    BY <1>10, <1>11, <1>13 DEF ReadRecord
  <2>. QED
    BY <1>6, <1>15, <2>1
<1>18. ASSUME Covered(z) PROVE Whole(log, z.rows)
  <2>1. y.complete /\ (\A p \in Producers : y.marks[p] = 2) /\ got = all
    BY <1>8, <1>12, <1>14, <1>16, <1>18
  <2>2. ReadsInto(x, y, ToSet(InStreamOrder))
    BY <1>3, <1>9, <2>1
  <2>3. Whole(log, y.rows)
    BY <1>2, <2>1, <2>2, StreamsAreWhole
  <2>. QED
    BY <1>14, <1>16, <2>3
<1>19. QueryOK(log, sourceKind, z)
  BY <1>16, <1>18 DEF QueryOK
<1>. QED
  BY <1>2, <1>17, <1>19, ReadKeepsInv

LEMMA ListedIs ==
    ASSUME LogsOK(log)
    PROVE  /\ ListedMarks \subseteq 0 .. 2
           /\ WatermarkRows = Producers => \A p \in Producers : MarkIn(log[p]) \in ListedMarks
  BY MarksOfLogs DEF ListedMarks

\* The samples come first and promise nothing yet ...
LEMMA QuerySamplesKeepsInv ==
    ASSUME SourceInv, NEW c \in SourceQueries, QuerySamples(c)
    PROVE  SourceInv'
<1>1. PICK x : x = query[c]
  OBVIOUS
<1>2. /\ LogsOK(log) /\ query[c] # None /\ sourceKind = "prometheus"
      /\ x \in ReadRecord /\ ReadOK(x)
  BY <1>1, InReadIs DEF QuerySamples
<1>3. PICK samples : samples = SetToSeq(WindowEvents)
  OBVIOUS
<1>4. PICK got : got = FirstRows(samples, MaxScanRecords)
  OBVIOUS
<1>5. PICK y : y = appendRows(x, got)
  OBVIOUS
<1>6. PICK b : b = (y.complete /\ Len(samples) <= MaxScanRecords /\ y.rows # <<>>)
  OBVIOUS
<1>7. b \in BOOLEAN
  BY <1>6, Zenon
<1>8. samples \in Seq(SourceEvents)
  BY <1>2, <1>3, SnapshotRows
<1>9. got \in Seq(SourceEvents)
  BY <1>4, <1>8, FirstOf, SourceAssumption
<1>10. ReadOK(y) /\ y \in ReadRecord
  BY <1>2, <1>5, <1>9, RowsRead DEF ReadOK
<1>11. PICK z : z = [y EXCEPT !.phase = "watermark", !.complete = b]
  OBVIOUS
<1>12. ReadOK(z) /\ z.phase = "watermark"
  BY <1>7, <1>10, <1>11 DEF ReadOK, ReadRecord
<1>13. Read(c, z)
  <2>1. Read(c, [y EXCEPT !.phase = "watermark",
                          !.complete = @ /\ Len(samples) <= MaxScanRecords /\ y.rows # <<>>])
    BY <1>1, <1>3, <1>4, <1>5 DEF QuerySamples, FirstRows
  <2>2. [y EXCEPT !.phase = "watermark", !.complete = @ /\ Len(samples) <= MaxScanRecords /\ y.rows # <<>>] = z
    BY <1>6, <1>10, <1>11 DEF ReadRecord
  <2>. QED
    BY <2>1, <2>2
<1>14. QueryOK(log, sourceKind, z)
  BY <1>2, <1>12 DEF QueryOK
<1>. QED
  BY <1>2, <1>13, <1>14, ReadKeepsInv

\* ... and the watermark of a later request is not of those samples.
LEMMA QueryWatermarkKeepsInv ==
    ASSUME SourceInv, NEW c \in SourceQueries, QueryWatermark(c)
    PROVE  SourceInv'
<1>1. PICK x : x = query[c]
  OBVIOUS
<1>2. query[c] # None /\ x.phase = "watermark" /\ LogsOK(log)
  BY <1>1 DEF QueryWatermark, SourceInv
<1>3. QueryOK(log, sourceKind, x)
  BY <1>1, <1>2 DEF SourceInv
<1>4. ReadOK(x) /\ x \in ReadRecord /\ sourceKind = "prometheus"
  BY <1>2, <1>3 DEF QueryOK, ReadOK
<1>5. PICK T : T = ListedMarks
  OBVIOUS
<1>6. T \subseteq 0 .. 2
  BY <1>2, <1>5, ListedIs
<1>7. PICK now \in 1 .. 2 : Read(c, [x EXCEPT !.phase = "done", !.complete = @ /\ T # {},
                                              !.watermark = IF T = {} THEN Epoch ELSE Min(T \cup {now})])
  BY <1>1, <1>5 DEF QueryWatermark, Clock, WindowEnd
<1>8. PICK w : w = IF T = {} THEN Epoch ELSE Min(T \cup {now})
  OBVIOUS
<1>9. w \in 0 .. 2
  <2>1. T \cup {now} \subseteq 0 .. 2 /\ T \cup {now} # {}
    BY <1>6
  <2>2. Min(T \cup {now}) \in 0 .. 2
    BY <2>1, LeastIs
  <2>. QED
    BY <1>8, <2>2 DEF Epoch
<1>10. PICK b : b = (x.complete /\ T # {})
  OBVIOUS
<1>11. b \in BOOLEAN
  BY <1>10, Zenon
<1>12. PICK z : z = [x EXCEPT !.phase = "done", !.complete = b, !.watermark = w]
  OBVIOUS
<1>13. ReadOK(z) /\ z.phase = "done"
  BY <1>4, <1>9, <1>11, <1>12 DEF ReadOK, ReadRecord
<1>14. Read(c, z)
  <2>1. [x EXCEPT !.phase = "done", !.complete = @ /\ T # {}, !.watermark = IF T = {} THEN Epoch ELSE Min(T \cup {now})] = z
    BY <1>4, <1>8, <1>10, <1>12 DEF ReadRecord
  <2>. QED
    BY <1>7, <2>1
<1>15. QueryOK(log, sourceKind, z)
  BY <1>4, <1>13 DEF QueryOK, Trusted
<1>. QED
  BY <1>2, <1>14, <1>15, ReadKeepsInv

\* Watermark and rows of one snapshot.
LEMMA SelectRowsKeepsInv ==
    ASSUME SourceInv, NEW c \in SourceQueries, SelectRows(c)
    PROVE  SourceInv'
<1>1. PICK x : x = query[c]
  OBVIOUS
<1>2. /\ LogsOK(log) /\ query[c] # None /\ sourceKind = "postgres"
      /\ x \in ReadRecord /\ ReadOK(x) /\ SeenSoFar(log, x)
  BY <1>1, InReadIs DEF SelectRows
<1>3. PICK wanted : wanted = Min({RowLimit, MaxScanRecords})
  OBVIOUS
<1>4. wanted \in Nat
  <2>1. RowLimit \in Nat /\ MaxScanRecords \in Nat /\ RowLimit \in Int /\ MaxScanRecords \in Int
    BY SourceAssumption
  <2>2. wanted \in {RowLimit, MaxScanRecords}
    BY <1>3, <2>1, MinIsIn
  <2>. QED
    BY <2>1, <2>2
<1>5. PICK rows : rows = SetToSeq(WindowEvents)
  OBVIOUS
<1>6. rows \in Seq(SourceEvents) /\ ToSet(rows) = WindowAll(log)
  BY <1>2, <1>5, SnapshotRows
<1>7. PICK got : got = FirstRows(rows, wanted)
  OBVIOUS
<1>8. got \in Seq(SourceEvents) /\ ToSet(got) \subseteq ToSet(rows) /\ (Len(rows) <= wanted => got = rows)
  BY <1>4, <1>6, <1>7, FirstOf
<1>9. PICK y : y = appendRows(x, got)
  OBVIOUS
<1>10. /\ ReadOK(y)
       /\ ToSet(y.rows) \subseteq ToSet(x.rows) \cup {e \in ToSet(got) : InWindow(e)}
       /\ y.complete => {e \in ToSet(got) : InWindow(e)} \subseteq ToSet(y.rows)
  BY <1>2, <1>8, <1>9, RowsRead
<1>11. y \in ReadRecord
  BY <1>10 DEF ReadOK
<1>12. PICK T : T = ListedMarks
  OBVIOUS
<1>13. T \subseteq 0 .. 2 /\ (WatermarkRows = Producers => \A p \in Producers : MarkIn(log[p]) \in T)
  BY <1>2, <1>12, ListedIs
<1>14. PICK w : w = Least(T)
  OBVIOUS
<1>15. w \in 0 .. 2 /\ \A m \in T : w <= m
  BY <1>13, <1>14, LeastIs
<1>16. PICK b : b = (y.complete /\ Len(rows) <= wanted /\ T # {})
  OBVIOUS
<1>17. b \in BOOLEAN /\ (b => y.complete /\ Len(rows) <= wanted)
  BY <1>16, Zenon
<1>18. PICK z : z = [y EXCEPT !.phase = "done", !.watermark = w, !.complete = b]
  OBVIOUS
<1>19. ReadOK(z) /\ z.phase = "done" /\ z.rows = y.rows /\ z.complete = b /\ z.watermark = w
  BY <1>10, <1>11, <1>15, <1>17, <1>18 DEF ReadOK, ReadRecord
<1>20. Read(c, z)
  <2>1. Read(c, [y EXCEPT !.phase = "done", !.watermark = Least(T),
                          !.complete = @ /\ Len(rows) <= wanted /\ T # {}])
    BY <1>1, <1>3, <1>5, <1>7, <1>9, <1>12 DEF SelectRows, FirstRows
  <2>2. [y EXCEPT !.phase = "done", !.watermark = Least(T), !.complete = @ /\ Len(rows) <= wanted /\ T # {}] = z
    BY <1>11, <1>14, <1>16, <1>18 DEF ReadRecord
  <2>. QED
    BY <2>1, <2>2
<1>21. ASSUME Covered(z), Trusted(sourceKind) PROVE Whole(log, z.rows)
  <2>1. b /\ w >= 2
    BY <1>19, <1>21 DEF Covered, WindowEnd
  <2>2. \A m \in T : m = 2
    BY <1>13, <1>15, <2>1
  <2>3. \A p \in Producers : MarkIn(log[p]) = 2
    BY <1>2, <1>13, <1>21, <2>2 DEF Trusted
  <2>4. ToSet(got) = WindowAll(log) /\ y.complete
    BY <1>6, <1>8, <1>17, <2>1
  <2>5. \A e \in WindowAll(log) : InWindow(e)
    BY DEF WindowAll, WindowIn
  <2>6. ToSet(x.rows) \subseteq WindowAll(log)
    BY <1>2 DEF SeenSoFar
  <2>7. ToSet(y.rows) = WindowAll(log)
    BY <1>10, <2>4, <2>5, <2>6
  <2>. QED
    BY <1>19, <2>3, <2>7 DEF Whole
<1>22. QueryOK(log, sourceKind, z)
  BY <1>19, <1>21 DEF QueryOK
<1>. QED
  BY <1>2, <1>20, <1>22, ReadKeepsInv

\* The object says of itself whether it is whole.
LEMMA GetObjectKeepsInv ==
    ASSUME SourceInv, NEW c \in SourceQueries, GetObject(c)
    PROVE  SourceInv'
<1>1. PICK x : x = query[c]
  OBVIOUS
<1>2. /\ LogsOK(log) /\ LakeOK(log, lake) /\ query[c] # None
      /\ x \in ReadRecord /\ ReadOK(x) /\ SeenSoFar(log, x)
  BY <1>1, InReadIs DEF GetObject
<1>3. /\ lake.rows \in Seq(SourceEvents) /\ lake.watermark \in 0 .. 2 /\ lake.complete \in BOOLEAN
      /\ lake.complete /\ lake.watermark >= 2 => Whole(log, lake.rows)
  BY <1>2 DEF LakeOK
<1>4. PICK y : y = [x EXCEPT !.phase = "done", !.watermark = lake.watermark, !.complete = lake.complete]
  OBVIOUS
<1>5. ReadOK(y) /\ y.phase = "done" /\ y.rows = x.rows /\ y.watermark = lake.watermark /\ y.complete = lake.complete
  BY <1>2, <1>3, <1>4 DEF ReadOK, ReadRecord
<1>6. PICK z : z = appendRows(y, lake.rows)
  OBVIOUS
<1>7. /\ ReadOK(z) /\ z.phase = "done" /\ z.watermark = lake.watermark
      /\ ToSet(z.rows) \subseteq ToSet(y.rows) \cup {e \in ToSet(lake.rows) : InWindow(e)}
      /\ z.complete => y.complete /\ {e \in ToSet(lake.rows) : InWindow(e)} \subseteq ToSet(z.rows)
  BY <1>3, <1>5, <1>6, RowsRead
<1>8. Read(c, z)
  BY <1>1, <1>4, <1>6 DEF GetObject
<1>9. ASSUME Covered(z) PROVE Whole(log, z.rows)
  <2>1. z.complete /\ lake.complete /\ lake.watermark >= 2
    BY <1>5, <1>7, <1>9 DEF Covered, WindowEnd
  <2>2. Whole(log, lake.rows) /\ ToSet(lake.rows) = WindowAll(log)
    BY <1>3, <2>1 DEF Whole
  <2>3. \A e \in WindowAll(log) : InWindow(e)
    BY DEF WindowAll, WindowIn
  <2>4. ToSet(y.rows) \subseteq WindowAll(log)
    BY <1>2, <1>5 DEF SeenSoFar
  <2>5. ToSet(z.rows) = WindowAll(log)
    BY <1>7, <2>1, <2>2, <2>3, <2>4
  <2>. QED
    BY <2>2, <2>5 DEF Whole
<1>10. QueryOK(log, sourceKind, z)
  BY <1>7, <1>9 DEF QueryOK
<1>. QED
  BY <1>2, <1>8, <1>10, ReadKeepsInv

LEMMA SourceStepInv == SourceInv /\ [SourceNext]_sourceVars => SourceInv'
<1>. SUFFICES ASSUME SourceInv, [SourceNext]_sourceVars PROVE SourceInv'
  OBVIOUS
<1>1. CASE UNCHANGED sourceVars
  BY <1>1 DEF sourceVars, SourceInv
<1>2. CASE SourceNext
  <2>1. CASE (\E e \in SourceEvents : WriteEvent(e)) \/ (\E p \in Producers : WriteMark(p))
    BY <2>1, ProduceKeepsInv
  <2>2. CASE ExportSnapshot
    BY <2>2, ExportKeepsInv
  <2>3. ASSUME NEW c \in SourceQueries, BeginQuery(c) PROVE SourceInv'
    BY <2>3, BeginKeepsInv
  <2>4. ASSUME NEW c \in SourceQueries, NEW p \in Producers, ListOffset(c, p) \/ PollRecord(c, p) PROVE SourceInv'
    BY <2>4, ListOffsetKeepsInv, PollRecordKeepsInv
  <2>5. ASSUME NEW c \in SourceQueries, FinishScan(c) \/ QueryRange(c) \/ QuerySamples(c) \/ QueryWatermark(c)
        PROVE  SourceInv'
    BY <2>5, FinishScanKeepsInv, QueryRangeKeepsInv, QuerySamplesKeepsInv, QueryWatermarkKeepsInv
  <2>6. ASSUME NEW c \in SourceQueries, SelectRows(c) \/ StatObject(c) \/ GetObject(c) PROVE SourceInv'
    BY <2>6, SelectRowsKeepsInv, StatObjectKeepsInv, GetObjectKeepsInv
  <2>7. ASSUME NEW c \in SourceQueries, Deliver(c) \/ ReadFails(c) PROVE SourceInv'
    BY <2>7, EndKeepsInv
  <2>. QED
    BY <1>2, <2>1, <2>2, <2>3, <2>4, <2>5, <2>6, <2>7 DEF SourceNext
<1>. QED
  BY <1>1, <1>2

\* An answer that calls itself complete has the window's events, those written
\* later included: producers that promised the end of the window add none, and
\* an answer with their watermarks had read all before them.  For a
\* PostgreSQL view this needs a watermark row for every producer.
THEOREM CompleteWhole ==
    ASSUME "postgres" \in SourceKinds => WatermarkRows = Producers
    PROVE  SourceSpec => []CompleteIsWhole
<1>1. ASSUME SourceInv PROVE CompleteIsWhole
  <2>. SUFFICES ASSUME NEW c \in SourceQueries, envelope[c] # None, envelope[c].complete, sourceKind # "prometheus"
                PROVE  ToSet(envelope[c].rows) = WindowEvents
    BY DEF CompleteIsWhole
  <2>1. AnswerOK(log, sourceKind, envelope[c]) /\ LogsOK(log) /\ sourceKind \in SourceKinds
    BY <1>1 DEF SourceInv
  <2>2. Trusted(sourceKind)
    BY <2>1 DEF Trusted
  <2>3. ToSet(envelope[c].rows) = WindowAll(log)
    BY <2>1, <2>2 DEF AnswerOK, Whole
  <2>. QED
    BY <2>1, <2>3, SnapshotRows
<1>. QED
  BY <1>1, SourceInitInv, SourceStepInv, PTL DEF SourceSpec

\* Reads stay inside their bounds, answers have no event twice, and the slots
\* of the adapter are those of the queries that run.
THEOREM SourceTypes == SourceSpec => []SourceTypeOK
<1>1. ASSUME SourceInv PROVE SourceTypeOK
  <2>1. \A p \in Producers : Len(log[p]) <= MaxEntries[p]
    BY <1>1 DEF SourceInv, LogsOK
  <2>2. ASSUME NEW c \in SourceQueries, query[c] # None
        PROVE  /\ query[c].phase \in {"read", "watermark", "done"}
               /\ Len(query[c].rows) <= RowLimit /\ query[c].complete \in BOOLEAN
               /\ query[c].watermark \in Epoch .. WindowEnd
    <3>1. ReadOK(query[c])
      BY <1>1, <2>2 DEF SourceInv, QueryOK
    <3>. QED
      BY <3>1 DEF ReadOK, ReadRecord, Epoch, WindowEnd
  <2>3. ASSUME NEW c \in SourceQueries, envelope[c] # None
        PROVE  envelope[c].complete \in BOOLEAN /\ IsInjective(envelope[c].rows)
    BY <1>1, <2>3 DEF SourceInv, AnswerOK, AnswerRecord
  <2>4. lake.etag \in 0 .. MaxSnapshots
    BY <1>1 DEF SourceInv, LakeOK
  <2>5. active = Cardinality({c \in SourceQueries : query[c] # None}) /\ active <= MaxActive
    BY <1>1 DEF SourceInv, CountOK
  <2>. QED
    BY <1>1, <2>1, <2>2, <2>3, <2>4, <2>5 DEF SourceTypeOK, SourceInv
<1>. QED
  BY <1>1, SourceInitInv, SourceStepInv, PTL DEF SourceSpec

=============================================================================

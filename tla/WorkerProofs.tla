---------------------------- MODULE WorkerProofs ----------------------------
(***************************************************************************)
(* Proofs about what workers leave behind: the remedy of an incident       *)
(* (RemedyEffects), the evidence of a stage (StageWorker) and the records  *)
(* of an operation (OperationTrace); and about the six components of       *)
(* MCExecutors together: the composition implements each of them, and its  *)
(* states are well typed.                                                  *)
(*                                                                         *)
(* None of the three properties is inductive.  A remedy found on the       *)
(* endpoint is the recorded one only because every request in flight       *)
(* carries the digest of the original state, which does not come back      *)
(* unseen, and because whoever holds the lease works on the open step.  A  *)
(* success cites what it needs only because what is still to be put and    *)
(* what was put add up to it at every point of the handler.  A mutation    *)
(* has its intent only because no handler runs without one, and a record   *)
(* is exported only with an answer that says it was received.              *)
(***************************************************************************)
EXTENDS MCExecutors, DeliveryProofs, CodeGraphProofs, GovernanceProofs, SequenceTheorems, FiniteSetTheorems, TLAPS

-----------------------------------------------------------------------------
(* The inductive invariants *)

\* The remedy of an action is on the endpoint, or somebody has touched the
\* endpoint since.
Found(action) ==
    \/ endpoint.restored \/ endpoint.state = "foreign"
    \/ endpoint.state = "desired" /\ endpoint.action = action

RemedierStands(e) ==
    /\ e.fence <= incident.fence
    /\ e.pc # "idle" /\ incident.open /\ e.fence = incident.fence /\ incident.stage = "remediate" =>
          e.action = incident.step
    /\ e.canWrite => e.action >= 1
    /\ e.pc = "put" => e.canWrite /\ e.etag = "before"
    /\ e.pc \in {"effect", "observe"} \/ e.outcome = "succeeded" => Found(e.action)

RemedyInv ==
    /\ RemedyTypeOK /\ ReplacesAuthorizedState
    /\ \A q \in flight : q.etag = "before"
    /\ incident.open /\ incident.stage = "remediate" => incident.step >= 1
    /\ incident.remedied # 0 => Found(incident.remedied)
    /\ \A x \in Remediers : RemedierStands(remedier[x])

\* What a sequence of evidence still holds.
Left(todo) == {todo[i] : i \in 1 .. Len(todo)}

ModelEvidence == {"prompt", "response", "manifest"}

\* What a success cites besides its own evidence: the model's answer.
Pinned(w) == w.answeredBy = "pinned" \/ w.restored
Answered(w) == w.stage # "evaluate" => Pinned(w) /\ w.tokens <= MaxOutputTokens

\* What was cited before a point of the handler is due at it.
Due(w, at, cited) ==
    /\ at = "decode" => w.stage # "evaluate" /\ cited = ModelEvidence /\ Answered(w)
    /\ at = "succeed" => cited = EvidenceFor(w.stage) /\ Answered(w)
    /\ at \in {"decode", "fail", "succeed", "reject"}

WorkInv(w) ==
    /\ w.pc \in {"disclose", "fetch", "observe", "check", "generate", "recheck"} =>
          w.cited = {} /\ (w.pc = "fetch" <=> w.stage = "evaluate")
    /\ w.pc = "recheck" /\ w.bounded => w.tokens <= MaxOutputTokens
    /\ w.pc \in {"spool", "write", "publish", "send"} =>
          w.todo # << >> /\ Due(w, w.then, w.cited \cup Left(w.todo))
    /\ w.pc = "publish" => w.temporary = "whole"
    /\ w.pc = "send" => spool[Head(w.todo)] = "whole"
    /\ w.pc \in {"decode", "fail", "succeed", "reject"} => Due(w, w.pc, w.cited)
    /\ w.pc \in {"report", "done"} /\ w.outcome = "succeeded" => EvidenceFor(w.stage) = w.cited /\ Answered(w)

StageInv ==
    /\ StageTypeOK /\ EvidenceSpooledFirst /\ WorkInv(work)
    /\ work.cited \subseteq held
    /\ work.pc = "recheck" /\ inventory = "pinned" => Pinned(work)

RecordRow == [call : ToolCalls, level : {"envelope", "tool"}, phase : {"intent", "commit", "outcome"},
              outcome : {"pending", "success", "failed", "denied"}]
ExportRow == [record : RecordRow, receipt : {"none", "accepted", "lost", "rejected"}]

\* The operation of a call at a level has an outcome.
HasOutcome(c, level) == \E r \in records : r.call = c /\ r.level = level /\ r.phase = "outcome"

\* Someone carried out the call's request.
Carried(c) == \E d \in mutated : RequestOf[d] = RequestOf[c]

AtWork == {"running", "writing", "committing"}

CallStands(c, row) ==
    /\ row.at \in {"new", "entered", "handled"} \cup AtWork => ~HasOutcome(c, "tool")
    /\ row.at # "ended" => ~HasOutcome(c, "envelope")
    /\ row.at \in AtWork => Record(c, "tool", "intent", "pending") \in records
    /\ row.at \in {"handled", "enveloped"} => row.result # "none"
    /\ row.result = "success" => Carried(c)
    /\ row.at \in {"new", "entered", "running", "writing"} => ~row.audit
    /\ row.at = "writing" => c \notin UnauditedCalls
    /\ row.at = "committing" => (row.audit <=> c \notin UnauditedCalls)

OneOutcome ==
    \A r, s \in records :
        r.phase = "outcome" /\ s.phase = "outcome" /\ r.call = s.call /\ r.level = s.level => r = s

ExportStands(e) ==
    e.record \in records /\ (e.receipt \in {"accepted", "lost"} => e.record \in collector)

TraceInv ==
    /\ call \in [ToolCalls -> CallRow] /\ records \subseteq RecordRow /\ mutated \subseteq ToolCalls
    /\ exporting \in [Exporters -> ExportRow \cup {None}]
    /\ \A c \in ToolCalls : CallStands(c, call[c])
    /\ OneOutcome
    /\ \A c \in ToolCalls : CommitRecord(c) \in records <=> c \in mutated \ UnauditedCalls
    /\ \A c \in mutated : Record(c, "tool", "intent", "pending") \in records
    /\ \A c, d \in mutated \ UnauditedCalls : RequestOf[c] = RequestOf[d] => c = d
    /\ \A r \in records : r.phase = "outcome" /\ r.outcome = "success" => Carried(r.call)
    /\ collector \subseteq records /\ exported \subseteq collector
    /\ \A x \in Exporters : exporting[x] # None => ExportStands(exporting[x])

-----------------------------------------------------------------------------
(* Operation records *)

LEMMA RecordIs ==
    ASSUME NEW c, NEW level, NEW phase, NEW outcome
    PROVE  /\ Record(c, level, phase, outcome).call = c /\ Record(c, level, phase, outcome).level = level
           /\ Record(c, level, phase, outcome).phase = phase /\ Record(c, level, phase, outcome).outcome = outcome
BY DEF Record

LEMMA TraceInitInv == TraceInit => TraceInv
<1> SUFFICES ASSUME TraceInit PROVE TraceInv
    OBVIOUS
<1>1. /\ call \in [ToolCalls -> CallRow]
      /\ \A c \in ToolCalls : call[c].at = "new" /\ call[c].result = "none" /\ ~call[c].audit
    BY DEF TraceInit, CallRow
<1>2. records = {} /\ mutated = {} /\ exported = {} /\ collector = {} /\ exporting = [x \in Exporters |-> None]
    BY DEF TraceInit
<1>3. \A c \in ToolCalls : CallStands(c, call[c])
    BY <1>1, <1>2 DEF CallStands, HasOutcome, AtWork
<1> QED
    BY <1>1, <1>2, <1>3 DEF TraceInv, OneOutcome

\* One call moves on, with at most a record of its own that is no outcome it
\* had, and a mutation with the commit record that is due.
LEMMA CallKeepsInv ==
    ASSUME TraceInv, NEW c \in ToolCalls, NEW row \in CallRow, NEW added \in SUBSET RecordRow,
           call' = [call EXCEPT ![c] = row], records' = records \cup added,
           \A r \in added : r.call = c,
           \A r \in added : r.phase = "outcome" => ~HasOutcome(c, r.level),
           \A r, s \in added : r.phase = "outcome" /\ s.phase = "outcome" /\ r.level = s.level => r = s,
           \A r \in added : r.phase = "outcome" /\ r.outcome = "success" => Carried(c),
           \/ mutated' = mutated /\ \A r \in added : r.phase # "commit"
           \/ /\ mutated' = mutated \cup {c} /\ ~Repeated(c)
              /\ c \notin UnauditedCalls => CommitRecord(c) \in added
              /\ c \in UnauditedCalls => \A r \in added : r.phase # "commit"
              /\ Record(c, "tool", "intent", "pending") \in records,
           CallStands(c, row)', UNCHANGED <<exported, collector, exporting>>
    PROVE  TraceInv'
<1>1. /\ call' \in [ToolCalls -> CallRow] /\ call'[c] = row /\ \A d \in ToolCalls : d # c => call'[d] = call[d]
      /\ records' \subseteq RecordRow /\ mutated' \subseteq ToolCalls /\ records \subseteq records'
      /\ mutated \subseteq mutated' /\ \A d \in ToolCalls : d # c => (d \in mutated' <=> d \in mutated)
    BY DEF TraceInv
<1>2. ASSUME NEW d \in ToolCalls, d # c PROVE CallStands(d, call[d])'
  <2>1. \A level : HasOutcome(d, level)' <=> HasOutcome(d, level)
      BY <1>2 DEF HasOutcome
  <2>2. CallStands(d, call[d])
      BY DEF TraceInv
  <2>3. Carried(d) => Carried(d)'
      BY <1>1 DEF Carried
  <2> QED
      BY <1>1, <1>2, <2>1, <2>2, <2>3 DEF CallStands
<1>3. CallStands(c, call[c])'
    BY <1>1 DEF CallStands, HasOutcome, Carried
<1>4. OneOutcome'
  <2> SUFFICES ASSUME NEW r \in records \cup added, NEW s \in records \cup added,
                      r.phase = "outcome", s.phase = "outcome", r.call = s.call, r.level = s.level
               PROVE  r = s
      BY DEF OneOutcome
  <2>1. CASE r \in records /\ s \in records
      BY <2>1 DEF TraceInv, OneOutcome
  <2>2. CASE r \in added /\ s \in added
      BY <2>2
  <2>3. CASE r \in records /\ s \in added
      BY <2>3 DEF HasOutcome
  <2>4. CASE r \in added /\ s \in records
      BY <2>4 DEF HasOutcome
  <2> QED
      BY <2>1, <2>2, <2>3, <2>4
<1>5. \A d \in ToolCalls : CommitRecord(d) \in records' <=> d \in mutated' \ UnauditedCalls
  <2> SUFFICES ASSUME NEW d \in ToolCalls
               PROVE  CommitRecord(d) \in records' <=> d \in mutated' \ UnauditedCalls
      OBVIOUS
  <2>1. CommitRecord(d) \in records <=> d \in mutated \ UnauditedCalls
      BY DEF TraceInv
  <2>2. CommitRecord(d).call = d /\ CommitRecord(d).phase = "commit"
      BY RecordIs DEF CommitRecord
  <2>3. CASE d # c
      BY <1>1, <2>1, <2>2, <2>3
  <2>4. CASE d = c
      BY <1>1, <2>1, <2>2, <2>4
  <2> QED
      BY <2>3, <2>4
<1>6. \A d \in mutated' : Record(d, "tool", "intent", "pending") \in records'
    BY DEF TraceInv
<1>11. \A d, e \in mutated' \ UnauditedCalls : RequestOf[d] = RequestOf[e] => d = e
    BY <1>1 DEF TraceInv, Repeated
<1>7. \A r \in records' : r.phase = "outcome" /\ r.outcome = "success" => Carried(r.call)'
    BY <1>1 DEF TraceInv, Carried
<1>8. \A x \in Exporters : exporting'[x] # None => ExportStands(exporting[x])'
    BY DEF TraceInv, ExportStands
<1>9. /\ collector' \subseteq records' /\ exported' \subseteq collector'
      /\ exporting' \in [Exporters -> ExportRow \cup {None}]
    BY DEF TraceInv
<1>10. \A d \in ToolCalls : CallStands(d, call[d])'
    BY <1>2, <1>3
<1> QED
    BY <1>1, <1>4, <1>5, <1>6, <1>7, <1>8, <1>9, <1>10, <1>11 DEF TraceInv

LEMMA RowOfCall ==
    ASSUME TraceInv, NEW c \in ToolCalls
    PROVE  call[c] \in CallRow /\ CallStands(c, call[c])
BY DEF TraceInv

\* The record is of the kind its row says.
LEMMA RecordInRow ==
    ASSUME NEW c \in ToolCalls, NEW level \in {"envelope", "tool"}, NEW phase \in {"intent", "commit", "outcome"},
           NEW outcome \in {"pending", "success", "failed", "denied"}
    PROVE  Record(c, level, phase, outcome) \in RecordRow
BY DEF Record, RecordRow

LEMMA BeginKeepsInv ==
    ASSUME TraceInv, NEW c \in ToolCalls, NEW stored \in BOOLEAN,
           BeginToolEnvelope(c, stored) \/ BeginOperation(c, stored)
    PROVE  TraceInv'
<1>1. PICK level \in {"envelope", "tool"}, from \in {"new", "entered"}, to \in {"entered", "running"} :
         /\ Begin(c, level, from, to, stored)
         /\ level = "envelope" => from = "new" /\ to = "entered"
         /\ level = "tool" => from = "entered" /\ to = "running"
    BY DEF BeginToolEnvelope, BeginOperation
<1>2. PICK old \in CallRow : old = call[c] /\ CallStands(c, old) /\ old.at = from
    BY <1>1, RowOfCall DEF Begin
<1>3. call \in [ToolCalls -> CallRow] /\ mutated' = mutated /\ UNCHANGED <<exported, collector, exporting>>
    BY <1>1 DEF TraceInv, Begin
<1>4. CASE stored
  <2> DEFINE row == [old EXCEPT !.at = to]
             added == {Record(c, level, "intent", "pending")}
  <2>1. row \in CallRow /\ row.at = to /\ row.result = old.result /\ row.audit = old.audit
      BY DEF CallRow
  <2>2. call' = [call EXCEPT ![c] = row] /\ records' = records \cup added
      BY <1>1, <1>2, <1>3, <1>4 DEF Begin
  <2>3. added \in SUBSET RecordRow /\ \A r \in added : r.call = c /\ r.phase = "intent"
      BY RecordInRow, RecordIs
  <2>4. level = "tool" => Record(c, "tool", "intent", "pending") \in records'
      BY <2>2
  <2> HIDE DEF row, added
  <2>5. \A l : HasOutcome(c, l)' <=> HasOutcome(c, l)
      BY <2>2, <2>3 DEF HasOutcome
  <2>6. CallStands(c, row)'
      BY <1>1, <1>2, <1>3, <2>1, <2>4, <2>5 DEF CallStands, AtWork, Carried
  <2> QED
      BY <1>3, <2>1, <2>2, <2>3, <2>6, CallKeepsInv
<1>5. CASE ~stored
  <2>1. PICK at \in {"ended", "enveloped"} : at = IF level = "envelope" THEN "ended" ELSE "enveloped"
      OBVIOUS
  <2> DEFINE row == [old EXCEPT !.at = at, !.result = "failed"]
  <2>2. row \in CallRow /\ row.at = at /\ row.result = "failed"
      BY DEF CallRow
  <2>3. call' = [call EXCEPT ![c] = row] /\ records' = records \cup {}
      BY <1>1, <1>2, <1>3, <1>5, <2>1 DEF Begin
  <2> HIDE DEF row
  <2>4. \A l : HasOutcome(c, l)' <=> HasOutcome(c, l)
      BY <2>3 DEF HasOutcome
  <2>5. CallStands(c, row)'
      BY <1>1, <1>2, <2>1, <2>2, <2>4 DEF CallStands, AtWork
  <2>6. PICK none \in SUBSET RecordRow : records' = records \cup none /\ none = {}
      BY <2>3
  <2> QED
      BY <1>3, <2>2, <2>3, <2>5, <2>6, CallKeepsInv
<1> QED
    BY <1>4, <1>5

LEMMA DeniedKeepsInv ==
    ASSUME TraceInv, NEW c \in ToolCalls, NEW kept \in 0 .. 2, Denied(c, kept)
    PROVE  TraceInv'
<1>1. PICK old \in CallRow : old = call[c] /\ CallStands(c, old) /\ old.at = "entered"
    BY RowOfCall DEF Denied
<1>2. PICK row \in CallRow : row = [old EXCEPT !.at = "enveloped", !.result = "denied"]
    BY DEF CallRow
<1>3. row.at = "enveloped" /\ row.result = "denied"
    BY <1>2 DEF CallRow
<1> DEFINE added == {Denial(c)[i] : i \in 1 .. kept}
<1>4. /\ call' = [call EXCEPT ![c] = row] /\ records' = records \cup added
      /\ UNCHANGED <<mutated, exported, collector, exporting>>
    BY <1>1, <1>2 DEF Denied, TraceInv
<1>5. added \subseteq {Record(c, "tool", "intent", "pending"), Record(c, "tool", "outcome", "denied")}
  <2>1. 1 .. kept \subseteq {1, 2}
      OBVIOUS
  <2>2. Denial(c)[1] = Record(c, "tool", "intent", "pending") /\ Denial(c)[2] = Record(c, "tool", "outcome", "denied")
      BY DEF Denial
  <2> QED
      BY <2>1, <2>2
<1> HIDE DEF added
<1>6. added \in SUBSET RecordRow
    BY <1>5, RecordInRow
<1>7. \A r \in added : r.call = c /\ r.level = "tool" /\ r.phase # "commit" /\ r.outcome # "success"
    BY <1>5, RecordIs
<1>8. \A r, s \in added : r.phase = "outcome" /\ s.phase = "outcome" => r = s
    BY <1>5, RecordIs
<1>9. ~HasOutcome(c, "tool") /\ ~HasOutcome(c, "envelope")'
    BY <1>1, <1>4, <1>7 DEF CallStands, HasOutcome
<1>10. CallStands(c, row)'
    BY <1>3, <1>9 DEF CallStands, AtWork
<1> QED
    BY <1>4, <1>6, <1>7, <1>8, <1>9, <1>10, CallKeepsInv

\* The handler moves on without a word: nothing is visible before it commits.
LEMMA SilentKeepsInv ==
    ASSUME TraceInv, NEW c \in ToolCalls, call[c].at \in AtWork, NEW row \in CallRow,
           call' = [call EXCEPT ![c] = row], row.at \in {"writing", "committing", "handled"},
           row.at = "handled" => row.result # "none", row.result = "success" => Carried(c),
           row.at = "writing" => c \notin UnauditedCalls /\ ~row.audit,
           row.at = "committing" => (row.audit <=> c \notin UnauditedCalls),
           UNCHANGED <<records, mutated, exported, collector, exporting>>
    PROVE  TraceInv'
<1>1. CallStands(c, call[c]) /\ call[c].at \in AtWork
    BY RowOfCall
<1>2. CallStands(c, row)'
    BY <1>1 DEF CallStands, HasOutcome, AtWork, Carried
<1>3. PICK none \in SUBSET RecordRow : records' = records \cup none /\ none = {}
    OBVIOUS
<1>4. mutated' = mutated
    OBVIOUS
<1> QED
    BY <1>2, <1>3, <1>4, CallKeepsInv

LEMMA HandlerKeepsInv ==
    ASSUME TraceInv, NEW c \in ToolCalls,
           \/ HandleLookup(c)
           \/ \E stored \in BOOLEAN : auditMutation(c, stored)
           \/ \E result \in {"failed", "denied"} : HandleFails(c, result)
    PROVE  TraceInv'
<1>1. PICK old \in CallRow : old = call[c] /\ CallStands(c, old) /\ old.at \in AtWork
    BY RowOfCall DEF HandleLookup, auditMutation, HandleFails, AtWork
<1>2. /\ old.result = "success" => Carried(c)
      /\ call \in [ToolCalls -> CallRow]
    BY <1>1 DEF CallStands, TraceInv
<1>3. CASE HandleLookup(c)
  <2>1. UNCHANGED <<records, mutated, exported, collector, exporting>> /\ ~old.audit
      BY <1>1, <1>3 DEF HandleLookup, CallStands
  <2>2. CASE Repeated(c)
    <3> DEFINE row == [old EXCEPT !.at = "handled", !.result = "success"]
    <3>1. row \in CallRow /\ row.at = "handled" /\ row.result = "success"
        BY DEF CallRow
    <3>2. call' = [call EXCEPT ![c] = row]
        BY <1>1, <1>2, <1>3, <2>2, <3>1 DEF HandleLookup
    <3> HIDE DEF row
    <3>3. Carried(c)
        BY <2>2 DEF Repeated, Carried
    <3> QED
        BY <1>1, <2>1, <3>1, <3>2, <3>3, SilentKeepsInv
  <2>3. CASE ~Repeated(c)
    <3>1. PICK at \in {"committing", "writing"} : at = IF c \in UnauditedCalls THEN "committing" ELSE "writing"
        OBVIOUS
    <3> DEFINE row == [old EXCEPT !.at = at]
    <3>2. row \in CallRow /\ row.at = at /\ row.result = old.result /\ row.audit = old.audit
        BY DEF CallRow
    <3>3. call' = [call EXCEPT ![c] = row]
        BY <1>1, <1>2, <1>3, <2>3, <3>1, <3>2 DEF HandleLookup
    <3> HIDE DEF row
    <3> QED
        BY <1>1, <1>2, <2>1, <3>1, <3>2, <3>3, SilentKeepsInv
  <2> QED
      BY <2>2, <2>3
<1>4. CASE \E stored \in BOOLEAN : auditMutation(c, stored)
  <2>1. UNCHANGED <<records, mutated, exported, collector, exporting>> /\ c \notin UnauditedCalls
      BY <1>1, <1>4 DEF auditMutation, CallStands
  <2>2. CASE call' = [call EXCEPT ![c].at = "committing", ![c].audit = TRUE]
    <3> DEFINE row == [old EXCEPT !.at = "committing", !.audit = TRUE]
    <3>1. row \in CallRow /\ row.at = "committing" /\ row.result = old.result /\ row.audit
        BY DEF CallRow
    <3>2. call' = [call EXCEPT ![c] = row]
        BY <1>1, <1>2, <2>2, <3>1
    <3> HIDE DEF row
    <3> QED
        BY <1>1, <1>2, <2>1, <3>1, <3>2, SilentKeepsInv
  <2>3. CASE call' = [call EXCEPT ![c].at = "handled", ![c].result = "failed"]
    <3> DEFINE row == [old EXCEPT !.at = "handled", !.result = "failed"]
    <3>1. row \in CallRow /\ row.at = "handled" /\ row.result = "failed"
        BY DEF CallRow
    <3>2. call' = [call EXCEPT ![c] = row]
        BY <1>1, <1>2, <2>3, <3>1
    <3> HIDE DEF row
    <3> QED
        BY <1>1, <2>1, <3>1, <3>2, SilentKeepsInv
  <2> QED
      BY <1>4, <2>2, <2>3 DEF auditMutation
<1>5. CASE \E result \in {"failed", "denied"} : HandleFails(c, result)
  <2>1. PICK result \in {"failed", "denied"} : HandleFails(c, result)
      BY <1>5
  <2> DEFINE row == [old EXCEPT !.at = "handled", !.result = result]
  <2>2. row \in CallRow /\ row.at = "handled" /\ row.result = result
      BY DEF CallRow
  <2>3. /\ call' = [call EXCEPT ![c] = row]
        /\ UNCHANGED <<records, mutated, exported, collector, exporting>>
      BY <1>1, <1>2, <2>1, <2>2 DEF HandleFails
  <2> HIDE DEF row
  <2> QED
      BY <1>1, <2>1, <2>2, <2>3, SilentKeepsInv
<1> QED
    BY <1>3, <1>4, <1>5

\* The transaction commits its rows and the record it holds, together.
LEMMA HandleCommitKeepsInv ==
    ASSUME TraceInv, NEW c \in ToolCalls, NEW answered \in BOOLEAN, HandleCommit(c, answered)
    PROVE  TraceInv'
<1>1. PICK old \in CallRow : old = call[c] /\ CallStands(c, old) /\ old.at = "committing"
    BY RowOfCall DEF HandleCommit
<1>2. /\ old.audit <=> c \notin UnauditedCalls
      /\ Record(c, "tool", "intent", "pending") \in records /\ ~HasOutcome(c, "tool") /\ ~HasOutcome(c, "envelope")
    BY <1>1 DEF CallStands, AtWork
<1>3. PICK result \in {"success", "failed"} : result = IF answered THEN "success" ELSE "failed"
    OBVIOUS
<1> DEFINE row == [old EXCEPT !.at = "handled", !.result = result]
<1>4. row \in CallRow /\ row.at = "handled" /\ row.result = result
    BY DEF CallRow
<1>5. /\ call' = [call EXCEPT ![c] = row] /\ UNCHANGED <<exported, collector, exporting>>
      /\ mutated' = mutated \cup {c} /\ ~Repeated(c)
    BY <1>1, <1>3 DEF HandleCommit, TraceInv
<1> HIDE DEF row
<1>6. PICK added \in SUBSET RecordRow :
         /\ records' = records \cup added /\ added \subseteq {CommitRecord(c)}
         /\ c \notin UnauditedCalls => CommitRecord(c) \in added
         /\ c \in UnauditedCalls => added = {}
  <2>1. CASE old.audit
    <3>1. {CommitRecord(c)} \in SUBSET RecordRow
        BY RecordInRow DEF CommitRecord
    <3>2. records' = records \cup {CommitRecord(c)}
        BY <1>1, <2>1 DEF HandleCommit
    <3> QED
        BY <1>2, <2>1, <3>1, <3>2
  <2>2. CASE ~old.audit
    <3>1. records' = records \cup {}
        BY <1>1, <2>2 DEF HandleCommit
    <3> QED
        BY <1>2, <2>2, <3>1
  <2> QED
      BY <2>1, <2>2
<1>7. \A r \in added : r.call = c /\ r.phase = "commit"
    BY <1>6, RecordIs DEF CommitRecord
<1>8. ~HasOutcome(c, "tool")' /\ ~HasOutcome(c, "envelope")'
    BY <1>2, <1>6, <1>7 DEF HasOutcome
<1>9. Carried(c)'
    BY <1>5 DEF Carried
<1>10. CallStands(c, row)'
    BY <1>4, <1>8, <1>9 DEF CallStands, AtWork
<1> QED
    BY <1>2, <1>4, <1>5, <1>6, <1>7, <1>10, CallKeepsInv

LEMMA FinishKeepsInv ==
    ASSUME TraceInv, NEW c \in ToolCalls, NEW stored \in BOOLEAN,
           FinishTool(c, stored) \/ FinishEnvelope(c, stored)
    PROVE  TraceInv'
<1>1. PICK level \in {"envelope", "tool"}, from \in {"handled", "enveloped"}, to \in {"enveloped", "ended"} :
         /\ Finish(c, level, from, to, stored)
         /\ level = "tool" => from = "handled" /\ to = "enveloped"
         /\ level = "envelope" => from = "enveloped" /\ to = "ended"
    BY DEF FinishTool, FinishEnvelope
<1>2. PICK old \in CallRow : old = call[c] /\ CallStands(c, old) /\ old.at = from
    BY <1>1, RowOfCall DEF Finish
<1>3. /\ call \in [ToolCalls -> CallRow] /\ UNCHANGED <<mutated, exported, collector, exporting>>
      /\ ~HasOutcome(c, level) /\ (level = "tool" => ~HasOutcome(c, "envelope")) /\ old.result # "none"
    BY <1>1, <1>2 DEF TraceInv, Finish, CallStands
<1>4. PICK result \in {"success", "failed", "denied"} : result = IF stored THEN old.result ELSE "failed"
    BY <1>3 DEF CallRow
<1> DEFINE row == [old EXCEPT !.at = to, !.result = result]
<1>5. row \in CallRow /\ row.at = to /\ row.result = result
    BY DEF CallRow
<1>6. call' = [call EXCEPT ![c] = row]
    BY <1>1, <1>2, <1>3, <1>4 DEF Finish
<1> HIDE DEF row
<1>7. result = "success" => Carried(c) /\ Carried(c)'
    BY <1>2, <1>3, <1>4 DEF CallStands, Carried
<1>8. ASSUME NEW added \in SUBSET RecordRow, records' = records \cup added, \A r \in added : r.call = c /\ r.level = level
      PROVE  CallStands(c, row)'
  <2>1. \A l : l # level => (HasOutcome(c, l)' <=> HasOutcome(c, l))
      BY <1>8 DEF HasOutcome
  <2> QED
      BY <1>1, <1>2, <1>3, <1>4, <1>5, <1>7, <2>1 DEF CallStands, AtWork
<1>9. CASE stored
  <2>1. PICK outcome \in {"success", "failed", "denied"} :
           outcome = Outcome(level, old.result) /\ (outcome = "success" => Carried(c))
      BY <1>2, <1>3 DEF Outcome, CallRow, CallStands
  <2> DEFINE added == {Record(c, level, "outcome", outcome)}
  <2>2. /\ added \in SUBSET RecordRow /\ records' = records \cup added
        /\ \A r \in added : r.call = c /\ r.level = level /\ r.phase = "outcome" /\ r.outcome = outcome
        /\ \A r, s \in added : r = s
      BY <1>1, <1>2, <1>9, <2>1, RecordInRow, RecordIs DEF Finish
  <2> HIDE DEF added
  <2>3. CallStands(c, row)'
      BY <1>8, <2>2
  <2> QED
      BY <1>3, <1>5, <1>6, <2>1, <2>2, <2>3, CallKeepsInv
<1>10. CASE ~stored
  <2>1. PICK none \in SUBSET RecordRow : records' = records \cup none /\ none = {}
    <3>1. records' = records \cup {}
        BY <1>1, <1>10 DEF Finish
    <3> QED
        BY <3>1
  <2>2. CallStands(c, row)'
      BY <1>8, <2>1
  <2> QED
      BY <1>3, <1>5, <1>6, <2>1, <2>2, CallKeepsInv
<1> QED
    BY <1>9, <1>10

\* A crash ends every call that had begun; what is written stays.
LEMMA GatewayCrashKeepsInv ==
    ASSUME TraceInv, GatewayCrash
    PROVE  TraceInv'
<1>1. /\ UNCHANGED <<records, mutated, exported, collector, exporting>>
      /\ call' = [c \in ToolCalls |-> IF call[c].at = "new" THEN call[c] ELSE [call[c] EXCEPT !.at = "ended"]]
    BY DEF GatewayCrash
<1>2. ASSUME NEW c \in ToolCalls PROVE call'[c] \in CallRow /\ CallStands(c, call[c])'
  <2>1. PICK old \in CallRow : old = call[c] /\ CallStands(c, old)
      BY RowOfCall
  <2>2. PICK row \in CallRow : row = call'[c] /\ row.result = old.result /\ (row = old \/ row.at = "ended")
    <3>1. call'[c] = IF old.at = "new" THEN old ELSE [old EXCEPT !.at = "ended"]
        BY <1>1, <2>1
    <3> QED
        BY <3>1 DEF CallRow
  <2>3. CallStands(c, row)'
      BY <1>1, <2>1, <2>2 DEF CallStands, HasOutcome, AtWork, Carried
  <2> QED
      BY <2>2, <2>3 DEF CallStands, HasOutcome, Carried
<1>3. call' \in [ToolCalls -> CallRow]
    BY <1>1, <1>2
<1>4. OneOutcome' /\ \A x \in Exporters : exporting'[x] # None => ExportStands(exporting[x])'
    BY <1>1 DEF TraceInv, OneOutcome, ExportStands
<1>6. \A r \in records' : r.phase = "outcome" /\ r.outcome = "success" => Carried(r.call)'
    BY <1>1 DEF TraceInv, Carried
<1>5. \A c \in ToolCalls : CallStands(c, call[c])'
    BY <1>2
<1> QED
    BY <1>1, <1>3, <1>4, <1>5, <1>6 DEF TraceInv

\* A worker of the exporter takes a record, sends it or notes its receipt.
LEMMA ExportKeepsInv ==
    ASSUME TraceInv, NEW x \in Exporters, NEW row \in ExportRow \cup {None},
           exporting' = [exporting EXCEPT ![x] = row], UNCHANGED <<call, records, mutated>>,
           row # None => ExportStands(row)', collector \subseteq collector', collector' \subseteq records,
           exported' \subseteq collector'
    PROVE  TraceInv'
<1>1. /\ exporting' \in [Exporters -> ExportRow \cup {None}] /\ exporting'[x] = row
      /\ \A y \in Exporters : y # x => exporting'[y] = exporting[y]
    BY DEF TraceInv
<1>2. \A c \in ToolCalls : CallStands(c, call[c])'
    BY DEF TraceInv, CallStands, HasOutcome, Carried
<1>5. \A r \in records' : r.phase = "outcome" /\ r.outcome = "success" => Carried(r.call)'
    BY DEF TraceInv, Carried
<1>3. OneOutcome'
    BY DEF TraceInv, OneOutcome
<1>4. \A y \in Exporters : exporting'[y] # None => ExportStands(exporting[y])'
    BY <1>1 DEF TraceInv, ExportStands
<1> QED
    BY <1>1, <1>2, <1>3, <1>4, <1>5 DEF TraceInv

LEMMA ExporterKeepsInv ==
    ASSUME TraceInv, NEW x \in Exporters,
           \/ \E r \in records : Send(x, r)
           \/ \E receipt \in {"accepted", "lost", "rejected"} : Collect(x, receipt)
           \/ EndExport(x)
    PROVE  TraceInv'
<1>1. UNCHANGED <<call, records, mutated>> /\ collector \subseteq records /\ exported \subseteq collector
    BY DEF Send, Collect, EndExport, TraceInv
<1>2. exporting[x] # None => exporting[x] \in ExportRow /\ ExportStands(exporting[x])
    BY DEF TraceInv
<1>3. CASE \E r \in records : Send(x, r)
  <2>1. PICK r \in records : Send(x, r)
      BY <1>3
  <2>2. PICK row \in ExportRow : row = [record |-> r, receipt |-> "none"]
      BY DEF ExportRow, TraceInv
  <2>3. /\ exporting' = [exporting EXCEPT ![x] = row] /\ UNCHANGED <<collector, exported>>
        /\ row.record \in records /\ row.receipt = "none"
      BY <2>1, <2>2 DEF Send
  <2>4. ExportStands(row)'
      BY <1>1, <2>3 DEF ExportStands
  <2> QED
      BY <1>1, <2>2, <2>3, <2>4, ExportKeepsInv
<1>4. CASE \E receipt \in {"accepted", "lost", "rejected"} : Collect(x, receipt)
  <2>1. PICK receipt \in {"accepted", "lost", "rejected"} : Collect(x, receipt)
      BY <1>4
  <2>2. PICK old \in ExportRow : old = exporting[x] /\ old.record \in records
      BY <1>2, <2>1 DEF Collect, ExportStands
  <2> DEFINE row == [old EXCEPT !.receipt = receipt]
  <2>3. row \in ExportRow /\ row.record = old.record /\ row.receipt = receipt
      BY DEF ExportRow
  <2>4. exporting' = [exporting EXCEPT ![x] = row] /\ UNCHANGED exported
      BY <2>1, <2>2 DEF Collect
  <2> HIDE DEF row
  <2>5. collector' = IF receipt = "rejected" THEN collector ELSE collector \cup {old.record}
      BY <2>1, <2>2 DEF Collect
  <2>6. ExportStands(row)'
      BY <1>1, <2>2, <2>3, <2>5 DEF ExportStands
  <2> QED
      BY <1>1, <2>2, <2>3, <2>4, <2>5, <2>6, ExportKeepsInv
<1>5. CASE EndExport(x)
  <2>1. exporting' = [exporting EXCEPT ![x] = None] /\ UNCHANGED collector
      BY <1>5 DEF EndExport
  <2>2. exported' \subseteq collector
      BY <1>1, <1>2, <1>5 DEF EndExport, FinishTraceExport, Succeeded, ExportStands
  <2>3. PICK none \in ExportRow \cup {None} : none = None
      OBVIOUS
  <2>4. exporting' = [exporting EXCEPT ![x] = none]
      BY <2>1, <2>3
  <2> QED
      BY <1>1, <2>1, <2>2, <2>3, <2>4, ExportKeepsInv
<1> QED
    BY <1>3, <1>4, <1>5

LEMMA TraceStepInv == TraceInv /\ [TraceNext]_traceVars => TraceInv'
<1> SUFFICES ASSUME TraceInv, [TraceNext]_traceVars PROVE TraceInv'
    OBVIOUS
<1>1. ASSUME NEW c \in ToolCalls, NEW stored \in BOOLEAN,
             BeginToolEnvelope(c, stored) \/ BeginOperation(c, stored) PROVE TraceInv'
    BY <1>1, BeginKeepsInv
<1>2. ASSUME NEW c \in ToolCalls, NEW stored \in BOOLEAN,
             FinishTool(c, stored) \/ FinishEnvelope(c, stored) PROVE TraceInv'
    BY <1>2, FinishKeepsInv
<1>3. ASSUME NEW c \in ToolCalls, NEW kept \in 0 .. 2, Denied(c, kept) PROVE TraceInv'
    BY <1>3, DeniedKeepsInv
<1>4. ASSUME NEW c \in ToolCalls,
             \/ HandleLookup(c)
             \/ \E stored \in BOOLEAN : auditMutation(c, stored)
             \/ \E answered \in BOOLEAN : HandleCommit(c, answered)
             \/ \E result \in {"failed", "denied"} : HandleFails(c, result)
      PROVE  TraceInv'
    BY <1>4, HandlerKeepsInv, HandleCommitKeepsInv
<1>5. CASE GatewayCrash
    BY <1>5, GatewayCrashKeepsInv
<1>6. ASSUME NEW x \in Exporters,
             \/ \E r \in records : Send(x, r)
             \/ \E receipt \in {"accepted", "lost", "rejected"} : Collect(x, receipt)
             \/ EndExport(x)
      PROVE  TraceInv'
    BY <1>6, ExporterKeepsInv
<1>7. CASE UNCHANGED traceVars
    BY <1>7 DEF traceVars, TraceInv, CallStands, HasOutcome, Carried, OneOutcome, ExportStands
<1> QED
    BY <1>1, <1>2, <1>3, <1>4, <1>5, <1>6, <1>7 DEF TraceNext, CallNext, ExportNext

\* The records of every behaviour keep the invariant.
THEOREM TraceIsSound == TraceSpec => []TraceInv
BY TraceInitInv, TraceStepInv, PTL DEF TraceSpec

\* Whatever crashed, was refused or lost its answer, for any calls with and
\* without a commit record and any retries under an idempotency key: a
\* mutation has its intent and the commit record that is due, a request with
\* a key is carried out once, a recorded success tells of a request that was
\* carried out, a trace without missing outcomes says what became of every
\* mutation, and what is marked exported did reach the collector
\* (auditMutation, Begin, ReadWorkflowTrace, Exporter.ProcessOnce).
THEOREM EvidenceComplete == TraceSpec => []EvidenceIsComplete
<1>1. TraceInv => EvidenceIsComplete
  <2> SUFFICES ASSUME TraceInv PROVE EvidenceIsComplete
      OBVIOUS
  <2>1. ASSUME MissingOutcomes = {}, NEW c \in mutated
        PROVE  \E r \in records : r.call = c /\ r.level = "tool" /\ r.phase = "outcome"
    <3>1. Record(c, "tool", "intent", "pending") \in records \ MissingOutcomes
        BY <2>1 DEF TraceInv
    <3> QED
        BY <3>1, RecordIs DEF MissingOutcomes
  <2>2. \A r \in records : r.phase = "outcome" /\ r.outcome = "success" =>
           \E d \in mutated : RequestOf[d] = RequestOf[r.call]
      BY DEF TraceInv, Carried
  <2> QED
      BY <2>1, <2>2 DEF EvidenceIsComplete, MutationIsEvidenced, ExportedWasReceived, TraceInv
<1> QED
    BY <1>1, TraceIsSound, PTL

\* Calls and records keep their shapes, and an operation never gets a second
\* outcome, whoever crashed or was denied (OperationRecord).
THEOREM TraceTypes == TraceSpec => []TraceTypeOK
<1>1. TraceInv => TraceTypeOK
  <2> SUFFICES ASSUME TraceInv PROVE TraceTypeOK
      OBVIOUS
  <2>1. ASSUME NEW c \in ToolCalls, NEW level \in {"envelope", "tool"}
        PROVE  Cardinality({r \in records : r.call = c /\ r.level = level /\ r.phase = "outcome"}) <= 1
    <3> DEFINE S == {r \in records : r.call = c /\ r.level = level /\ r.phase = "outcome"}
    <3>1. CASE S = {}
        BY <3>1, FS_EmptySet
    <3>2. CASE S # {}
      <4>1. PICK r \in S : S = {r}
          BY <3>2 DEF TraceInv, OneOutcome
      <4>2. Cardinality({r}) = 1
          BY FS_Singleton
      <4> QED
          BY <4>1, <4>2
    <3> QED
        BY <3>1, <3>2
  <2>2. \A r \in records : r.phase \in {"intent", "commit", "outcome"} /\ r.outcome # "none"
      BY DEF TraceInv, RecordRow
  <2> QED
      BY <2>1, <2>2 DEF TraceTypeOK, TraceInv
<1> QED
    BY <1>1, TraceIsSound, PTL

-----------------------------------------------------------------------------
(* The remedy of an incident *)

LEMMA RemedyInitInv == RemedyInit => RemedyInv
<1> SUFFICES ASSUME RemedyInit PROVE RemedyInv
    OBVIOUS
<1>1. IdleRemedier \in RemedierState
    BY RemedyAssumption DEF IdleRemedier, RemedierState, RemedyAssumption
<1>2. endpoint \in EndpointRow /\ incident \in IncidentRow
    BY RemedyAssumption DEF RemedyInit, EndpointRow, IncidentRow, EndpointStates, RemedyAssumption
<1>3. RemedyTypeOK
    BY <1>1, <1>2, RemedyAssumption DEF RemedyInit, RemedyTypeOK, IdleRemedier, RemedyAssumption
<1>4. \A x \in Remediers : RemedierStands(remedier[x])
    BY RemedyAssumption DEF RemedyInit, RemedierStands, IdleRemedier, RemedyAssumption
<1> QED
    BY <1>3, <1>4 DEF RemedyInit, RemedyInv, ReplacesAuthorizedState

LEMMA MishapInBound ==
    ASSUME RemedyInv, Mishap
    PROVE  mishaps' \in 0 .. MaxRemedyFaults
BY RemedyAssumption DEF RemedyInv, RemedyTypeOK, Mishap, RemedyAssumption

\* One executor moves on; neither the endpoint nor the run does.
LEMMA RemedierKeepsInv ==
    ASSUME RemedyInv, NEW x \in Remediers, NEW n \in RemedierState, remedier' = [remedier EXCEPT ![x] = n],
           n.pc = "report" <=> n.outcome # None, RemedierStands(n), UNCHANGED <<endpoint, incident>>,
           flight' \subseteq RequestRow, \A q \in flight' : q.etag = "before", mishaps' \in 0 .. MaxRemedyFaults
    PROVE  RemedyInv'
<1>1. /\ remedier' \in [Remediers -> RemedierState] /\ remedier'[x] = n
      /\ \A y \in Remediers : y # x => remedier'[y] = remedier[y]
    BY DEF RemedyInv, RemedyTypeOK
<1>2. RemedyTypeOK' /\ ReplacesAuthorizedState'
    BY <1>1 DEF RemedyInv, RemedyTypeOK, ReplacesAuthorizedState
<1>3. \A y \in Remediers : RemedierStands(remedier[y])'
    BY <1>1 DEF RemedyInv, RemedierStands, Found
<1> QED
    BY <1>2, <1>3 DEF RemedyInv, Found

\* What an executor's claim needs of the run that is written.
KeepsRemedy(old, row, e) ==
    /\ e.fence <= row.fence
    /\ e.pc # "idle" /\ row.open /\ e.fence = row.fence /\ row.stage = "remediate" =>
          old.open /\ e.fence = old.fence /\ old.stage = "remediate" /\ row.step = old.step

\* The run is written, and the executor that does it goes on or leaves.
LEMMA IncidentKeepsInv ==
    ASSUME RemedyInv, NEW row \in IncidentRow, incident' = row, UNCHANGED <<endpoint, flight>>,
           mishaps' \in 0 .. MaxRemedyFaults,
           row.open /\ row.stage = "remediate" => row.step >= 1, row.remedied # 0 => Found(row.remedied),
           remedier' \in [Remediers -> RemedierState],
           \A x \in Remediers : remedier'[x].pc = "report" <=> remedier'[x].outcome # None,
           \A x \in Remediers : \/ remedier'[x] = remedier[x] /\ KeepsRemedy(incident, row, remedier[x])
                                \/ RemedierStands(remedier[x])'
    PROVE  RemedyInv'
<1>1. RemedyTypeOK' /\ ReplacesAuthorizedState' /\ \A q \in flight' : q.etag = "before"
    BY DEF RemedyInv, RemedyTypeOK, ReplacesAuthorizedState
<1>2. \A a : Found(a)' <=> Found(a)
    BY DEF Found
<1>3. ASSUME NEW x \in Remediers, remedier'[x] = remedier[x], KeepsRemedy(incident, row, remedier[x])
      PROVE  RemedierStands(remedier[x])'
  <2>1. RemedierStands(remedier[x])
      BY DEF RemedyInv
  <2> QED
      BY <1>2, <1>3, <2>1 DEF RemedierStands, KeepsRemedy
<1> QED
    BY <1>1, <1>2, <1>3 DEF RemedyInv

\* The endpoint changes: what was found there is there, or was touched.
LEMMA EndpointKeepsInv ==
    ASSUME RemedyInv, endpoint' \in EndpointRow, ReplacesAuthorizedState', \A a : Found(a) => Found(a)',
           flight' \subseteq flight, UNCHANGED <<incident, remedier>>, mishaps' \in 0 .. MaxRemedyFaults
    PROVE  RemedyInv'
<1>1. RemedyTypeOK'
    BY DEF RemedyInv, RemedyTypeOK
<1>2. \A x \in Remediers : RemedierStands(remedier[x])'
    BY DEF RemedyInv, RemedierStands
<1> QED
    BY <1>1, <1>2 DEF RemedyInv

LEMMA RemedierOf ==
    ASSUME RemedyInv, NEW x \in Remediers
    PROVE  /\ remedier[x] \in RemedierState /\ RemedierStands(remedier[x])
           /\ remedier[x].pc = "report" <=> remedier[x].outcome # None
           /\ incident \in IncidentRow /\ endpoint \in EndpointRow
           /\ flight \subseteq RequestRow /\ \A q \in flight : q.etag = "before"
BY DEF RemedyInv, RemedyTypeOK

\* A conclusion that is no success, or one that was found.
LEMMA ConcludesKeepsInv ==
    ASSUME RemedyInv, NEW x \in Remediers, NEW outcome \in {"succeeded", "blocked"}, Concludes(x, outcome),
           remedier[x].pc # "idle",
           outcome = "succeeded" => Found(remedier[x].action), UNCHANGED <<endpoint, incident, flight>>,
           mishaps' \in 0 .. MaxRemedyFaults
    PROVE  RemedyInv'
<1>1. PICK e \in RemedierState : e = remedier[x] /\ RemedierStands(e)
    BY RemedierOf
<1> DEFINE n == [e EXCEPT !.pc = "report", !.outcome = outcome]
<1>2. /\ n \in RemedierState /\ n.pc = "report" /\ n.outcome = outcome /\ n.action = e.action /\ n.fence = e.fence
      /\ n.canWrite = e.canWrite
    BY DEF RemedierState
<1>3. remedier' = [remedier EXCEPT ![x] = n]
    BY <1>1 DEF Concludes, Turns
<1> HIDE DEF n
<1>4. RemedierStands(n)
    BY <1>1, <1>2 DEF RemedierStands
<1>5. n.pc = "report" <=> n.outcome # None
    BY <1>2, RemedyAssumption DEF RemedyAssumption
<1>6. flight' \subseteq RequestRow /\ \A q \in flight' : q.etag = "before"
    BY RemedierOf
<1> QED
    BY <1>2, <1>3, <1>4, <1>5, <1>6, RemedierKeepsInv

\* An executor goes on without a conclusion.
LEMMA TurnsKeepsInv ==
    ASSUME RemedyInv, NEW x \in Remediers, remedier[x].pc \notin {"idle", "report"},
           NEW n \in RemedierState, Turns(x, n), n.pc \in {"put", "back", "effect", "observe"},
           n.action = remedier[x].action, n.fence = remedier[x].fence, n.canWrite = remedier[x].canWrite,
           n.outcome = remedier[x].outcome, n.pc = "put" => n.canWrite /\ n.etag = "before",
           n.pc \in {"effect", "observe"} => Found(n.action),
           UNCHANGED <<endpoint, incident>>, flight' \subseteq RequestRow, \A q \in flight' : q.etag = "before",
           mishaps' \in 0 .. MaxRemedyFaults
    PROVE  RemedyInv'
<1>1. RemedierStands(remedier[x]) /\ remedier[x].outcome = None
    BY RemedierOf
<1>2. remedier' = [remedier EXCEPT ![x] = n]
    BY DEF Turns
<1>3. RemedierStands(n)
    BY <1>1, RemedyAssumption DEF RemedierStands, RemedyAssumption
<1>4. n.pc = "report" <=> n.outcome # None
    BY <1>1
<1> QED
    BY <1>2, <1>3, <1>4, RemedierKeepsInv

LEMMA MovesKeepsInv ==
    ASSUME RemedyInv, NEW x \in Remediers, NEW pc \in {"back", "effect", "observe"},
           remedier[x].pc \notin {"idle", "report"}, Turns(x, [remedier[x] EXCEPT !.pc = pc]),
           pc \in {"effect", "observe"} => Found(remedier[x].action),
           UNCHANGED <<endpoint, incident>>, flight' \subseteq RequestRow, \A q \in flight' : q.etag = "before",
           mishaps' \in 0 .. MaxRemedyFaults
    PROVE  RemedyInv'
<1>1. PICK e \in RemedierState : e = remedier[x]
    BY RemedierOf
<1> DEFINE n == [e EXCEPT !.pc = pc]
<1>2. /\ n \in RemedierState /\ n.pc = pc /\ n.outcome = e.outcome /\ n.action = e.action /\ n.fence = e.fence
      /\ n.canWrite = e.canWrite
    BY DEF RemedierState
<1>3. Turns(x, n)
    BY <1>1
<1> HIDE DEF n
<1>4. n.pc # "put" /\ n.pc \in {"put", "back", "effect", "observe"}
    BY <1>2
<1> QED
    BY <1>1, <1>2, <1>3, <1>4, TurnsKeepsInv

\* What the last read found decides.
LEMMA JudgeKeepsInv ==
    ASSUME RemedyInv, NEW x \in Remediers, remedier[x].pc \in {"read", "back"}, Judge(x),
           UNCHANGED <<endpoint, incident, flight>>, mishaps' \in 0 .. MaxRemedyFaults
    PROVE  RemedyInv'
<1>1. CASE Reached(x) /\ Turns(x, [remedier[x] EXCEPT !.pc = "effect"])
  <2>1. Found(remedier[x].action)
      BY <1>1 DEF Reached, Found
  <2>2. flight' \subseteq RequestRow /\ \A q \in flight' : q.etag = "before"
      BY RemedierOf
  <2> QED
      BY <1>1, <2>1, <2>2, MovesKeepsInv
<1>2. CASE Concludes(x, "blocked")
    BY <1>2, ConcludesKeepsInv
<1> QED
    BY <1>1, <1>2 DEF Judge

LEMMA ReadsKeepInv ==
    ASSUME RemedyInv, NEW x \in Remediers, ReadRemedy(x) \/ ReadBackRemedy(x) \/ Unreadable(x)
    PROVE  RemedyInv'
<1>1. UNCHANGED <<endpoint, incident, flight>> /\ mishaps' \in 0 .. MaxRemedyFaults /\ remedier[x].pc \in {"read", "back"}
    BY MishapInBound DEF ReadRemedy, ReadBackRemedy, Unreadable, RemedyInv, RemedyTypeOK
<1>2. CASE Judge(x)
    BY <1>1, <1>2, JudgeKeepsInv
<1>3. CASE Concludes(x, "blocked")
    BY <1>1, <1>3, ConcludesKeepsInv
<1>4. CASE /\ endpoint.state = "before" /\ remedier[x].canWrite
           /\ Turns(x, [remedier[x] EXCEPT !.pc = "put", !.etag = endpoint.state])
  <2>1. PICK e \in RemedierState : e = remedier[x]
      BY RemedierOf
  <2> DEFINE n == [e EXCEPT !.pc = "put", !.etag = "before"]
  <2>2. /\ n \in RemedierState /\ n.pc = "put" /\ n.outcome = e.outcome /\ n.action = e.action /\ n.fence = e.fence
        /\ n.canWrite = e.canWrite /\ n.etag = "before"
      BY DEF RemedierState, EndpointStates
  <2>3. Turns(x, n)
      BY <1>4, <2>1
  <2> HIDE DEF n
  <2>4. flight' \subseteq RequestRow /\ \A q \in flight' : q.etag = "before"
      BY <1>1, RemedierOf
  <2>5. n.canWrite /\ n.pc \notin {"effect", "observe"} /\ remedier[x].pc \notin {"idle", "report"}
      BY <1>1, <1>4, <2>1, <2>2
  <2> QED
      BY <1>1, <2>1, <2>2, <2>3, <2>4, <2>5, TurnsKeepsInv
<1> QED
    BY <1>2, <1>3, <1>4 DEF ReadRemedy, ReadBackRemedy, Unreadable

LEMMA PutKeepsInv ==
    ASSUME RemedyInv, NEW x \in Remediers, PutRemedy(x)
    PROVE  RemedyInv'
<1>1. /\ remedier[x].pc = "put" /\ flight' = flight \cup {Request(x)} /\ Turns(x, [remedier[x] EXCEPT !.pc = "back"])
      /\ UNCHANGED <<endpoint, incident, mishaps>> /\ mishaps' \in 0 .. MaxRemedyFaults
    BY DEF PutRemedy, RemedyInv, RemedyTypeOK
<1>2. PICK e \in RemedierState : e = remedier[x] /\ e.etag = "before" /\ e.action >= 1
    BY <1>1, RemedierOf DEF RemedierStands
<1>3. e.action \in RemedyActions
    BY <1>2, RemedyAssumption DEF RemedierState, RemedyActions, RemedyAssumption
<1>4. Request(x) \in RequestRow /\ Request(x).etag = "before"
    BY <1>2, <1>3 DEF Request, RequestRow, EndpointStates
<1>5. flight' \subseteq RequestRow /\ \A q \in flight' : q.etag = "before"
    BY <1>1, <1>4, RemedierOf
<1> QED
    BY <1>1, <1>5, MovesKeepsInv

LEMMA RecordKeepsInv ==
    ASSUME RemedyInv, NEW x \in Remediers, RecordRemedy(x) \/ ObserveRecovery(x)
    PROVE  RemedyInv'
<1>1. /\ UNCHANGED <<endpoint, flight, incident, mishaps>> /\ remedier[x].pc \in {"effect", "observe"}
      /\ mishaps' \in 0 .. MaxRemedyFaults
    BY DEF RecordRemedy, ObserveRecovery, RemedyInv, RemedyTypeOK
<1>2. Found(remedier[x].action)
    BY <1>1, RemedierOf DEF RemedierStands
<1>3. flight' \subseteq RequestRow /\ \A q \in flight' : q.etag = "before"
    BY <1>1, RemedierOf
<1>4. ASSUME NEW outcome \in {"succeeded", "blocked"}, Concludes(x, outcome) PROVE RemedyInv'
    BY <1>1, <1>2, <1>4, ConcludesKeepsInv
<1>5. CASE Turns(x, [remedier[x] EXCEPT !.pc = "observe"])
    BY <1>1, <1>2, <1>3, <1>5, MovesKeepsInv
<1> QED
    BY <1>4, <1>5 DEF RecordRemedy, ObserveRecovery, Observe

\* An executor that is gone holds no claim.
LEMMA IdleRemedierStands ==
    ASSUME RemedyInv
    PROVE  /\ IdleRemedier \in RemedierState /\ IdleRemedier.pc = "idle" /\ IdleRemedier.outcome = None
           /\ IdleRemedier.fence = 0 /\ IdleRemedier.canWrite = FALSE /\ RemedierStands(IdleRemedier)
<1>1. IdleRemedier \in RemedierState
    BY RemedyAssumption DEF IdleRemedier, RemedierState, RemedyAssumption
<1>2. /\ IdleRemedier.pc = "idle" /\ IdleRemedier.outcome = None /\ IdleRemedier.fence = 0
      /\ IdleRemedier.canWrite = FALSE
    BY DEF IdleRemedier
<1>3. 0 <= incident.fence
    BY DEF RemedyInv, RemedyTypeOK, IncidentRow
<1> QED
    BY <1>1, <1>2, <1>3, RemedyAssumption DEF RemedierStands, RemedyAssumption

LEMMA LeaveRemedyKeepsInv ==
    ASSUME RemedyInv, NEW x \in Remediers, LeaveRemedy(x) \/ CrashRemedy(x)
    PROVE  RemedyInv'
<1>1. /\ UNCHANGED <<endpoint, flight, incident>> /\ remedier' = [remedier EXCEPT ![x] = IdleRemedier]
      /\ mishaps' \in 0 .. MaxRemedyFaults
    BY MishapInBound DEF LeaveRemedy, CrashRemedy, Turns, RemedyInv, RemedyTypeOK
<1>2. flight' \subseteq RequestRow /\ \A q \in flight' : q.etag = "before"
    BY <1>1, RemedierOf
<1>3. IdleRemedier.pc = "report" <=> IdleRemedier.outcome # None
    BY IdleRemedierStands
<1> QED
    BY <1>1, <1>2, <1>3, IdleRemedierStands, RemedierKeepsInv

LEMMA AnswerKeepsInv ==
    ASSUME RemedyInv, NEW q \in flight, EndpointAnswers(q)
    PROVE  RemedyInv'
<1>1. /\ UNCHANGED <<incident, remedier, mishaps>> /\ flight' \subseteq flight
      /\ mishaps' \in 0 .. MaxRemedyFaults
    BY DEF EndpointAnswers, RemedyInv, RemedyTypeOK
<1>2. PICK old \in EndpointRow : old = endpoint
    BY DEF RemedyInv, RemedyTypeOK
<1>3. q \in RequestRow /\ q.etag = "before" /\ q.action \in 1 .. MaxRemedySteps
    BY DEF RemedyInv, RemedyTypeOK, RequestRow, RemedyActions
<1>4. CASE endpoint' = endpoint
    BY <1>1, <1>2, <1>4, EndpointKeepsInv DEF RemedyInv, ReplacesAuthorizedState, Found
<1>5. CASE /\ old.state = "before"
           /\ endpoint' = [old EXCEPT !.state = "desired", !.action = q.action, !.replaced = old.state]
  <2>1. PICK action \in 0 .. MaxRemedySteps : action = q.action
      BY <1>3, RemedyAssumption DEF RemedyAssumption
  <2> DEFINE n == [old EXCEPT !.state = "desired", !.action = action, !.replaced = "before"]
  <2>2. n \in EndpointRow /\ n.state = "desired" /\ n.replaced = "before" /\ n.restored = old.restored
      BY DEF EndpointRow, EndpointStates
  <2>3. endpoint' = n
      BY <1>5, <2>1
  <2> HIDE DEF n
  <2>4. \A a : Found(a) => Found(a)'
      BY <1>2, <1>5, <2>2, <2>3 DEF Found
  <2> QED
      BY <1>1, <2>2, <2>3, <2>4, EndpointKeepsInv DEF ReplacesAuthorizedState
<1>6. None # "before"
    BY RemedyAssumption DEF RemedyAssumption, EndpointStates
<1> QED
    BY <1>2, <1>3, <1>4, <1>5, <1>6 DEF EndpointAnswers

LEMMA DriftKeepsInv ==
    ASSUME RemedyInv, NEW state \in {"before", "foreign"}, EndpointDrifts(state)
    PROVE  RemedyInv'
<1>1. UNCHANGED <<flight, incident, remedier>> /\ mishaps' \in 0 .. MaxRemedyFaults
    BY MishapInBound DEF EndpointDrifts
<1>2. PICK restored \in BOOLEAN : restored = (endpoint.restored \/ state = "before")
    OBVIOUS
<1>3. endpoint' = [state |-> state, action |-> 0, replaced |-> None, restored |-> restored]
    BY <1>2 DEF EndpointDrifts
<1>4. endpoint' \in EndpointRow
    BY <1>3, RemedyAssumption DEF EndpointRow, EndpointStates, RemedyAssumption
<1>5. endpoint'.state = state /\ endpoint'.action = 0 /\ endpoint'.restored = restored
    BY <1>3
<1>6. \A a : Found(a)'
    BY <1>2, <1>5 DEF Found
<1>7. ReplacesAuthorizedState'
    BY <1>5 DEF ReplacesAuthorizedState
<1> QED
    BY <1>1, <1>4, <1>6, <1>7, EndpointKeepsInv

\* A claim puts the run's fence past every earlier one.
LEMMA ClaimRemedyKeepsInv ==
    ASSUME RemedyInv, NEW x \in Remediers, ClaimRemedy(x)
    PROVE  RemedyInv'
<1>1. UNCHANGED <<endpoint, flight, mishaps>> /\ mishaps' \in 0 .. MaxRemedyFaults
    BY DEF ClaimRemedy, RemedyInv, RemedyTypeOK
<1>2. PICK old \in IncidentRow :
         /\ old = incident /\ (old.open /\ old.stage = "remediate" => old.step >= 1)
         /\ old.remedied # 0 => Found(old.remedied)
    BY DEF RemedyInv, RemedyTypeOK
<1>3. PICK next \in Nat : next = old.fence + 1
    BY DEF IncidentRow
<1>4. PICK step \in 0 .. MaxRemedySteps :
         /\ step = IF ~old.open /\ old.stage = "remediate" THEN old.step + 1 ELSE old.step
         /\ old.stage = "remediate" => step >= 1
  <2>1. old.step \in 0 .. MaxRemedySteps /\ MaxRemedySteps \in Nat
      BY RemedyAssumption DEF IncidentRow, RemedyAssumption
  <2>2. (IF ~old.open /\ old.stage = "remediate" THEN old.step + 1 ELSE old.step) <= MaxRemedySteps
      BY <1>2 DEF ClaimRemedy
  <2>3. CASE ~old.open /\ old.stage = "remediate"
    <3>1. old.step + 1 \in 0 .. MaxRemedySteps /\ old.step + 1 >= 1
        BY <2>1, <2>2, <2>3
    <3> QED
        BY <2>3, <3>1
  <2>4. CASE ~(~old.open /\ old.stage = "remediate")
      BY <1>2, <2>1, <2>4
  <2> QED
      BY <2>3, <2>4
<1>5. PICK status \in {"reconciling", "running"} :
         status = IF old.status = "reconciling" THEN old.status ELSE "running"
    OBVIOUS
<1> DEFINE row == [old EXCEPT !.step = step, !.open = TRUE, !.lease = "live", !.fence = next, !.status = status]
<1>6. /\ row \in IncidentRow /\ row.step = step /\ row.open /\ row.fence = next /\ row.stage = old.stage
      /\ row.remedied = old.remedied
    BY DEF IncidentRow
<1>7. incident' = row
    BY <1>2, <1>3, <1>4, <1>5 DEF ClaimRemedy
<1> HIDE DEF row
<1>8. PICK action \in 0 .. MaxRemedySteps : action = IF old.stage = "remediate" THEN step ELSE old.remedied
    BY DEF IncidentRow
<1>9. PICK can \in BOOLEAN : can = (old.stage = "remediate" /\ old.status # "reconciling")
    OBVIOUS
<1>10. PICK idle \in RemedierState : idle = IdleRemedier /\ idle.outcome = None
    BY IdleRemedierStands
<1> DEFINE n == [idle EXCEPT !.pc = "read", !.fence = next, !.action = action, !.canWrite = can]
<1>11. /\ n \in RemedierState /\ n.pc = "read" /\ n.fence = next /\ n.action = action /\ n.canWrite = can
       /\ n.outcome = idle.outcome
    BY DEF RemedierState
<1>12. remedier' = [remedier EXCEPT ![x] = n]
  <2>1. Turns(x, [IdleRemedier EXCEPT !.pc = "read", !.fence = incident.fence + 1,
                     !.action = IF incident.stage = "remediate"
                                THEN IF ~incident.open /\ incident.stage = "remediate" THEN incident.step + 1 ELSE incident.step
                                ELSE incident.remedied,
                     !.canWrite = incident.stage = "remediate" /\ incident.status # "reconciling"])
      BY DEF ClaimRemedy
  <2> QED
      BY <1>2, <1>3, <1>4, <1>8, <1>9, <1>10, <2>1 DEF Turns
<1> HIDE DEF n
<1>13. /\ remedier' \in [Remediers -> RemedierState] /\ remedier'[x] = n
       /\ \A y \in Remediers : y # x => remedier'[y] = remedier[y]
    BY <1>11, <1>12 DEF RemedyInv, RemedyTypeOK
<1>14. \A y \in Remediers : remedier'[y].pc = "report" <=> remedier'[y].outcome # None
    BY <1>10, <1>11, <1>13 DEF RemedyInv, RemedyTypeOK
<1>15. RemedierStands(n)'
  <2>1. next <= next
      OBVIOUS
  <2>2. can => action >= 1
      BY <1>4, <1>8, <1>9
  <2> QED
      BY <1>4, <1>6, <1>7, <1>8, <1>10, <1>11, <2>1, <2>2, RemedyAssumption DEF RemedierStands, RemedyAssumption
<1>16. ASSUME NEW y \in Remediers PROVE KeepsRemedy(incident, row, remedier[y])
  <2>1. remedier[y].fence \in Nat /\ remedier[y].fence <= old.fence /\ old.fence \in Nat
      BY <1>2, RemedierOf DEF RemedierState, RemedierStands, IncidentRow
  <2> QED
      BY <1>3, <1>6, <2>1 DEF KeepsRemedy
<1>17. \A y \in Remediers : \/ remedier'[y] = remedier[y] /\ KeepsRemedy(incident, row, remedier[y])
                            \/ RemedierStands(remedier[y])'
    BY <1>13, <1>15, <1>16 DEF RemedierStands, Found
<1>18. /\ row.open /\ row.stage = "remediate" => row.step >= 1
       /\ row.remedied # 0 => Found(row.remedied)
    BY <1>2, <1>4, <1>6
<1> QED
    BY <1>1, <1>6, <1>7, <1>13, <1>14, <1>17, <1>18, IncidentKeepsInv

LEMMA CompleteRemedyKeepsInv ==
    ASSUME RemedyInv, NEW x \in Remediers, CompleteRemedy(x)
    PROVE  RemedyInv'
<1>1. /\ UNCHANGED <<endpoint, flight, mishaps>> /\ mishaps' \in 0 .. MaxRemedyFaults
      /\ remedier[x].pc = "report" /\ HoldsRemedy(x)
    BY DEF CompleteRemedy, RemedyInv, RemedyTypeOK
<1>2. PICK old \in IncidentRow : old = incident /\ (old.remedied # 0 => Found(old.remedied))
    BY DEF RemedyInv, RemedyTypeOK
<1>3. PICK e \in RemedierState : e = remedier[x] /\ RemedierStands(e) /\ e.pc = "report"
    BY <1>1, RemedierOf
<1>4. PICK ok \in BOOLEAN : ok = (e.outcome = "succeeded")
    OBVIOUS
<1>5. PICK status \in {"cancelled", "blocked", "ready", "completed"} :
         status = IF old.status = "reconciling" THEN (IF ok THEN "cancelled" ELSE "blocked")
                  ELSE IF ~ok THEN "blocked"
                  ELSE IF old.stage = "remediate" THEN "ready" ELSE "completed"
    OBVIOUS
<1>6. PICK stage \in {"remediate", "verify_recovery"} :
         stage = IF ok /\ old.status # "reconciling" THEN "verify_recovery" ELSE old.stage
    BY DEF IncidentRow
<1>7. PICK remedied \in 0 .. MaxRemedySteps :
         remedied = IF ok /\ old.stage = "remediate" THEN old.step ELSE old.remedied
    BY DEF IncidentRow
<1> DEFINE row == [old EXCEPT !.open = FALSE, !.lease = "expired", !.status = status, !.stage = stage,
                      !.remedied = remedied]
<1>8. row \in IncidentRow /\ row.open = FALSE /\ row.remedied = remedied /\ row.fence = old.fence
    BY DEF IncidentRow
<1>9. incident' = row
    BY <1>2, <1>3, <1>4, <1>5, <1>6, <1>7 DEF CompleteRemedy
<1> HIDE DEF row
<1>10. /\ remedier' \in [Remediers -> RemedierState] /\ remedier'[x] = IdleRemedier
       /\ \A y \in Remediers : y # x => remedier'[y] = remedier[y]
    BY IdleRemedierStands DEF CompleteRemedy, Turns, RemedyInv, RemedyTypeOK
<1>11. \A y \in Remediers : remedier'[y].pc = "report" <=> remedier'[y].outcome # None
    BY <1>10, IdleRemedierStands DEF RemedyInv, RemedyTypeOK
<1>12. remedied # 0 => Found(remedied)
  <2>1. CASE ok /\ old.stage = "remediate"
    <3>1. e.action = old.step /\ Found(e.action)
        BY <1>1, <1>2, <1>3, <1>4, <2>1 DEF RemedierStands, HoldsRemedy
    <3> QED
        BY <1>7, <2>1, <3>1
  <2>2. CASE ~(ok /\ old.stage = "remediate")
      BY <1>2, <1>7, <2>2
  <2> QED
      BY <2>1, <2>2
<1>13. ASSUME NEW y \in Remediers PROVE KeepsRemedy(incident, row, remedier[y])
    BY <1>2, <1>8, RemedierOf DEF RemedierStands, KeepsRemedy
<1>14. 0 <= row.fence
    BY <1>8 DEF IncidentRow
<1>15. RemedierStands(remedier[x])'
    BY <1>9, <1>10, <1>14, IdleRemedierStands, RemedyAssumption DEF RemedierStands, RemedyAssumption
<1>16. \A y \in Remediers : \/ remedier'[y] = remedier[y] /\ KeepsRemedy(incident, row, remedier[y])
                            \/ RemedierStands(remedier[y])'
    BY <1>10, <1>13, <1>15
<1> QED
    BY <1>1, <1>8, <1>9, <1>10, <1>11, <1>12, <1>16, IncidentKeepsInv

\* The lease runs out, the owner decides, or the data settles.
LEMMA IncidentStepsKeepInv ==
    ASSUME RemedyInv, RemedyLeaseExpires \/ StopRemedy \/ ResumeRemedy \/ WindowSettles
    PROVE  RemedyInv'
<1>1. UNCHANGED <<endpoint, flight, remedier>> /\ mishaps' \in 0 .. MaxRemedyFaults
    BY MishapInBound DEF RemedyLeaseExpires, StopRemedy, ResumeRemedy, WindowSettles, RemedyInv, RemedyTypeOK
<1>2. PICK old \in IncidentRow :
         /\ old = incident /\ (old.open /\ old.stage = "remediate" => old.step >= 1)
         /\ old.remedied # 0 => Found(old.remedied)
    BY DEF RemedyInv, RemedyTypeOK
<1>3. PICK next \in Nat : next = old.fence + 1
    BY DEF IncidentRow
<1>4. PICK row \in IncidentRow :
         /\ incident' = row /\ row.open = old.open /\ row.stage = old.stage /\ row.step = old.step
         /\ row.remedied = old.remedied /\ row.fence \in {old.fence, next}
  <2>1. CASE RemedyLeaseExpires
    <3> DEFINE n == [old EXCEPT !.lease = "expired"]
    <3>1. /\ n \in IncidentRow /\ n.open = old.open /\ n.stage = old.stage /\ n.step = old.step
          /\ n.remedied = old.remedied /\ n.fence = old.fence
        BY DEF IncidentRow
    <3>2. incident' = n
        BY <1>2, <2>1 DEF RemedyLeaseExpires
    <3> QED
        BY <3>1, <3>2
  <2>2. CASE incident' = [incident EXCEPT !.status = "reconciling"] \/ incident' = [incident EXCEPT !.status = "ready"]
    <3>1. PICK s \in {"reconciling", "ready"} : incident' = [old EXCEPT !.status = s]
        BY <1>2, <2>2
    <3> DEFINE n == [old EXCEPT !.status = s]
    <3>2. /\ n \in IncidentRow /\ n.open = old.open /\ n.stage = old.stage /\ n.step = old.step
          /\ n.remedied = old.remedied /\ n.fence = old.fence
        BY DEF IncidentRow
    <3> QED
        BY <3>1, <3>2
  <2>3. CASE incident' = [incident EXCEPT !.status = "cancelled", !.lease = "expired", !.fence = next]
    <3> DEFINE n == [old EXCEPT !.status = "cancelled", !.lease = "expired", !.fence = next]
    <3>1. /\ n \in IncidentRow /\ n.open = old.open /\ n.stage = old.stage /\ n.step = old.step
          /\ n.remedied = old.remedied /\ n.fence = next
        BY DEF IncidentRow
    <3> QED
        BY <1>2, <2>3, <3>1
  <2>4. CASE WindowSettles
    <3>1. PICK w \in {"satisfied", "violated"} : incident' = [old EXCEPT !.window = w]
        BY <1>2, <2>4 DEF WindowSettles
    <3> DEFINE n == [old EXCEPT !.window = w]
    <3>2. /\ n \in IncidentRow /\ n.open = old.open /\ n.stage = old.stage /\ n.step = old.step
          /\ n.remedied = old.remedied /\ n.fence = old.fence
        BY DEF IncidentRow
    <3> QED
        BY <3>1, <3>2
  <2> QED
      BY <1>2, <1>3, <2>1, <2>2, <2>3, <2>4 DEF StopRemedy, ResumeRemedy
<1>5. ASSUME NEW y \in Remediers PROVE KeepsRemedy(incident, row, remedier[y])
  <2>1. remedier[y].fence \in Nat /\ remedier[y].fence <= old.fence /\ old.fence \in Nat
      BY <1>2, RemedierOf DEF RemedierState, RemedierStands, IncidentRow
  <2> QED
      BY <1>2, <1>3, <1>4, <2>1 DEF KeepsRemedy
<1>6. /\ remedier' \in [Remediers -> RemedierState]
      /\ \A y \in Remediers : remedier'[y].pc = "report" <=> remedier'[y].outcome # None
    BY <1>1 DEF RemedyInv, RemedyTypeOK
<1>7. \A y \in Remediers : \/ remedier'[y] = remedier[y] /\ KeepsRemedy(incident, row, remedier[y])
                           \/ RemedierStands(remedier[y])'
    BY <1>1, <1>5
<1>8. /\ row.open /\ row.stage = "remediate" => row.step >= 1
      /\ row.remedied # 0 => Found(row.remedied)
    BY <1>2, <1>4
<1> QED
    BY <1>1, <1>4, <1>6, <1>7, <1>8, IncidentKeepsInv

LEMMA RemedyStepInv == RemedyInv /\ [RemedyNext]_remedyVars => RemedyInv'
<1> SUFFICES ASSUME RemedyInv, [RemedyNext]_remedyVars PROVE RemedyInv'
    OBVIOUS
<1>1. ASSUME NEW x \in Remediers, RemedierStep(x) PROVE RemedyInv'
    BY <1>1, ClaimRemedyKeepsInv, ReadsKeepInv, PutKeepsInv, RecordKeepsInv, CompleteRemedyKeepsInv,
       LeaveRemedyKeepsInv
    DEF RemedierStep
<1>2. ASSUME NEW x \in Remediers, CrashRemedy(x) PROVE RemedyInv'
    BY <1>2, LeaveRemedyKeepsInv
<1>3. ASSUME NEW x \in Remediers, Unreadable(x) PROVE RemedyInv'
    BY <1>3, ReadsKeepInv
<1>4. ASSUME NEW q \in flight, EndpointAnswers(q) PROVE RemedyInv'
    BY <1>4, AnswerKeepsInv
<1>5. CASE RemedyLeaseExpires \/ StopRemedy \/ ResumeRemedy \/ WindowSettles
    BY <1>5, IncidentStepsKeepInv
<1>6. ASSUME NEW state \in {"before", "foreign"}, EndpointDrifts(state) PROVE RemedyInv'
    BY <1>6, DriftKeepsInv
<1>7. CASE UNCHANGED remedyVars
    BY <1>7 DEF remedyVars, RemedyInv, RemedyTypeOK, ReplacesAuthorizedState, RemedierStands, Found
<1> QED
    BY <1>1, <1>2, <1>3, <1>4, <1>5, <1>6, <1>7 DEF RemedyNext

\* Every behaviour of the remedy keeps the invariant.
THEOREM RemedyIsSound == RemedySpec => []RemedyInv
BY RemedyInitInv, RemedyStepInv, PTL DEF RemedySpec

\* The remedy on the endpoint replaced the state it was authorized for and is
\* that of the recorded step, for any number of executors, attempts, delayed
\* requests and changes by others (remediate, remedyRead).
THEOREM RemedyOwned == RemedySpec => []RemedyIsItsOwn
<1>1. RemedyInv => RemedyIsItsOwn
    BY DEF RemedyInv, RemedyIsItsOwn, RemediedByRecordedAction, Found
<1> QED
    BY <1>1, RemedyIsSound, PTL

\* The endpoint, the requests, the run and the executors stay in their types,
\* and nobody reports without an outcome (RunOne, remediate).
THEOREM RemedyTypes == RemedySpec => []RemedyTypeOK
<1>1. RemedyInv => RemedyTypeOK
    BY DEF RemedyInv
<1> QED
    BY <1>1, RemedyIsSound, PTL

-----------------------------------------------------------------------------
(* The evidence of a stage *)

\* A sequence of evidence is its head and what is left after it.
LEMMA HeadAndRest ==
    ASSUME NEW todo \in Seq(Evidence), todo # << >>
    PROVE  /\ Head(todo) \in Evidence /\ Tail(todo) \in Seq(Evidence)
           /\ Left(todo) = {Head(todo)} \cup Left(Tail(todo))
           /\ Len(todo) = 1 => Left(todo) = {Head(todo)}
           /\ Len(todo) # 1 => Tail(todo) # << >>
<1>1. /\ Head(todo) \in Evidence /\ Tail(todo) \in Seq(Evidence) /\ Len(Tail(todo)) = Len(todo) - 1
      /\ \A i \in 1 .. Len(Tail(todo)) : Tail(todo)[i] = todo[i + 1]
    BY HeadTailProperties
<1>2. Head(todo) = todo[1] /\ Len(todo) \in Nat /\ Len(todo) >= 1
    BY EmptySeq, HeadTailProperties
<1>3. Left(todo) = {Head(todo)} \cup Left(Tail(todo))
  <2>1. ASSUME NEW e \in Left(todo) PROVE e \in {Head(todo)} \cup Left(Tail(todo))
    <3>1. PICK i \in 1 .. Len(todo) : e = todo[i]
        BY <2>1 DEF Left
    <3>2. CASE i = 1
        BY <1>2, <3>1, <3>2
    <3>3. CASE i # 1
      <4>1. i - 1 \in 1 .. Len(Tail(todo)) /\ (i - 1) + 1 = i
          BY <1>1, <1>2, <3>3
      <4>2. Tail(todo)[i - 1] = e
          BY <1>1, <3>1, <4>1
      <4> QED
          BY <4>1, <4>2 DEF Left
    <3> QED
        BY <3>2, <3>3
  <2>2. ASSUME NEW e \in Left(Tail(todo)) PROVE e \in Left(todo)
    <3>1. PICK i \in 1 .. Len(Tail(todo)) : e = todo[i + 1]
        BY <1>1, <2>2 DEF Left
    <3>2. i + 1 \in 1 .. Len(todo)
        BY <1>1, <1>2
    <3> QED
        BY <3>1, <3>2 DEF Left
  <2>3. Head(todo) \in Left(todo)
      BY <1>2 DEF Left
  <2> QED
      BY <2>1, <2>2, <2>3
<1>4. Len(todo) = 1 => Left(todo) = {Head(todo)}
    BY <1>2 DEF Left
<1>5. Len(todo) # 1 => Tail(todo) # << >>
  <2>1. Len(<< >>) = 0
      OBVIOUS
  <2>2. Len(Tail(todo)) # 0 => Tail(todo) # << >>
      BY <2>1
  <2> QED
      BY <1>1, <1>2, <2>2
<1> QED
    BY <1>1, <1>3, <1>4, <1>5

LEMMA LeftOf ==
    /\ <<"prompt", "response", "manifest">> \in Seq(Evidence) /\ <<"prompt", "response", "manifest">> # << >>
    /\ Left(<<"prompt", "response", "manifest">>) = {"prompt", "response", "manifest"}
    /\ <<"patch">> \in Seq(Evidence) /\ <<"patch">> # << >> /\ Left(<<"patch">>) = {"patch"}
    /\ <<"receipt">> \in Seq(Evidence) /\ <<"receipt">> # << >> /\ Left(<<"receipt">>) = {"receipt"}
    /\ <<"receipt", "check_output">> \in Seq(Evidence) /\ <<"receipt", "check_output">> # << >>
    /\ Left(<<"receipt", "check_output">>) = {"receipt", "check_output"}
<1>1. 1 .. 1 = {1} /\ 1 .. 2 = {1, 2} /\ 1 .. 3 = {1, 2, 3}
    OBVIOUS
<1>2. <<"prompt", "response", "manifest">> \in Seq(Evidence) /\ <<"prompt", "response", "manifest">> # << >>
    BY DEF Evidence
<1>3. Left(<<"prompt", "response", "manifest">>) = {"prompt", "response", "manifest"}
  <2> DEFINE t == <<"prompt", "response", "manifest">>
  <2>1. Len(t) = 3 /\ t[1] = "prompt" /\ t[2] = "response" /\ t[3] = "manifest"
      OBVIOUS
  <2> HIDE DEF t
  <2>2. Left(t) = {"prompt", "response", "manifest"}
      BY <1>1, <2>1 DEF Left
  <2> QED
      BY <2>2 DEF t
<1>4. <<"patch">> \in Seq(Evidence) /\ <<"patch">> # << >> /\ Left(<<"patch">>) = {"patch"}
    BY <1>1 DEF Evidence, Left
<1>5. <<"receipt">> \in Seq(Evidence) /\ <<"receipt">> # << >> /\ Left(<<"receipt">>) = {"receipt"}
    BY <1>1 DEF Evidence, Left
<1>6. /\ <<"receipt", "check_output">> \in Seq(Evidence) /\ <<"receipt", "check_output">> # << >>
      /\ Left(<<"receipt", "check_output">>) = {"receipt", "check_output"}
  <2> DEFINE t == <<"receipt", "check_output">>
  <2>1. Len(t) = 2 /\ t[1] = "receipt" /\ t[2] = "check_output" /\ t \in Seq(Evidence) /\ t # << >>
      BY DEF Evidence
  <2> HIDE DEF t
  <2>2. Left(t) = {"receipt", "check_output"}
      BY <1>1, <2>1 DEF Left
  <2> QED
      BY <2>1, <2>2 DEF t
<1> QED
    BY <1>2, <1>3, <1>4, <1>5, <1>6

LEMMA IdleWorkStands ==
    IdleWork \in WorkRow /\ IdleWork.pc = "idle" /\ IdleWork.cited = {} /\ WorkInv(IdleWork) /\ IdleWork.outcome = None
    /\ WorkInv(IdleWork)'
<1>1. IdleWork.pc = "idle" /\ IdleWork.cited = {} /\ IdleWork.outcome = None
    BY DEF IdleWork
<1>2. IdleWork \in WorkRow
    BY DEF IdleWork, WorkRow, WorkStages
<1>3. WorkInv(IdleWork) /\ WorkInv(IdleWork)'
    BY <1>1 DEF WorkInv
<1> QED
    BY <1>1, <1>2, <1>3

LEMMA StageInitInv == StageInit => StageInv
<1> SUFFICES ASSUME StageInit PROVE StageInv
    OBVIOUS
<1>1. StageTypeOK
    BY IdleWorkStands, StageAssumption DEF StageInit, StageTypeOK, StageAssumption
<1>2. EvidenceSpooledFirst
    BY DEF StageInit, EvidenceSpooledFirst
<1> QED
    BY <1>1, <1>2, IdleWorkStands DEF StageInit, StageInv

LEMMA HiccupInBound ==
    ASSUME StageInv, Hiccup
    PROVE  hiccups' \in 0 .. MaxStageFaults
BY StageAssumption DEF StageInv, StageTypeOK, Hiccup, StageAssumption

\* The worker moves on; the stores stay.
LEMMA WorkKeepsInv ==
    ASSUME StageInv, NEW w \in WorkRow, work' = w, w.pc \in {"report", "done"} => w.outcome # None,
           WorkInv(w), w.cited \subseteq held, UNCHANGED <<spool, held>>,
           inventory' \in {"pinned", "other"}, hiccups' \in 0 .. MaxStageFaults,
           w.pc = "recheck" /\ inventory' = "pinned" => Pinned(w)
    PROVE  StageInv'
<1>1. StageTypeOK' /\ EvidenceSpooledFirst'
    BY DEF StageInv, StageTypeOK, EvidenceSpooledFirst
<1>2. WorkInv(work)'
    BY DEF WorkInv, Due, Answered, Pinned
<1> QED
    BY <1>1, <1>2 DEF StageInv, Pinned

LEMMA WorkOf ==
    ASSUME StageInv
    PROVE  work \in WorkRow /\ WorkInv(work) /\ work.cited \subseteq held
           /\ inventory \in {"pinned", "other"} /\ hiccups \in 0 .. MaxStageFaults
BY DEF StageInv, StageTypeOK

\* The handler returns: a success has what it needs.
LEMMA FinishesKeepsInv ==
    ASSUME StageInv, NEW outcome \in {"succeeded", "failed", "blocked"}, Finishes(outcome),
           outcome = "succeeded" => EvidenceFor(work.stage) = work.cited /\ Answered(work),
           UNCHANGED <<spool, held, inventory>>, hiccups' \in 0 .. MaxStageFaults
    PROVE  StageInv'
<1>1. PICK e \in WorkRow : e = work /\ e.cited \subseteq held
    BY WorkOf
<1> DEFINE w == [e EXCEPT !.pc = "report", !.outcome = outcome]
<1>2. /\ w \in WorkRow /\ w.pc = "report" /\ w.outcome = outcome /\ w.stage = e.stage /\ w.cited = e.cited
      /\ w.answeredBy = e.answeredBy /\ w.restored = e.restored /\ w.tokens = e.tokens
    BY DEF WorkRow
<1>3. work' = w
    BY <1>1 DEF Finishes
<1> HIDE DEF w
<1>4. WorkInv(w)
    BY <1>1, <1>2 DEF WorkInv, Answered, Pinned
<1>5. w.outcome # None
    BY <1>2, StageAssumption DEF StageAssumption
<1>6. inventory' \in {"pinned", "other"}
    BY WorkOf
<1> QED
    BY <1>1, <1>2, <1>3, <1>4, <1>5, <1>6, WorkKeepsInv

\* A stage begins with nothing cited and nothing held for its step.
LEMMA BeginStageKeepsInv ==
    ASSUME StageInv, NEW stage \in WorkStages, BeginStage(stage)
    PROVE  StageInv'
<1>1. PICK pc \in {"disclose", "fetch", "observe"} :
         /\ pc = CASE stage = "build" -> "disclose" [] stage = "evaluate" -> "fetch" [] stage = "diagnose" -> "observe"
         /\ pc = "fetch" <=> stage = "evaluate"
    BY DEF WorkStages
<1>2. PICK idle \in WorkRow : idle = IdleWork /\ idle.cited = {}
    BY IdleWorkStands
<1> DEFINE w == [idle EXCEPT !.stage = stage, !.pc = pc]
<1>3. w \in WorkRow /\ w.pc = pc /\ w.stage = stage /\ w.cited = {}
    BY <1>2 DEF WorkRow
<1>4. work' = w
    BY <1>1, <1>2 DEF BeginStage
<1> HIDE DEF w
<1>5. held' = {} /\ UNCHANGED <<spool, inventory, hiccups>>
    BY DEF BeginStage
<1>6. WorkInv(w)'
    BY <1>1, <1>3 DEF WorkInv
<1>7. StageTypeOK' /\ EvidenceSpooledFirst'
    BY <1>3, <1>4, <1>5 DEF StageInv, StageTypeOK, EvidenceSpooledFirst
<1>8. WorkInv(work)'
    BY <1>4, <1>6 DEF WorkInv, Due, Answered, Pinned
<1> QED
    BY <1>3, <1>4, <1>5, <1>7, <1>8 DEF StageInv

\* The worker leaves, dies or starts over; what was put stays.
LEMMA CrashesKeepInv ==
    ASSUME StageInv, LeaveStage \/ CrashStage
    PROVE  StageInv'
<1>1. /\ work' = IdleWork /\ UNCHANGED <<spool, held>>
      /\ inventory' \in {"pinned", "other"} /\ hiccups' \in 0 .. MaxStageFaults
    BY WorkOf, HiccupInBound DEF LeaveStage, CrashStage
<1>2. PICK w \in WorkRow : w = IdleWork /\ w.pc = "idle" /\ w.cited = {}
    BY IdleWorkStands
<1>3. w.pc \notin {"report", "done", "recheck"} /\ WorkInv(w)
    BY <1>2, IdleWorkStands
<1> QED
    BY <1>1, <1>2, <1>3, WorkKeepsInv

\* A step of LocalStore.Put short of the rename: the evidence is still due.
LEMMA PutStepKeepsInv ==
    ASSUME StageInv, work.pc \in {"spool", "write"}, NEW pc \in {"write", "publish", "send"},
           NEW temporary \in {"none", "torn", "whole"},
           work' = [work EXCEPT !.pc = pc, !.temporary = temporary],
           pc = "publish" => temporary = "whole", pc = "send" => spool[Head(work.todo)] = "whole",
           UNCHANGED <<spool, held, inventory, hiccups>>
    PROVE  StageInv'
<1>1. PICK e \in WorkRow : e = work /\ WorkInv(e) /\ e.cited \subseteq held
    BY WorkOf
<1> DEFINE w == [e EXCEPT !.pc = pc, !.temporary = temporary]
<1>2. /\ w \in WorkRow /\ w.pc = pc /\ w.stage = e.stage /\ w.cited = e.cited /\ w.todo = e.todo
      /\ w.then = e.then /\ w.answeredBy = e.answeredBy /\ w.restored = e.restored /\ w.tokens = e.tokens
      /\ w.temporary = temporary
    BY DEF WorkRow
<1>3. work' = w
    BY <1>1
<1> HIDE DEF w
<1>4. WorkInv(w)
    BY <1>1, <1>2 DEF WorkInv, Due, Answered, Pinned
<1>5. /\ w.pc \notin {"report", "done", "recheck"}
      /\ inventory' \in {"pinned", "other"} /\ hiccups' \in 0 .. MaxStageFaults
    BY <1>2, WorkOf
<1> QED
    BY <1>1, <1>2, <1>3, <1>4, <1>5, WorkKeepsInv

\* A file that is there is whole; a new one begins as a temporary file.
LEMMA SpoolPutKeepsInv ==
    ASSUME StageInv, SpoolPut
    PROVE  StageInv'
<1>1. /\ work.pc = "spool" /\ UNCHANGED <<spool, held, inventory, hiccups>> /\ hiccups' \in 0 .. MaxStageFaults
    BY WorkOf DEF SpoolPut
<1>2. PICK e \in WorkRow : e = work /\ WorkInv(e) /\ e.pc = "spool"
    BY <1>1, WorkOf
<1>3. e.todo # << >> /\ e.todo \in Seq(Evidence)
    BY <1>2 DEF WorkInv, WorkRow
<1>4. Head(e.todo) \in Evidence
    BY <1>3, HeadAndRest
<1>5. spool[Head(work.todo)] \in {"absent", "torn", "whole"}
    BY <1>2, <1>4 DEF StageInv, StageTypeOK
<1>6. CASE spool[Head(work.todo)] = "torn"
  <2>1. Finishes("blocked")
      BY <1>6 DEF SpoolPut
  <2> QED
      BY <1>1, <2>1, FinishesKeepsInv
<1>7. CASE spool[Head(work.todo)] = "whole"
  <2>1. work' = [e EXCEPT !.pc = "send"]
      BY <1>2, <1>7 DEF SpoolPut
  <2>2. e.temporary \in {"none", "torn", "whole"} /\ [e EXCEPT !.pc = "send"] = [e EXCEPT !.pc = "send", !.temporary = e.temporary]
      BY DEF WorkRow
  <2> QED
      BY <1>1, <1>2, <1>7, <2>1, <2>2, PutStepKeepsInv
<1>8. CASE spool[Head(work.todo)] = "absent"
  <2>1. work' = [work EXCEPT !.pc = "write", !.temporary = "torn"]
      BY <1>8 DEF SpoolPut
  <2> QED
      BY <1>1, <2>1, PutStepKeepsInv
<1> QED
    BY <1>5, <1>6, <1>7, <1>8

LEMMA WriteTemporaryKeepsInv ==
    ASSUME StageInv, NEW complete \in BOOLEAN, WriteTemporary(complete)
    PROVE  StageInv'
<1>1. work.pc = "write" /\ UNCHANGED <<spool, held, inventory>>
    BY DEF WriteTemporary
<1>2. CASE complete
  <2>1. work' = [work EXCEPT !.pc = "publish", !.temporary = "whole"] /\ UNCHANGED hiccups
      BY <1>2 DEF WriteTemporary
  <2> QED
      BY <1>1, <2>1, PutStepKeepsInv
<1>3. CASE ~complete
  <2>1. Finishes("blocked") /\ hiccups' \in 0 .. MaxStageFaults
      BY <1>3, HiccupInBound DEF WriteTemporary
  <2> QED
      BY <1>1, <2>1, FinishesKeepsInv
<1> QED
    BY <1>2, <1>3

\* Only a whole file is published.
LEMMA PublishKeepsInv ==
    ASSUME StageInv, NEW renamed \in BOOLEAN, Publish(renamed)
    PROVE  StageInv'
<1>1. work.pc = "publish" /\ UNCHANGED <<held, inventory>> /\ inventory' \in {"pinned", "other"}
    BY WorkOf DEF Publish
<1>2. PICK e \in WorkRow : e = work /\ WorkInv(e) /\ e.cited \subseteq held /\ e.pc = "publish"
    BY <1>1, WorkOf
<1>3. e.todo # << >> /\ e.todo \in Seq(Evidence) /\ e.temporary = "whole"
    BY <1>2 DEF WorkInv, WorkRow
<1>4. Head(e.todo) \in Evidence
    BY <1>3, HeadAndRest
<1>5. CASE ~renamed
  <2>1. Finishes("blocked") /\ UNCHANGED spool /\ hiccups' \in 0 .. MaxStageFaults
      BY <1>5, HiccupInBound DEF Publish
  <2> QED
      BY <1>1, <2>1, FinishesKeepsInv
<1>6. CASE renamed
  <2> DEFINE w == [e EXCEPT !.pc = "send"]
  <2>1. /\ w \in WorkRow /\ w.pc = "send" /\ w.stage = e.stage /\ w.cited = e.cited /\ w.todo = e.todo
        /\ w.then = e.then /\ w.answeredBy = e.answeredBy /\ w.restored = e.restored /\ w.tokens = e.tokens
      BY DEF WorkRow
  <2>2. work' = w /\ spool' = [spool EXCEPT ![Head(e.todo)] = "whole"] /\ UNCHANGED hiccups
      BY <1>2, <1>3, <1>6 DEF Publish
  <2> HIDE DEF w
  <2>3. /\ spool' \in [Evidence -> {"absent", "torn", "whole"}] /\ spool'[Head(e.todo)] = "whole"
        /\ \A v \in Evidence : spool'[v] = spool[v] \/ spool'[v] = "whole"
      BY <1>4, <2>2 DEF StageInv, StageTypeOK
  <2>4. WorkInv(w)'
      BY <1>2, <2>1, <2>3 DEF WorkInv, Due, Answered, Pinned
  <2>5. WorkInv(work)'
      BY <2>2, <2>4 DEF WorkInv, Due, Answered, Pinned
  <2>6. StageTypeOK' /\ EvidenceSpooledFirst'
      BY <1>1, <2>1, <2>2, <2>3 DEF StageInv, StageTypeOK, EvidenceSpooledFirst
  <2> QED
      BY <1>1, <1>2, <2>1, <2>2, <2>5, <2>6 DEF StageInv
<1> QED
    BY <1>5, <1>6

\* What is sent is cited; with the last of it the handler goes on.
LEMMA SendArtifactKeepsInv ==
    ASSUME StageInv, SendArtifact
    PROVE  StageInv'
<1>1. work.pc = "send" /\ UNCHANGED <<spool, inventory, hiccups>>
    BY DEF SendArtifact
<1>2. PICK e \in WorkRow : e = work /\ WorkInv(e) /\ e.cited \subseteq held /\ e.pc = "send"
    BY <1>1, WorkOf
<1>3. /\ e.todo # << >> /\ e.todo \in Seq(Evidence) /\ spool[Head(e.todo)] = "whole"
      /\ Due(e, e.then, e.cited \cup Left(e.todo)) /\ e.then \in {"decode", "fail", "succeed", "reject"}
    BY <1>2 DEF WorkInv, WorkRow, Due
<1>4. /\ Head(e.todo) \in Evidence /\ Tail(e.todo) \in Seq(Evidence)
      /\ Left(e.todo) = {Head(e.todo)} \cup Left(Tail(e.todo))
      /\ Len(e.todo) = 1 => Left(e.todo) = {Head(e.todo)}
      /\ Len(e.todo) # 1 => Tail(e.todo) # << >>
    BY <1>3, HeadAndRest
<1>5. PICK head \in Evidence, rest \in Seq(Evidence) : head = Head(e.todo) /\ rest = Tail(e.todo)
    BY <1>4
<1>6. PICK pc \in {"decode", "fail", "succeed", "reject", "spool"} :
         /\ pc = IF Len(e.todo) = 1 THEN e.then ELSE "spool"
         /\ Len(e.todo) # 1 <=> pc = "spool"
    BY <1>3
<1> DEFINE w == [e EXCEPT !.cited = e.cited \cup {head}, !.todo = rest, !.pc = pc]
<1>7. /\ w \in WorkRow /\ w.pc = pc /\ w.stage = e.stage /\ w.cited = e.cited \cup {head} /\ w.todo = rest
      /\ w.then = e.then /\ w.answeredBy = e.answeredBy /\ w.restored = e.restored /\ w.tokens = e.tokens
  <2>1. e.cited \cup {head} \in SUBSET Evidence
      BY DEF WorkRow
  <2> QED
      BY <2>1 DEF WorkRow
<1>8. work' = w
    BY <1>2, <1>5, <1>6 DEF SendArtifact
<1>9. held' = held \cup {head}
    BY <1>2, <1>5 DEF SendArtifact
<1> HIDE DEF w
<1>10. StageTypeOK' /\ EvidenceSpooledFirst'
    BY <1>1, <1>3, <1>5, <1>7, <1>8, <1>9 DEF StageInv, StageTypeOK, EvidenceSpooledFirst
<1>11. WorkInv(w)
  <2>1. CASE Len(e.todo) = 1
    <3>1. w.cited = e.cited \cup Left(e.todo) /\ pc = e.then /\ pc # "spool"
        BY <1>4, <1>5, <1>6, <1>7, <2>1
    <3>2. Due(w, pc, w.cited)
        BY <1>3, <1>7, <3>1 DEF Due, Answered, Pinned
    <3> QED
        BY <1>7, <3>1, <3>2 DEF WorkInv
  <2>2. CASE Len(e.todo) # 1
    <3>1. w.cited \cup Left(rest) = e.cited \cup Left(e.todo) /\ pc = "spool" /\ rest # << >>
        BY <1>4, <1>5, <1>6, <1>7, <2>2
    <3>2. Due(w, w.then, w.cited \cup Left(w.todo))
        BY <1>3, <1>7, <3>1 DEF Due, Answered, Pinned
    <3> QED
        BY <1>7, <3>1, <3>2 DEF WorkInv
  <2> QED
      BY <2>1, <2>2
<1>12. WorkInv(work)'
    BY <1>1, <1>8, <1>11 DEF WorkInv, Due, Answered, Pinned
<1> QED
    BY <1>2, <1>7, <1>8, <1>9, <1>10, <1>12 DEF StageInv

LEMMA SendFailsKeepsInv ==
    ASSUME StageInv, SendFails
    PROVE  StageInv'
<1>1. /\ work.pc = "send" /\ UNCHANGED <<spool, inventory>> /\ hiccups' \in 0 .. MaxStageFaults
      /\ Finishes("blocked") /\ (held' = held \cup {Head(work.todo)} \/ UNCHANGED held)
    BY HiccupInBound DEF SendFails
<1>2. PICK e \in WorkRow : e = work /\ WorkInv(e) /\ e.cited \subseteq held /\ e.pc = "send"
    BY <1>1, WorkOf
<1>3. e.todo # << >> /\ e.todo \in Seq(Evidence) /\ spool[Head(e.todo)] = "whole"
    BY <1>2 DEF WorkInv, WorkRow
<1>4. Head(e.todo) \in Evidence
    BY <1>3, HeadAndRest
<1> DEFINE w == [e EXCEPT !.pc = "report", !.outcome = "blocked"]
<1>5. w \in WorkRow /\ w.pc = "report" /\ w.outcome = "blocked" /\ w.cited = e.cited
    BY DEF WorkRow
<1>6. work' = w
    BY <1>1, <1>2 DEF Finishes
<1> HIDE DEF w
<1>7. WorkInv(work)'
    BY <1>5, <1>6 DEF WorkInv
<1>8. StageTypeOK' /\ EvidenceSpooledFirst'
    BY <1>1, <1>2, <1>3, <1>4, <1>5, <1>6, StageAssumption
    DEF StageInv, StageTypeOK, EvidenceSpooledFirst, StageAssumption
<1> QED
    BY <1>1, <1>2, <1>5, <1>6, <1>7, <1>8 DEF StageInv

\* Before the model answers nothing is cited.
LEMMA PrepareWorkKeepsInv ==
    ASSUME StageInv, NEW pc \in {"check", "generate"}, work' = [work EXCEPT !.pc = pc],
           work.pc \in {"disclose", "observe", "check"}, UNCHANGED <<spool, held, inventory, hiccups>>
    PROVE  StageInv'
<1>1. PICK e \in WorkRow : e = work /\ WorkInv(e) /\ e.cited \subseteq held
    BY WorkOf
<1> DEFINE w == [e EXCEPT !.pc = pc]
<1>2. w \in WorkRow /\ w.pc = pc /\ w.stage = e.stage /\ w.cited = e.cited
    BY DEF WorkRow
<1>3. work' = w
    BY <1>1
<1> HIDE DEF w
<1>4. WorkInv(w)
    BY <1>1, <1>2 DEF WorkInv
<1>5. w.pc \notin {"report", "done"} /\ inventory' \in {"pinned", "other"} /\ hiccups' \in 0 .. MaxStageFaults
    BY <1>2, WorkOf
<1> QED
    BY <1>1, <1>2, <1>3, <1>4, <1>5, WorkKeepsInv

\* put: what is put and what was cited is due where the handler goes on.
LEMMA PutsKeepsInv ==
    ASSUME StageInv, NEW todo \in Seq(Evidence), todo # << >>, NEW then \in {"decode", "fail", "succeed", "reject"},
           NEW w \in WorkRow, work' = w, w.pc = "spool", w.todo = todo, w.then = then, w.stage = work.stage,
           w.cited = work.cited, Due(w, then, work.cited \cup Left(todo)),
           UNCHANGED <<spool, held, inventory, hiccups>>
    PROVE  StageInv'
<1>1. WorkInv(w) /\ w.pc \notin {"report", "done"} /\ w.cited \subseteq held
    BY WorkOf DEF WorkInv
<1>2. inventory' \in {"pinned", "other"} /\ hiccups' \in 0 .. MaxStageFaults
    BY WorkOf
<1> QED
    BY <1>1, <1>2, WorkKeepsInv

LEMMA PrepareStepsKeepInv ==
    ASSUME StageInv, (\E n \in FileCounts : DiscloseFiles(n)) \/ ObserveSources
    PROVE  StageInv'
<1>1. UNCHANGED <<spool, held, inventory, hiccups>> /\ work.pc \in {"disclose", "observe", "check"}
      /\ hiccups' \in 0 .. MaxStageFaults
    BY WorkOf DEF DiscloseFiles, ObserveSources
<1>2. CASE Finishes("blocked")
    BY <1>1, <1>2, FinishesKeepsInv
<1>3. CASE work' = [work EXCEPT !.pc = "check"]
    BY <1>1, <1>3, PrepareWorkKeepsInv
<1> QED
    BY <1>2, <1>3 DEF DiscloseFiles, ObserveSources

LEMMA CheckModelKeepsInv ==
    ASSUME StageInv, CheckModel
    PROVE  StageInv'
<1>1. UNCHANGED <<spool, held, inventory, hiccups>> /\ work.pc = "check"
    BY DEF CheckModel
<1>2. CASE work' = [work EXCEPT !.pc = "generate"]
    BY <1>1, <1>2, PrepareWorkKeepsInv
<1>3. CASE work' = [work EXCEPT !.pc = "spool", !.todo = ModelEvidenceOf, !.then = "fail"]
  <2>1. PICK e \in WorkRow : e = work
      BY WorkOf
  <2>2. PICK todo \in Seq(Evidence) : todo = ModelEvidenceOf /\ todo # << >>
      BY LeftOf DEF ModelEvidenceOf
  <2> DEFINE w == [e EXCEPT !.pc = "spool", !.todo = todo, !.then = "fail"]
  <2>3. /\ w \in WorkRow /\ w.pc = "spool" /\ w.todo = todo /\ w.then = "fail" /\ w.stage = e.stage
        /\ w.cited = e.cited
      BY DEF WorkRow
  <2>4. work' = w
      BY <1>3, <2>1, <2>2
  <2> HIDE DEF w
  <2>5. Due(w, "fail", work.cited \cup Left(todo))
      BY DEF Due
  <2> QED
      BY <1>1, <2>1, <2>2, <2>3, <2>4, <2>5, PutsKeepsInv
<1> QED
    BY <1>2, <1>3 DEF CheckModel

LEMMA GenerateKeepsInv ==
    ASSUME StageInv, NEW t \in ReplyTokens, NEW done \in BOOLEAN, Generate(t, done)
    PROVE  StageInv'
<1>1. UNCHANGED <<spool, held, inventory, hiccups>> /\ work.pc = "generate"
    BY DEF Generate
<1>2. PICK e \in WorkRow : e = work /\ WorkInv(e) /\ e.cited \subseteq held
    BY WorkOf
<1>3. PICK bounded \in BOOLEAN : bounded = (done /\ Bounded(t))
    BY DEF Bounded
<1> DEFINE w == [e EXCEPT !.pc = "recheck", !.tokens = t, !.bounded = bounded, !.answeredBy = inventory]
<1>4. /\ w \in WorkRow /\ w.pc = "recheck" /\ w.stage = e.stage /\ w.cited = e.cited /\ w.tokens = t
      /\ w.bounded = bounded /\ w.answeredBy = inventory
    BY WorkOf DEF WorkRow
<1>5. work' = w
    BY <1>2, <1>3 DEF Generate
<1> HIDE DEF w
<1>6. bounded => t <= MaxOutputTokens
    BY <1>3 DEF Bounded
<1>7. WorkInv(w)
    BY <1>1, <1>2, <1>4, <1>6 DEF WorkInv
<1>8. w.pc \notin {"report", "done"} /\ inventory' \in {"pinned", "other"} /\ hiccups' \in 0 .. MaxStageFaults
    BY <1>1, <1>4, WorkOf
<1> QED
    BY <1>1, <1>2, <1>4, <1>5, <1>7, <1>8, WorkKeepsInv DEF Pinned

\* The inventory is asked again: only a bounded answer is decoded, of the
\* pinned model unless that one was put back since.
LEMMA CheckModelAgainKeepsInv ==
    ASSUME StageInv, CheckModelAgain
    PROVE  StageInv'
<1>1. UNCHANGED <<spool, held, inventory, hiccups>> /\ work.pc = "recheck"
    BY DEF CheckModelAgain
<1>2. PICK e \in WorkRow : e = work /\ WorkInv(e) /\ e.pc = "recheck" /\ (inventory = "pinned" => Pinned(e))
    BY <1>1, WorkOf DEF StageInv
<1>3. e.cited = {} /\ e.stage # "evaluate" /\ (e.bounded => e.tokens <= MaxOutputTokens)
    BY <1>2 DEF WorkInv
<1>4. PICK todo \in Seq(Evidence) : todo = ModelEvidenceOf /\ todo # << >> /\ Left(todo) = ModelEvidence
    BY LeftOf DEF ModelEvidenceOf, ModelEvidence
<1>6. PICK then \in {"decode", "fail"} :
         then = (IF Recheck(e.bounded) THEN "decode" ELSE "fail") /\ (then = "decode" => e.bounded /\ Pinned(e))
    BY <1>2 DEF Recheck, WorkRow
<1> DEFINE w == [e EXCEPT !.pc = "spool", !.todo = todo, !.then = then]
<1>7. /\ w \in WorkRow /\ w.pc = "spool" /\ w.todo = todo /\ w.then = then /\ w.stage = e.stage
      /\ w.cited = e.cited /\ w.answeredBy = e.answeredBy /\ w.restored = e.restored /\ w.tokens = e.tokens
    BY DEF WorkRow
<1>8. work' = w
    BY <1>2, <1>4, <1>6 DEF CheckModelAgain
<1> HIDE DEF w
<1>9. Due(w, then, work.cited \cup Left(todo))
    BY <1>2, <1>3, <1>4, <1>6, <1>7 DEF Due, Answered, Pinned
<1> QED
    BY <1>1, <1>2, <1>4, <1>6, <1>7, <1>8, <1>9, PutsKeepsInv

\* A proposal that was decoded, for the stages with a model.
LEMMA DecodeKeepsInv ==
    ASSUME StageInv, NEW valid \in BOOLEAN, DecodeProposal(valid)
    PROVE  StageInv'
<1>1. UNCHANGED <<spool, held, inventory, hiccups>> /\ work.pc = "decode" /\ hiccups' \in 0 .. MaxStageFaults
    BY WorkOf DEF DecodeProposal
<1>2. PICK e \in WorkRow : e = work /\ WorkInv(e) /\ e.pc = "decode"
    BY <1>1, WorkOf
<1>3. e.stage \in {"build", "diagnose"} /\ e.cited = ModelEvidence /\ Answered(e)
    BY <1>2 DEF WorkInv, Due, WorkRow, WorkStages
<1>4. CASE Finishes("blocked")
    BY <1>1, <1>4, FinishesKeepsInv
<1>5. CASE e.stage # "build" /\ Finishes("succeeded")
  <2>1. EvidenceFor(e.stage) = e.cited
      BY <1>3, <1>5 DEF EvidenceFor, ModelEvidence
  <2> QED
      BY <1>1, <1>2, <1>3, <1>5, <2>1, FinishesKeepsInv
<1>6. CASE e.stage = "build" /\ Puts(<<"patch">>, "succeed")
  <2>1. PICK todo \in Seq(Evidence) : todo = <<"patch">> /\ todo # << >> /\ Left(todo) = {"patch"}
      BY LeftOf
  <2> DEFINE w == [e EXCEPT !.pc = "spool", !.todo = todo, !.then = "succeed"]
  <2>2. /\ w \in WorkRow /\ w.pc = "spool" /\ w.todo = todo /\ w.then = "succeed" /\ w.stage = e.stage
        /\ w.cited = e.cited /\ w.answeredBy = e.answeredBy /\ w.restored = e.restored /\ w.tokens = e.tokens
      BY DEF WorkRow
  <2>3. work' = w
      BY <1>2, <1>6, <2>1 DEF Puts
  <2> HIDE DEF w
  <2>4. EvidenceFor("build") = ModelEvidence \cup {"patch"}
      BY DEF EvidenceFor, ModelEvidence
  <2>5. Due(w, "succeed", work.cited \cup Left(todo))
      BY <1>2, <1>3, <1>6, <2>1, <2>2, <2>4 DEF Due, Answered, Pinned
  <2> QED
      BY <1>1, <1>2, <2>1, <2>2, <2>3, <2>5, PutsKeepsInv
<1> QED
    BY <1>2, <1>4, <1>5, <1>6 DEF DecodeProposal

LEMMA VerifyKeepsInv ==
    ASSUME StageInv, NEW verdict \in {"accepted", "rejected", "broken", "unavailable"}, VerifyCandidate(verdict)
    PROVE  StageInv'
<1>1. UNCHANGED <<spool, held, inventory, hiccups>> /\ work.pc = "fetch" /\ hiccups' \in 0 .. MaxStageFaults
    BY WorkOf DEF VerifyCandidate
<1>2. PICK e \in WorkRow : e = work /\ WorkInv(e) /\ e.pc = "fetch"
    BY <1>1, WorkOf
<1>3. e.stage = "evaluate" /\ e.cited = {}
    BY <1>2 DEF WorkInv
<1>4. CASE Finishes("blocked")
    BY <1>1, <1>4, FinishesKeepsInv
<1>5. ASSUME NEW todo \in Seq(Evidence), todo # << >>, NEW then \in {"fail", "succeed", "reject"}, Puts(todo, then),
             then = "succeed" => Left(todo) = {"receipt", "check_output"}
      PROVE  StageInv'
  <2> DEFINE w == [e EXCEPT !.pc = "spool", !.todo = todo, !.then = then]
  <2>1. /\ w \in WorkRow /\ w.pc = "spool" /\ w.todo = todo /\ w.then = then /\ w.stage = e.stage /\ w.cited = e.cited
      BY DEF WorkRow
  <2>2. work' = w
      BY <1>2, <1>5 DEF Puts
  <2> HIDE DEF w
  <2>3. EvidenceFor("evaluate") = {"receipt", "check_output"}
      BY DEF EvidenceFor
  <2>4. Due(w, then, work.cited \cup Left(todo))
      BY <1>2, <1>3, <1>5, <2>1, <2>3 DEF Due, Answered, Pinned
  <2> QED
      BY <1>1, <1>2, <1>5, <2>1, <2>2, <2>4, PutsKeepsInv
<1>6. CASE Puts(<<"receipt">>, "fail")
    BY <1>5, <1>6, LeftOf
<1>7. CASE Puts(<<"receipt", "check_output">>, IF verdict = "accepted" THEN "succeed" ELSE "reject")
    BY <1>5, <1>7, LeftOf
<1> QED
    BY <1>4, <1>6, <1>7 DEF VerifyCandidate

LEMMA ResultsKeepInv ==
    ASSUME StageInv, GenerationFailed \/ Conclude \/ CompleteStage \/ ModelReplaced
    PROVE  StageInv'
<1>1. UNCHANGED <<spool, held>> /\ hiccups' \in 0 .. MaxStageFaults /\ inventory' \in {"pinned", "other"}
    BY WorkOf, HiccupInBound DEF GenerationFailed, Conclude, CompleteStage, ModelReplaced
<1>2. PICK e \in WorkRow : e = work /\ WorkInv(e) /\ e.cited \subseteq held /\ (e.pc = "report" => e.outcome # None)
    BY WorkOf DEF StageInv, StageTypeOK
<1>3. CASE GenerationFailed
    BY <1>1, <1>3, FinishesKeepsInv DEF GenerationFailed
<1>4. CASE Conclude
  <2>1. CASE e.pc = "succeed" /\ Finishes("succeeded")
    <3>1. EvidenceFor(e.stage) = e.cited /\ Answered(e)
        BY <1>2, <2>1 DEF WorkInv, Due
    <3> QED
        BY <1>1, <1>2, <1>4, <2>1, <3>1, FinishesKeepsInv DEF Conclude
  <2>2. CASE Finishes("failed")
      BY <1>1, <1>4, <2>2, FinishesKeepsInv DEF Conclude
  <2> QED
      BY <1>2, <1>4, <2>1, <2>2 DEF Conclude
<1>5. CASE CompleteStage
  <2> DEFINE w == [e EXCEPT !.pc = "done"]
  <2>1. /\ w \in WorkRow /\ w.pc = "done" /\ w.outcome = e.outcome /\ w.stage = e.stage /\ w.cited = e.cited
        /\ w.answeredBy = e.answeredBy /\ w.restored = e.restored /\ w.tokens = e.tokens
      BY DEF WorkRow
  <2>2. work' = w /\ e.pc = "report"
      BY <1>2, <1>5 DEF CompleteStage
  <2> HIDE DEF w
  <2>3. WorkInv(w)
      BY <1>2, <2>1, <2>2 DEF WorkInv, Answered, Pinned
  <2> QED
      BY <1>1, <1>2, <2>1, <2>2, <2>3, WorkKeepsInv
<1>6. CASE ModelReplaced
  <2>1. PICK restored \in BOOLEAN : restored = (e.restored \/ (e.pc = "recheck" /\ inventory = "other"))
      BY DEF WorkRow
  <2> DEFINE w == [e EXCEPT !.restored = restored]
  <2>2. /\ w \in WorkRow /\ w.pc = e.pc /\ w.outcome = e.outcome /\ w.stage = e.stage /\ w.cited = e.cited
        /\ w.todo = e.todo /\ w.then = e.then /\ w.tokens = e.tokens /\ w.bounded = e.bounded
        /\ w.temporary = e.temporary /\ w.answeredBy = e.answeredBy /\ w.restored = restored
      BY DEF WorkRow
  <2>3. work' = w
      BY <1>2, <1>6, <2>1 DEF ModelReplaced
  <2> HIDE DEF w
  <2>4. e.pc \in {"report", "done"} => e.outcome # None
      BY <1>2 DEF StageInv, StageTypeOK
  <2>5. WorkInv(w)
      BY <1>2, <2>1, <2>2 DEF WorkInv, Due, Answered, Pinned
  <2>6. inventory' = "pinned" => inventory = "other"
      BY <1>6, WorkOf DEF ModelReplaced
  <2>7. w.pc = "recheck" /\ inventory' = "pinned" => Pinned(w)
      BY <2>1, <2>2, <2>6 DEF Pinned
  <2> QED
      BY <1>1, <1>2, <2>2, <2>3, <2>4, <2>5, <2>7, WorkKeepsInv
<1> QED
    BY <1>3, <1>4, <1>5, <1>6

LEMMA StageStepInv == StageInv /\ [StageNext]_stageVars => StageInv'
<1> SUFFICES ASSUME StageInv, [StageNext]_stageVars PROVE StageInv'
    OBVIOUS
<1>1. ASSUME StageNext PROVE StageInv'
    BY <1>1, BeginStageKeepsInv, SpoolPutKeepsInv, WriteTemporaryKeepsInv, PublishKeepsInv, CrashesKeepInv, SendArtifactKeepsInv, SendFailsKeepsInv,
       PrepareStepsKeepInv, CheckModelKeepsInv, GenerateKeepsInv, CheckModelAgainKeepsInv, DecodeKeepsInv,
       VerifyKeepsInv, ResultsKeepInv
    DEF StageNext
<1>2. CASE UNCHANGED stageVars
    BY <1>2 DEF stageVars, StageInv, StageTypeOK, EvidenceSpooledFirst, WorkInv, Due, Answered, Pinned
<1> QED
    BY <1>1, <1>2

\* Every behaviour of a stage's worker keeps the invariant.
THEOREM StageIsSound == StageSpec => []StageInv
BY StageInitInv, StageStepInv, PTL DEF StageSpec

\* Evidence outlives its worker, wherever it dies and whatever the gateway
\* refuses: it is whole in the spool before it is sent, no digest is left
\* damaged by a write that broke off, and a success cites what the gateway
\* holds and an answer within its limit, of the pinned model unless that was
\* put back before the second check (put, generate, modelEvidence).
THEOREM EvidenceKept == StageSpec => []EvidenceIsKept
<1>1. StageInv => EvidenceIsKept
    BY DEF StageInv, EvidenceIsKept, SuccessIsEvidenced, WorkInv, Answered, Pinned
<1> QED
    BY <1>1, StageIsSound, PTL

\* The worker's record and the stores stay inside their types, and every
\* stage, however it ends, reports an outcome (RunOne).
THEOREM StageTypes == StageSpec => []StageTypeOK
<1>1. StageInv => StageTypeOK
    BY DEF StageInv
<1> QED
    BY <1>1, StageIsSound, PTL

-----------------------------------------------------------------------------
(* The executors together *)

Parts == {"delivery", "remedy", "stage", "packages", "calls", "exports", "code graph", "vectors"}

executorsVars == <<part, deliveryVars, remedyVars, stageVars, packageVars, traceVars, codeVars>>

\* A behaviour of the executors is a behaviour of each component: what one of
\* them does is no step of another.  So everything that is proved of a
\* component, the release contract included, holds of the executors together.
THEOREM ExecutorsImplementComponents ==
    Spec => /\ DeliverySpec /\ RemedySpec /\ StageSpec /\ PackagesSpec /\ TraceSpec /\ CodeSpec
<1>1. Init => DeliveryInit /\ RemedyInit /\ StageInit /\ PackagesInit /\ TraceInit /\ CodeInit
    BY DEF Init
<1>2. [Next]_executorsVars =>
         /\ [DeliveryNext]_deliveryVars /\ [RemedyNext]_remedyVars /\ [StageNext]_stageVars
         /\ [PackagesNext]_packageVars /\ [TraceNext]_traceVars /\ [CodeNext]_codeVars
    BY DEF Next, TraceNext, CodeNext, executorsVars
<1> QED
    BY <1>1, <1>2, PTL
    DEF Spec, executorsVars, DeliverySpec, RemedySpec, StageSpec, PackagesSpec, TraceSpec, CodeSpec

\* Whichever component is at work, its rows, its requests and what it left
\* outside keep the shape the code maintains, for any number of executors,
\* workers, packages, calls and analyses.
THEOREM ExecutorsTypes == Spec => []ExecutorsTypeOK
<1>1. Init => part \in Parts
    BY DEF Init, Parts
<1>2. part \in Parts /\ [Next]_executorsVars => (part \in Parts)'
    BY DEF Next, executorsVars
<1>3. /\ part \in Parts /\ DeliveryTypeOK /\ RemedyTypeOK /\ StageTypeOK /\ PackagesTypeOK /\ TraceTypeOK
      /\ CodeTypeOK
      => ExecutorsTypeOK
    BY DEF Parts, ExecutorsTypeOK
<1>4. Spec => [](part \in Parts)
    BY <1>1, <1>2, PTL DEF Spec, executorsVars
<1> QED
    BY <1>3, <1>4, ExecutorsImplementComponents, DeliveryTypes, RemedyTypes, StageTypes, PackagesTypeCorrect,
       TraceTypes, CodeTypes, PTL
=============================================================================

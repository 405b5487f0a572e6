--------------------------- MODULE OperationTrace ---------------------------
(***************************************************************************)
(* Operation evidence and its export (internal/telemetry,                  *)
(* internal/postgres/trace.go, internal/service/trace.go and ingress.go,   *)
(* addTool and the middleware of internal/mcpserver/server.go).            *)
(*                                                                         *)
(* A tool call is wrapped twice, by an envelope and by its tool operation. *)
(* Each writes an intent before the work and an outcome after it, in       *)
(* transactions of their own; the handler's transaction carries a commit   *)
(* record beside its mutation, except for review_record and                *)
(* repository_relation_upsert, which write none.  A retry under an         *)
(* idempotency key that was used is answered without a mutation.  The      *)
(* gateway may crash in between, the database may refuse any write, and    *)
(* the answer of a commit may be lost.                                     *)
(* Records are exported to a collector by any number of workers.           *)
(***************************************************************************)
EXTENDS Common, Sequences, FiniteSets

CONSTANTS
    ToolCalls,      \* tool calls that change state
    UnauditedCalls, \* those of review_record and repository_relation_upsert
    RequestOf,      \* [ToolCalls -> the request an idempotency key names]
    Exporters,      \* workers running Exporter.ProcessOnce
    MaxExports,     \* bound: requests to the collector
    MaxTraceFaults  \* bound: crashes, refused writes and lost answers

ASSUME TraceAssumption ==
    UnauditedCalls \subseteq ToolCalls /\ MaxExports \in Nat /\ MaxTraceFaults \in Nat

VARIABLES
    call,        \* [ToolCalls -> where the call is, what its handler returned, and
                 \* whether its open transaction holds the commit record]
    records,     \* operation_records: [call, level, phase, outcome]
    mutated,     \* calls whose mutation is committed
    exported,    \* records with trace_export_queue.exported_at
    collector,   \* records the collector accepted
    exporting,   \* [Exporters -> a record being sent and its receipt]
    exports,     \* requests made
    outages      \* faults that happened

traceVars == <<call, records, mutated, exported, collector, exporting, exports, outages>>

Record(c, level, phase, outcome) == [call |-> c, level |-> level, phase |-> phase, outcome |-> outcome]

TraceInit ==
    /\ call = [c \in ToolCalls |-> [at |-> "new", result |-> "none", audit |-> FALSE]]
    /\ records = {} /\ mutated = {} /\ exported = {} /\ collector = {}
    /\ exporting = [x \in Exporters |-> None]
    /\ exports = 0 /\ outages = 0

-----------------------------------------------------------------------------
(* The two boundaries *)

\* A write that fails costs a fault; a nested action says what follows.
Fault == outages < MaxTraceFaults /\ outages' = outages + 1

\* Begin: no operation runs without its intent.
Begin(c, level, from, to, stored) ==
    /\ call[c].at = from
    /\ IF stored
          THEN /\ records' = records \cup {Record(c, level, "intent", "pending")}
               /\ call' = [call EXCEPT ![c].at = to]
               /\ UNCHANGED outages
          ELSE /\ Fault /\ UNCHANGED records
               /\ call' = [call EXCEPT ![c].at = IF level = "envelope" THEN "ended" ELSE "enveloped",
                                       ![c].result = "failed"]
    /\ UNCHANGED <<mutated, exported, collector, exporting, exports>>

BeginToolEnvelope(c, stored) == Begin(c, "envelope", "new", "entered", stored)
BeginOperation(c, stored) == Begin(c, "tool", "entered", "running", stored)

\* What recordDelegationDenial writes, in this order.
Denial(c) == <<Record(c, "tool", "intent", "pending"), Record(c, "tool", "outcome", "denied")>>

\* BeginToolOperation refuses.  Of an ended delegation, or a tool outside of
\* it, the denial is recorded, unless a write fails; of an unknown id nothing.
Denied(c, kept) ==
    /\ call[c].at = "entered"
    /\ records' = records \cup {Denial(c)[i] : i \in 1 .. kept}
    /\ IF kept = 1 THEN Fault ELSE UNCHANGED outages
    /\ call' = [call EXCEPT ![c].at = "enveloped", ![c].result = "denied"]
    /\ UNCHANGED <<mutated, exported, collector, exporting, exports>>

\* The request was carried out under the same idempotency key.  The calls
\* without a commit record take no key.
Repeated(c) == c \notin UnauditedCalls /\ \E d \in mutated : RequestOf[d] = RequestOf[c]

\* The handler opens its transaction and looks its key up.  A repeat is
\* answered with what is there; anything else writes its rows.
HandleLookup(c) ==
    /\ call[c].at = "running"
    /\ call' = IF Repeated(c) THEN [call EXCEPT ![c].at = "handled", ![c].result = "success"]
               ELSE [call EXCEPT ![c].at = IF c \in UnauditedCalls THEN "committing" ELSE "writing"]
    /\ UNCHANGED <<records, mutated, exported, collector, exporting, exports, outages>>

\* Mutant: a record that cannot be written does not stop the transaction.
auditMutation_Ignored(c, stored) ==
    /\ call[c].at = "writing"
    /\ call' = [call EXCEPT ![c].at = "committing", ![c].audit = stored]
    /\ IF stored THEN UNCHANGED outages ELSE Fault
    /\ UNCHANGED <<records, mutated, exported, collector, exporting, exports>>

\* The commit record joins the transaction; without it everything is rolled
\* back.
auditMutation(c, stored) ==
    /\ call[c].at = "writing"
    /\ IF stored THEN call' = [call EXCEPT ![c].at = "committing", ![c].audit = TRUE] /\ UNCHANGED outages
       ELSE call' = [call EXCEPT ![c].at = "handled", ![c].result = "failed"] /\ Fault
    /\ UNCHANGED <<records, mutated, exported, collector, exporting, exports>>

CommitRecord(c) == Record(c, "tool", "commit", "success")

\* What the transaction holds becomes visible at once; its answer may be
\* lost.  The lock, the expected version or the unique key let one
\* transaction of a request through.
HandleCommit(c, answered) ==
    /\ call[c].at = "committing" /\ ~Repeated(c)
    /\ mutated' = mutated \cup {c}
    /\ records' = IF call[c].audit THEN records \cup {CommitRecord(c)} ELSE records
    /\ IF answered THEN UNCHANGED outages ELSE Fault
    /\ call' = [call EXCEPT ![c].at = "handled", ![c].result = IF answered THEN "success" ELSE "failed"]
    /\ UNCHANGED <<exported, collector, exporting, exports>>

\* The handler refuses, or its transaction fails and is rolled back.
HandleFails(c, result) ==
    /\ call[c].at \in {"running", "writing", "committing"}
    /\ call' = [call EXCEPT ![c].at = "handled", ![c].result = result]
    /\ UNCHANGED <<records, mutated, exported, collector, exporting, exports, outages>>

\* The envelope sees a tool's error as a result that is one, whatever it was.
Outcome(level, result) == IF level = "tool" \/ result = "success" THEN result ELSE "failed"

\* Finish: the outcome of what the handler returned.  An outcome that cannot
\* be stored joins the error, so the envelope of a success reports a failure.
Finish(c, level, from, to, stored) ==
    /\ call[c].at = from
    /\ call' = [call EXCEPT ![c].at = to, ![c].result = IF stored THEN @ ELSE "failed"]
    /\ IF stored
          THEN records' = records \cup {Record(c, level, "outcome", Outcome(level, call[c].result))} /\ UNCHANGED outages
          ELSE UNCHANGED records /\ Fault
    /\ UNCHANGED <<mutated, exported, collector, exporting, exports>>

FinishTool(c, stored) == Finish(c, "tool", "handled", "enveloped", stored)
FinishEnvelope(c, stored) == Finish(c, "envelope", "enveloped", "ended", stored)

\* The gateway stops; what its calls had written stays.
GatewayCrash ==
    /\ \E c \in ToolCalls : call[c].at \notin {"new", "ended"}
    /\ Fault
    /\ call' = [c \in ToolCalls |-> IF call[c].at = "new" THEN call[c] ELSE [call[c] EXCEPT !.at = "ended"]]
    /\ UNCHANGED <<records, mutated, exported, collector, exporting, exports>>

\* ReadWorkflowTrace: the operations without an outcome.
MissingOutcomes ==
    {r \in records : /\ r.phase = "intent"
                     /\ ~\E o \in records : o.phase = "outcome" /\ o.call = r.call /\ o.level = r.level}

-----------------------------------------------------------------------------
(* Export *)

\* PendingTraceExports claims nothing: two workers may hold the same record.
Send(x, r) ==
    /\ exporting[x] = None /\ r \in records \ exported /\ exports < MaxExports
    /\ exporting' = [exporting EXCEPT ![x] = [record |-> r, receipt |-> "none"]]
    /\ exports' = exports + 1
    /\ UNCHANGED <<call, records, mutated, exported, collector, outages>>

\* The collector takes the span and says so, takes it and the answer is
\* lost, or answers 2xx with the span among the rejected ones.
Collect(x, receipt) ==
    /\ exporting[x] # None /\ exporting[x].receipt = "none"
    /\ collector' = IF receipt = "rejected" THEN collector ELSE collector \cup {exporting[x].record}
    /\ exporting' = [exporting EXCEPT ![x].receipt = receipt]
    /\ UNCHANGED <<call, records, mutated, exported, exports, outages>>

Succeeded(receipt) == receipt = "accepted"

\* WHERE exported_at IS NULL: attempts and the next attempt are left out.
FinishTraceExport(r, success) ==
    exported' = IF r \notin exported /\ success THEN exported \cup {r} ELSE exported

EndExport(x) ==
    /\ exporting[x] # None /\ exporting[x].receipt # "none"
    /\ FinishTraceExport(exporting[x].record, Succeeded(exporting[x].receipt))
    /\ exporting' = [exporting EXCEPT ![x] = None]
    /\ UNCHANGED <<call, records, mutated, collector, exports, outages>>

CallNext ==
    \/ \E c \in ToolCalls :
          \/ \E stored \in BOOLEAN :
                \/ BeginToolEnvelope(c, stored) \/ BeginOperation(c, stored)
                \/ auditMutation(c, stored) \/ FinishTool(c, stored) \/ FinishEnvelope(c, stored)
          \/ \E kept \in 0 .. 2 : Denied(c, kept)
          \/ HandleLookup(c)
          \/ \E answered \in BOOLEAN : HandleCommit(c, answered)
          \/ \E result \in {"failed", "denied"} : HandleFails(c, result)
    \/ GatewayCrash

ExportNext ==
    \E x \in Exporters :
        \/ \E r \in records : Send(x, r)
        \/ \E receipt \in {"accepted", "lost", "rejected"} : Collect(x, receipt)
        \/ EndExport(x)

TraceNext == CallNext \/ ExportNext

TraceSpec == TraceInit /\ [][TraceNext]_traceVars

-----------------------------------------------------------------------------
(* Properties *)

CallRow ==
    [at : {"new", "entered", "running", "writing", "committing", "handled", "enveloped", "ended"},
     result : {"none", "success", "failed", "denied"}, audit : BOOLEAN]

\* Calls and records have the shapes of their Go types, and an operation has
\* one outcome (OperationRecord).
TraceTypeOK ==
    /\ call \in [ToolCalls -> CallRow]
    /\ \A c \in ToolCalls, level \in {"envelope", "tool"} :
          Cardinality({r \in records : r.call = c /\ r.level = level /\ r.phase = "outcome"}) <= 1
    /\ \A r \in records : r.phase \in {"intent", "commit", "outcome"} /\ r.outcome # "none"
    /\ exported \subseteq records /\ collector \subseteq records

\* "state_and_evidence_committed_atomically": whatever crashed or was refused,
\* a mutation has its intent and, but for the two tools that write none, its
\* commit record, and no record tells of a mutation that was rolled back; a
\* request under an idempotency key is carried out once, and a success tells
\* of a request that was; a trace without missing outcomes says what became
\* of every mutation (auditMutation, Begin, ReadWorkflowTrace).
MutationIsEvidenced ==
    /\ \A c \in ToolCalls : CommitRecord(c) \in records <=> c \in mutated \ UnauditedCalls
    /\ \A c \in mutated : Record(c, "tool", "intent", "pending") \in records
    /\ \A c, d \in mutated \ UnauditedCalls : RequestOf[c] = RequestOf[d] => c = d
    /\ \A r \in records : r.phase = "outcome" /\ r.outcome = "success" =>
          \E d \in mutated : RequestOf[d] = RequestOf[r.call]
    /\ MissingOutcomes = {} =>
          \A c \in mutated : \E r \in records : r.call = c /\ r.level = "tool" /\ r.phase = "outcome"

\* What is marked exported did reach the collector (Exporter.ProcessOnce).
ExportedWasReceived == exported \subseteq collector

\* The evidence of operations is complete in the database, and what is taken
\* off the export queue is complete at the collector (auditMutation,
\* FinishTraceExport).
EvidenceIsComplete == MutationIsEvidenced /\ ExportedWasReceived
=============================================================================

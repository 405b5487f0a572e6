--------------------------- MODULE SourceAdapters ---------------------------
(***************************************************************************)
(* The native source adapter (internal/sourceadapter) and the validation   *)
(* it shares with the gateway (internal/sources/registry.go): bounded      *)
(* reads of one operational source for one window, and when their answer   *)
(* may call itself complete.                                               *)
(*                                                                         *)
(* Producers write events and watermarks to the source while a query reads *)
(* it; a watermark promises that the producer writes no new event from     *)
(* before it.  Each behaviour has a source of one kind.  Times are 1, in   *)
(* the window, and 2, its end; 0 is the epoch that stands for "none".      *)
(* Events a filter drops are like events outside the window.               *)
(* The mcp backend hands the query to an external tool and returns what it *)
(* answers (readMCP); it has nothing to read here and is no source kind.   *)
(***************************************************************************)
EXTENDS Common, SequencesExt, FiniteSetsExt

CONSTANTS
    SourceKinds,     \* backends of the reviewed views
    Producers,       \* partitions, streams or series the view expects
    SourceEvents,    \* events producers may write
    EventTime,       \* [SourceEvents -> 1 .. 2]
    Producer,        \* [SourceEvents -> Producers]
    WatermarkRows,   \* producers the reviewed watermark view or query always lists
    SourceQueries,   \* requests to the adapter
    RowLimit,        \* limit of the query
    MaxScanRecords,  \* scan bound of the view
    MaxActive,       \* queries the adapter serves at once
    MaxEntries,      \* bound: [Producers -> entries]
    MaxSnapshots     \* bound: lake snapshots

ASSUME SourceAssumption ==
    /\ SourceKinds \subseteq {"kafka", "loki", "prometheus", "postgres", "s3"}
    /\ EventTime \in [SourceEvents -> 1 .. 2] /\ Producer \in [SourceEvents -> Producers]
    /\ WatermarkRows \subseteq Producers /\ IsFiniteSet(Producers)
    /\ RowLimit \in Nat \ {0} /\ MaxScanRecords \in Nat \ {0} /\ MaxActive \in Nat \ {0}
    /\ MaxEntries \in [Producers -> Nat] /\ MaxSnapshots \in Nat

\* A read in progress: offsets listed and read of each partition, watermarks
\* seen, and the object's ETag.
ReadRecord ==
    [phase : {"read", "watermark", "done"}, rows : Seq(SourceEvents), complete : BOOLEAN, watermark : 0 .. 2,
     marks : [Producers -> 0 .. 2], end : [Producers -> Nat \cup {None}], pos : [Producers -> Nat],
     etag : Nat \cup {None}]

ASSUME SourceNoneAssumption == None \notin SourceEvents \cup ReadRecord

VARIABLES
    sourceKind,   \* the backend of this behaviour's view
    log,          \* [Producers -> entries written, oldest first]
    lake,         \* the lake's object: a stored envelope and its ETag
    active,       \* queries the adapter counts as running
    query,        \* [SourceQueries -> the read in progress, or None]
    envelope      \* [SourceQueries -> the answer the gateway accepted, or None]

sourceVars == <<sourceKind, log, lake, active, query, envelope>>

Epoch == 0
WindowEnd == 2
Event(e) == [event |-> e, mark |-> Epoch]
Mark(t) == [event |-> None, mark |-> t]

SourceInit ==
    /\ sourceKind \in SourceKinds
    /\ log = [p \in Producers |-> <<>>]
    /\ lake = [etag |-> 0, rows |-> <<>>, watermark |-> Epoch, complete |-> FALSE]
    /\ active = 0
    /\ query = [c \in SourceQueries |-> None]
    /\ envelope = [c \in SourceQueries |-> None]

-----------------------------------------------------------------------------
(* What the producers wrote *)

MarkIn(entries) == Max({Epoch} \cup {entries[i].mark : i \in DOMAIN entries})
WrittenBy(p) == {log[p][i].event : i \in DOMAIN log[p]} \ {None}
InWindow(e) == EventTime[e] < WindowEnd
WindowEvents == {e \in UNION {WrittenBy(p) : p \in Producers} : InWindow(e)}

\* The watermark is the least of them; the one of the epoch says nothing.
Least(marks) == IF marks = {} THEN Epoch ELSE Min(marks)

\* Rows of the watermark view or query: the producers it lists in any case and
\* those that ever reported one.
ListedMarks == {MarkIn(log[p]) : p \in {q \in Producers : q \in WatermarkRows \/ MarkIn(log[q]) > Epoch}}

\* A producer writes an event no older than its watermark, or repeats one.
WriteEvent(e) ==
    LET p == Producer[e] IN
    /\ Len(log[p]) < MaxEntries[p]
    /\ EventTime[e] >= MarkIn(log[p]) \/ e \in WrittenBy(p)
    /\ log' = [log EXCEPT ![p] = Append(@, Event(e))]
    /\ UNCHANGED <<sourceKind, lake, active, query, envelope>>

WriteMark(p) ==
    /\ Len(log[p]) < MaxEntries[p]
    /\ \E t \in (MarkIn(log[p]) + 1) .. WindowEnd : log' = [log EXCEPT ![p] = Append(@, Mark(t))]
    /\ UNCHANGED <<sourceKind, lake, active, query, envelope>>

\* The lake's exporter replaces the object by what is there at one moment.
ExportSnapshot ==
    /\ sourceKind = "s3" /\ lake.etag < MaxSnapshots
    /\ LET least == Least({MarkIn(log[p]) : p \in Producers}) IN
       lake' = [etag |-> lake.etag + 1, rows |-> SetToSeq(WindowEvents),
                watermark |-> least, complete |-> least > Epoch]
    /\ UNCHANGED <<sourceKind, log, active, query, envelope>>

-----------------------------------------------------------------------------
(* A query *)

EmptyEnvelope == [phase |-> "read", rows |-> <<>>, complete |-> TRUE, watermark |-> Epoch,
          marks |-> [p \in Producers |-> Epoch], end |-> [p \in Producers |-> None],
          pos |-> [p \in Producers |-> 0], etag |-> None]

\* Adapter.Query: a request over the limit of running queries, or too soon
\* after the last one, is refused as busy and changes nothing.
BeginQuery(c) ==
    /\ query[c] = None /\ envelope[c] = None
    /\ active < MaxActive
    /\ active' = active + 1
    /\ query' = [query EXCEPT ![c] = EmptyEnvelope]
    /\ UNCHANGED <<sourceKind, log, lake, envelope>>

\* appendRow: rows of the window up to the limit; one more makes the answer
\* partial.
appendRow_Unlimited(x, e) == [x EXCEPT !.rows = IF InWindow(e) THEN Append(@, e) ELSE @]
appendRow(x, e) ==
    CASE ~InWindow(e) -> x
      [] InWindow(e) /\ Len(x.rows) >= RowLimit -> [x EXCEPT !.complete = FALSE]
      [] OTHER -> [x EXCEPT !.rows = Append(@, e)]
appendRows(x, events) == FoldLeft(appendRow, x, events)

\* An entry is a watermark of its stream or a row.
Entry(x, p, entry) ==
    IF entry.event = None THEN [x EXCEPT !.marks[p] = Max({@, entry.mark})] ELSE appendRow(x, entry.event)
Entries(x, records) == FoldLeft(LAMBDA a, r : Entry(a, r.stream, r.entry), x, records)

\* A window may end up to a minute after the time now (ValidateQuery).
Clock == 1 .. WindowEnd

\* The watermark of all expected producers, no later than now.  One without
\* any leaves the answer partial.
AllMarks_Known(x, now) ==
    LET known == {x.marks[p] : p \in Producers} \ {Epoch} IN
    [x EXCEPT !.phase = "done", !.watermark = Least(known \cup {now}), !.complete = @ /\ known # {}]
AllMarks(x, now) ==
    LET marks == {x.marks[p] : p \in Producers} IN
    [x EXCEPT !.phase = "done", !.watermark = Least(marks \cup {now}), !.complete = @ /\ Epoch \notin marks]

InRead(c, kind) == query[c] # None /\ query[c].phase = "read" /\ sourceKind = kind
Read(c, x) ==
    /\ query' = [query EXCEPT ![c] = x]
    /\ UNCHANGED <<sourceKind, log, lake, active, envelope>>

\* kafkaOffsets: the brokers answer for their own partitions, one at a time.
ListOffset(c, p) ==
    /\ InRead(c, "kafka") /\ query[c].end[p] = None
    /\ Read(c, [query[c] EXCEPT !.end[p] = Len(log[p])])

AllListed(x) == \A p \in Producers : x.end[p] # None
Pending(x) == {p \in Producers : x.pos[p] < x.end[p]}
Scanned(x) == MapThenSumSet(LAMBDA p : x.pos[p], Producers)

\* readKafka: records in offset order per partition, up to the listed end.
PollRecord(c, p) ==
    LET x == query[c] IN
    /\ InRead(c, "kafka") /\ AllListed(x) /\ p \in Pending(x) /\ Scanned(x) < MaxScanRecords
    /\ Read(c, [Entry(x, p, log[p][x.pos[p] + 1]) EXCEPT !.pos[p] = @ + 1])

\* The scan bound may cut the scan off before the end.
KafkaDone(x, now) == AllMarks([x EXCEPT !.complete = @ /\ Pending(x) = {}], now)
FinishScan(c) ==
    LET x == query[c] IN
    /\ InRead(c, "kafka") /\ AllListed(x)
    /\ Pending(x) = {} \/ Scanned(x) = MaxScanRecords
    /\ \E now \in Clock : Read(c, KafkaDone(x, now))

\* readLoki: one answer with the entries of all streams, at most the scan
\* bound; reaching it makes the answer partial.  The request names the window
\* as range of the entries' own timestamps: the model's streams are what lies
\* in it, so an entry is taken to be stamped in the order of its stream, not
\* before its event and, to be seen at all, before the window's end.
InStreamOrder == FlattenSeq([i \in 1 .. Cardinality(Producers) |->
    LET p == SetToSeq(Producers)[i] IN [j \in DOMAIN log[p] |-> [stream |-> p, entry |-> log[p][j]]]])
QueryRange(c) ==
    LET all == InStreamOrder
        got == SubSeq(all, 1, Min({Len(all), MaxScanRecords}))
        x == Entries(query[c], got)
    IN  /\ InRead(c, "loki")
        /\ \E now \in Clock : Read(c, AllMarks([x EXCEPT !.complete = @ /\ Len(got) < MaxScanRecords], now))

\* readPrometheus: the samples of the window first ...
QuerySamples(c) ==
    LET samples == SetToSeq(WindowEvents)
        got == SubSeq(samples, 1, Min({Len(samples), MaxScanRecords}))
        x == appendRows(query[c], got)
    IN  /\ InRead(c, "prometheus")
        /\ Read(c, [x EXCEPT !.phase = "watermark",
                             !.complete = @ /\ Len(samples) <= MaxScanRecords /\ x.rows # <<>>])

\* ... and the watermarks in a second request.
QueryWatermark(c) ==
    /\ query[c] # None /\ query[c].phase = "watermark"
    /\ \E now \in Clock :
          Read(c, [query[c] EXCEPT !.phase = "done", !.complete = @ /\ ListedMarks # {},
                                   !.watermark = IF ListedMarks = {} THEN Epoch ELSE Min(ListedMarks \cup {now})])

\* readPostgres: watermark and rows of one snapshot, one row more than wanted.
SelectRows(c) ==
    LET wanted == Min({RowLimit, MaxScanRecords})
        rows == SetToSeq(WindowEvents)
        x == appendRows(query[c], SubSeq(rows, 1, Min({Len(rows), wanted})))
    IN  /\ InRead(c, "postgres")
        /\ Read(c, [x EXCEPT !.phase = "done", !.watermark = Least(ListedMarks),
                             !.complete = @ /\ Len(rows) <= wanted /\ ListedMarks # {}])

\* readS3: the object's ETag, then the object if it still has that ETag and is
\* within the scan bound; its own watermark and completeness.
StatObject(c) ==
    /\ InRead(c, "s3") /\ query[c].etag = None /\ lake.etag > 0
    /\ Read(c, [query[c] EXCEPT !.etag = lake.etag])

GetObject(c) ==
    /\ InRead(c, "s3") /\ query[c].etag = lake.etag /\ Len(lake.rows) <= MaxScanRecords
    /\ Read(c, appendRows([query[c] EXCEPT !.phase = "done", !.watermark = lake.watermark,
                                           !.complete = lake.complete], lake.rows))

-----------------------------------------------------------------------------
(* The answer *)

\* ValidateEnvelope: rows within the limit and without duplicates, and an
\* answer whose watermark lags behind the window is partial.
ValidEnvelope(x) == Len(x.rows) <= RowLimit /\ IsInjective(x.rows)
Covered(x) == x.complete /\ x.watermark >= WindowEnd

Leave(c) == active' = active - 1 /\ query' = [query EXCEPT ![c] = None]

\* Registry.Query: the gateway accepts what the adapter sent and validates it
\* once more.
Deliver(c) ==
    /\ query[c] # None /\ query[c].phase = "done" /\ ValidEnvelope(query[c])
    /\ envelope' = [envelope EXCEPT ![c] = [rows |-> query[c].rows, complete |-> Covered(query[c])]]
    /\ Leave(c)
    /\ UNCHANGED <<sourceKind, log, lake>>

\* A failed or invalid read, a timeout or an answer that is lost.
ReadFails(c) ==
    /\ query[c] # None
    /\ Leave(c)
    /\ UNCHANGED <<sourceKind, log, lake, envelope>>

SourceNext ==
    \/ \E e \in SourceEvents : WriteEvent(e)
    \/ \E p \in Producers : WriteMark(p)
    \/ ExportSnapshot
    \/ \E c \in SourceQueries :
        \/ BeginQuery(c)
        \/ \E p \in Producers : ListOffset(c, p) \/ PollRecord(c, p)
        \/ FinishScan(c) \/ QueryRange(c) \/ QuerySamples(c) \/ QueryWatermark(c)
        \/ SelectRows(c) \/ StatObject(c) \/ GetObject(c)
        \/ Deliver(c) \/ ReadFails(c)

SourceSpec == SourceInit /\ [][SourceNext]_sourceVars

-----------------------------------------------------------------------------
(* Properties *)

\* Reads and answers stay inside the bounds of the query and its view, no
\* answer has an event twice (appendRow, ValidateEnvelope), and the adapter
\* counts exactly the queries that run, however they end, so failures never
\* use up its slots (Adapter.Query).
SourceTypeOK ==
    /\ sourceKind \in SourceKinds
    /\ \A p \in Producers : Len(log[p]) <= MaxEntries[p]
    /\ lake.etag \in 0 .. MaxSnapshots
    /\ \A c \in SourceQueries :
        /\ query[c] # None =>
            /\ query[c].phase \in {"read", "watermark", "done"}
            /\ Len(query[c].rows) <= RowLimit /\ query[c].complete \in BOOLEAN
            /\ query[c].watermark \in Epoch .. WindowEnd
        /\ envelope[c] # None => envelope[c].complete \in BOOLEAN /\ IsInjective(envelope[c].rows)
    /\ active = Cardinality({c \in SourceQueries : query[c] # None}) /\ active <= MaxActive

\* An answer that calls itself complete has every event of its window, those
\* written after it was read included: limits, scan bounds, partitions listed
\* one by one and objects replaced under the reader only ever make an answer
\* partial (readKafka, readLoki, readPostgres, readS3, ValidateEnvelope).  Of
\* Prometheus it holds only for the samples there were when they were read:
\* the watermark comes from a later request.
CompleteIsWhole ==
    \A c \in SourceQueries : envelope[c] # None /\ envelope[c].complete /\ sourceKind # "prometheus" =>
        ToSet(envelope[c].rows) = WindowEvents
=============================================================================

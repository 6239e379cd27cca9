--------------------------- MODULE SshCollection ---------------------------
(***************************************************************************)
(* The collection of one SSH source: its journal, the restricted exporter  *)
(* (scripts/journal_export.py), the collector with its spool and cursor    *)
(* files (scripts/telemetry_collector.py), and what the API keeps of the   *)
(* batches (TelemetryStore.ingest and telemetry/collection.py).            *)
(*                                                                         *)
(* An entry of the journal is its position; written[e] is its time.  All   *)
(* parts read one clock.  The collector may stop between any two durable   *)
(* writes; a request it gave up on can still reach the API, once, later.   *)
(* Batch ids are reused when neither the spool nor the network holds them, *)
(* which stands for a new uuid.  Closed delays and notices are written and *)
(* never read again by these parts; they are left out.                     *)
(***************************************************************************)
EXTENDS Integers, Sequences, FiniteSets, FiniteSetsExt

CONSTANTS
    Window,         \* since_minutes of the collector, RECOVERY_WINDOW of the API
    Page,           \* MAX_RECORDS
    Retention,      \* age from which the journal may drop an entry
    ExportLag,      \* how long an export may take
    MaxTime,        \* bound on the clock
    MaxEntries,     \* bound on the journal
    MaxFaults       \* bound on failed exports, lost answers, stopped runs, lost files

ASSUME CollectionAssumption ==
    /\ Window \in Nat /\ Page \in Nat \ {0} /\ Retention \in Nat /\ ExportLag \in Nat
    /\ MaxTime \in Nat /\ MaxEntries \in Nat /\ MaxFaults \in Nat

(* The journal of a source keeps an entry for longer than the ten minutes  *)
(* an export without a cursor looks back, and the export itself, take.     *)
ASSUME RetentionAssumption == Retention > Window + ExportLag

VARIABLES
    now, written, oldest,   \* clock; journal ever written; first entry it still has
    cursor,                 \* the cursor in <source>.state.json, NoEntry if none
    pending,                \* <source>.pending.json
    phase,                  \* where the run of collect_page is
    late,                   \* a request the collector has given up on
    batches,                \* receipts of the batches that can still arrive
    stored,                 \* event receipts
    lastEvent,              \* sources.last_event_at
    coverage,               \* source_collection.coverage_start
    gaps,                   \* collection_issues of category gap
    open,                   \* kinds of the open delays
    caughtUp,               \* source_collection.caught_up
    asOf,                   \* collected_at of the last committed batch
    faults

journal == <<now, written, oldest>>
collector == <<cursor, pending, phase>>
api == <<batches, stored, lastEvent, coverage, gaps, open, caughtUp, asOf>>
vars == <<journal, collector, late, api, faults>>

NoEntry == 0
NoTime == -1
NoBatch == [id |-> 0]
BatchIds == {1, 2}
Entries == 1 .. Len(written)
Times == NoTime .. MaxTime
Codes == {"coverage_start", "retention_gap", "page_full", "source_error"}
Batches == [id : BatchIds, records : SUBSET (1 .. MaxEntries), next : 0 .. MaxEntries,
            codes : SUBSET Codes, at : 0 .. MaxTime]
Gaps == {g \in [kind : {"coverage_start", "cursor_lost", "retention_gap"}, from : Times, to : Times] :
            g.from < g.to}

(* Every variable has its type; a recorded gap is an interval that is not  *)
(* empty, and a batch in the spool ends where its cursor says              *)
(* (collect_page validates the spool file).                                *)
TypeOK ==
    /\ now \in 0 .. MaxTime
    /\ written \in Seq(0 .. MaxTime) /\ Len(written) <= MaxEntries
    /\ oldest \in 1 .. (Len(written) + 1)
    /\ cursor \in 0 .. Len(written)
    /\ pending \in Batches \cup {NoBatch} /\ late \in Batches \cup {NoBatch}
    /\ pending # NoBatch /\ pending.records # {} => pending.next = Max(pending.records)
    /\ phase \in {"idle", "run", "acked", "committed"}
    /\ phase \in {"acked", "committed"} => pending # NoBatch
    /\ batches \subseteq BatchIds
    /\ stored \subseteq Entries
    /\ lastEvent \in Times /\ coverage \in Times /\ asOf \in Times
    /\ gaps \subseteq Gaps
    /\ open \subseteq {"source_error", "catching_up"}
    /\ caughtUp \in BOOLEAN
    /\ faults \in 0 .. MaxFaults

Init ==
    /\ now = 0 /\ written = <<>> /\ oldest = 1
    /\ cursor = NoEntry /\ pending = NoBatch /\ phase = "idle"
    /\ late = NoBatch
    /\ batches = {} /\ stored = {} /\ lastEvent = NoTime /\ coverage = NoTime
    /\ gaps = {} /\ open = {} /\ caughtUp = FALSE /\ asOf = NoTime
    /\ faults = 0

-----------------------------------------------------------------------------
(* The source.                                                             *)
Tick ==
    /\ now < MaxTime
    /\ now' = now + 1
    /\ UNCHANGED <<written, oldest, collector, late, api, faults>>

Log ==
    /\ Len(written) < MaxEntries
    /\ written' = Append(written, now)
    /\ UNCHANGED <<now, oldest, collector, late, api, faults>>

(* The journal drops its oldest entry.                                     *)
Vacuum ==
    /\ oldest \in Entries
    /\ now - written[oldest] >= Retention
    /\ oldest' = oldest + 1
    /\ UNCHANGED <<now, written, collector, late, api, faults>>

(* cursor_exists: the entry itself must still be there.                    *)
ValidCursor == cursor # NoEntry /\ cursor >= oldest

(* journal_command: what follows a valid cursor, else the recent window.   *)
Readable(lag) ==
    {e \in oldest .. Len(written) :
        IF ValidCursor THEN e > cursor ELSE written[e] >= now - lag - Window}

(* Mutant of FirstOf: the newest records, as with journalctl -n.           *)
NewestOf(entries, n) == {e \in entries : Cardinality({f \in entries : f >= e}) <= n}

(* local_export returns the oldest n records.                              *)
FirstOf(entries, n) == {e \in entries : Cardinality({f \in entries : f <= e}) <= n}

-----------------------------------------------------------------------------
(* The collector.                                                          *)

(* page_full, or a page cut by size: n records of entries were taken.      *)
MoreWaiting(n, entries) == n = Page \/ n < Cardinality(entries)

Fresh == Min(BatchIds \ {late.id})
Spool(batch) ==
    /\ pending' = batch
    /\ batches' = batches \cap {late.id}

Fault == faults < MaxFaults /\ faults' = faults + 1

(* run_once under the lock.                                                *)
StartRun ==
    /\ phase = "idle"
    /\ phase' = "run"
    /\ UNCHANGED <<journal, cursor, pending, late, api, faults>>

(* build_pending: without a pending file, export, validate and spool.      *)
BuildPending ==
    /\ phase = "run" /\ pending = NoBatch
    /\ \E lag \in 0 .. ExportLag, n \in 0 .. Page :
         LET entries == Readable(lag)
             records == FirstOf(entries, n)
         IN /\ n <= Cardinality(entries) /\ (n = 0 => entries = {})
            /\ Spool([id |-> Fresh, records |-> records, at |-> now,
                      next |-> IF records # {} THEN Max(records)
                               ELSE IF ValidCursor THEN cursor ELSE NoEntry,
                      codes |-> (IF cursor = NoEntry THEN {"coverage_start"}
                                 ELSE IF ~ValidCursor THEN {"retention_gap"} ELSE {})
                                \cup (IF MoreWaiting(n, entries) THEN {"page_full"} ELSE {})])
    /\ UNCHANGED <<journal, cursor, phase, late, stored, lastEvent, coverage, gaps, open,
                   caughtUp, asOf, faults>>

(* build_pending when the export fails or is not valid: the failure is     *)
(* reported in a batch of its own, with the cursor left where it is.       *)
SourceError ==
    /\ phase = "run" /\ pending = NoBatch
    /\ Fault
    /\ Spool([id |-> Fresh, records |-> {}, at |-> now, next |-> cursor,
              codes |-> {"source_error"}])
    /\ UNCHANGED <<journal, cursor, phase, late, stored, lastEvent, coverage, gaps, open,
                   caughtUp, asOf>>

-----------------------------------------------------------------------------
(* The API.                                                                *)

(* RECOVERY_WINDOW_SECONDS.                                                *)
RecoveryWindow == Window

(* record_batch's reset: what lies between the last record and the window. *)
Reset(kind, at) ==
    IF lastEvent # NoTime /\ at - RecoveryWindow > lastEvent
    THEN {[kind |-> kind, from |-> lastEvent, to |-> at - RecoveryWindow]} ELSE {}

RecordTimes(batch) == {written[e] : e \in batch.records}

(* Where coverage starts when nothing has been stored before.              *)
CoverageStart(batch) == IF batch.records = {} THEN now ELSE Min(RecordTimes(batch))

NewGaps(batch) ==
    (IF "coverage_start" \notin batch.codes THEN {}
     ELSE IF lastEvent = NoTime
          THEN {[kind |-> "coverage_start", from |-> NoTime, to |-> CoverageStart(batch)]}
          ELSE Reset("cursor_lost", batch.at))
    \cup (IF "retention_gap" \in batch.codes THEN Reset("retention_gap", batch.at) ELSE {})

(* record_batch: the state of the collection after a new batch.            *)
RecordBatch(batch) ==
    LET failed == "source_error" \in batch.codes
        behind == "page_full" \in batch.codes
    IN /\ gaps' = gaps \cup NewGaps(batch)
       /\ coverage' = IF "coverage_start" \in batch.codes /\ lastEvent = NoTime /\ coverage = NoTime
                      THEN CoverageStart(batch) ELSE coverage
       /\ open' = (IF failed THEN {"source_error"} ELSE {})
                    \cup (IF behind \/ (failed /\ "catching_up" \in open)
                          THEN {"catching_up"} ELSE {})
       /\ caughtUp' = (~behind /\ ~failed)
       /\ asOf' = batch.at

(* ingest: a batch that has a receipt changes nothing; a new one adds the  *)
(* records that are new.                                                   *)
Ingest(batch) ==
    IF batch.id \in batches
    THEN UNCHANGED api
    ELSE /\ batches' = batches \cup {batch.id}
         /\ stored' = stored \cup batch.records
         /\ lastEvent' = Max({lastEvent} \cup RecordTimes(batch))
         /\ RecordBatch(batch)

(* Mutant of Acknowledges: a replayed batch is not confirmed as durable.   *)
AcknowledgesNew(batch) == batch.id \notin batches

(* The answer to a committed or replayed batch says durable.               *)
Acknowledges(batch) == TRUE

-----------------------------------------------------------------------------
(* post_batch and the rest of collect_page.                                *)

(* The batch is committed, and the answer arrives; without a durable       *)
(* acknowledgement the run ends (invalid_ack).                             *)
Send ==
    /\ phase = "run" /\ pending # NoBatch
    /\ Ingest(pending)
    /\ phase' = IF Acknowledges(pending) THEN "acked" ELSE "idle"
    /\ UNCHANGED <<journal, cursor, pending, late, faults>>

(* The request times out at the collector and stays on its way.            *)
SendTimesOut ==
    /\ phase = "run" /\ pending # NoBatch /\ late = NoBatch
    /\ Fault
    /\ late' = pending
    /\ phase' = "idle"
    /\ UNCHANGED <<journal, cursor, pending, api>>

(* It is committed after all, or never gets there.                         *)
LateRequest ==
    /\ late # NoBatch
    /\ late' = NoBatch
    /\ Ingest(late) \/ UNCHANGED api
    /\ UNCHANGED <<journal, collector, faults>>

(* The run ends early: the API is down or refuses, the spool is full, a    *)
(* file cannot be written, the process is killed.                          *)
Abort ==
    /\ phase # "idle"
    /\ Fault
    /\ phase' = "idle"
    /\ UNCHANGED <<journal, cursor, pending, late, api>>

(* The cursor is committed before the spool file is removed.               *)
CommitCursor ==
    /\ phase = "acked"
    /\ cursor' = pending.next
    /\ phase' = "committed"
    /\ UNCHANGED <<journal, pending, late, api, faults>>

(* collect_source goes on with the next page while more is waiting, unless *)
(* the limits of the run are reached.                                      *)
Unlink ==
    /\ phase = "committed"
    /\ pending' = NoBatch
    /\ phase' \in IF "page_full" \in pending.codes THEN {"run", "idle"} ELSE {"idle"}
    /\ UNCHANGED <<journal, cursor, late, api, faults>>

(* The state directory is lost, as after a reinstallation.                 *)
Wipe ==
    /\ phase = "idle"
    /\ Fault
    /\ cursor' = NoEntry /\ pending' = NoBatch
    /\ UNCHANGED <<journal, phase, late, api>>

Next ==
    \/ Tick \/ Log \/ Vacuum
    \/ StartRun \/ BuildPending \/ SourceError
    \/ Send \/ SendTimesOut \/ LateRequest \/ CommitCursor \/ Unlink
    \/ Abort \/ Wipe

Spec == Init /\ [][Next]_vars

(* A timer starts the collector again and again, and failures end.         *)
FairSpec ==
    /\ Spec
    /\ WF_vars(StartRun) /\ WF_vars(BuildPending) /\ WF_vars(Send)
    /\ WF_vars(CommitCursor) /\ WF_vars(Unlink)

-----------------------------------------------------------------------------
InGap(e) == \E g \in gaps : g.from <= written[e] /\ written[e] < g.to
Accounted(e) == e \in stored \/ InGap(e)

(* No entry is passed over in silence: what precedes a stored entry is     *)
(* stored too or lies in a recorded gap, however pages, lost answers, late *)
(* requests, crashes, dropped entries and lost cursors follow each other   *)
(* (collect_page's commit order, record_batch's reset).                    *)
NothingSkippedSilently ==
    \A e \in Entries : (\E f \in stored : e < f) => Accounted(e)

(* When the API shows the source as caught up, everything written before   *)
(* the last batch was collected is stored or lies in a recorded gap        *)
(* (record_batch's caught_up).                                             *)
CaughtUpMeansRead ==
    caughtUp => \A e \in Entries : written[e] < asOf => Accounted(e)

(* What the console may believe of a source (collect_page, record_batch):  *)
(* nothing before a stored entry is missing without a recorded gap, and a  *)
(* source shown as caught up was read to the time of its last batch.       *)
SshCollectionIsSound == NothingSkippedSilently /\ CaughtUpMeansRead

(* Every entry of the journal is stored or recorded as missing.            *)
EntriesAccountedFor == \A e \in Entries : Accounted(e)

(* What the console says of a source whose collection shows no gap since   *)
(* its coverage started: "complete" (dashboard.py, summary's               *)
(* gaps_since_coverage, which leaves coverage_start out).                  *)
CompleteSinceCoverage ==
    (coverage # NoTime /\ \A g \in gaps : g.kind = "coverage_start") =>
        \A e \in Entries : (written[e] >= coverage /\ \E f \in stored : e < f) => e \in stored

=============================================================================

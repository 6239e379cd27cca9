-------------------------- MODULE NetworkAnalysis ---------------------------
(***************************************************************************)
(* Network detection: the durable correlator that turns receipts into cases *)
(* (src/backend/app/telemetry/network_incidents.py and network_detection.py)*)
(* and the worker that runs it and hands its notices to the console         *)
(* (network_worker.py).  Two service processes may run it on one store; the *)
(* console is another database, so a notice crosses in two transactions.    *)
(*                                                                          *)
(* One source, boot, profile and pair of addresses: the correlator treats   *)
(* the keys independently.  Time is the journal's monotonic clock.          *)
(***************************************************************************)
EXTENDS NetworkStore

CONSTANTS
  Time,         \* record -> monotonic time
  Port,         \* record -> destination port
  Backlog,      \* records too old to be announced when they are analysed
  Hour, Window, \* HOUR_US and WINDOW_US
  MinPorts,     \* MIN_DISTINCT_PORTS
  MaxContext,   \* MAX_CONTEXT_RECORDS
  IntakeLimit,  \* intake_limit of process
  Workers,      \* service processes
  MaxCrashes,   \* worker crashes of a behaviour
  MaxTime       \* MAX_TIME_US

ASSUME NetworkAnalysisAssumption ==
  /\ Time \in [Records -> 0..MaxTime] /\ Port \in [Records -> Nat]
  /\ MaxTime \in Nat /\ Hour \in Nat \ {0} /\ Window \in Nat /\ Window < Hour
  /\ MinPorts \in Nat \ {0}
  /\ IntakeLimit \in Nat \ {0} /\ MaxCrashes \in Nat /\ Backlog \subseteq Records

Hours == {h \in 0..MaxTime : h % Hour = 0}
Codes == {"rejected_records", "raw_history_expired_before_analysis",
          "collection_backlog_observed"} \cup Reports

VARIABLES
  cursor, batchCursor,  \* receipts and batches taken in
  targets,              \* intake_targets: the barrier of the current cycle
  context,              \* network_context
  losses,               \* network_analysis_losses
  windows,              \* hour -> "none", "clean" or "dirty"
  cases,                \* hour -> the current revision of its case; revision 0 is none
  outbox,               \* hour -> network_notice_outbox
  console,              \* hour -> the revision the console imported, and its notice
  coverage,             \* network_analysis_sources: the source's codes
  worker,               \* process -> [at, rows]
  crashes

anaVars == <<storeVars, cursor, batchCursor, targets, context, losses, windows, cases,
             outbox, console, coverage, worker, crashes>>

NoCase == [revision |-> 0, active |-> FALSE, stale |-> FALSE, evidence |-> {}]
NoRow == [hour |-> 0, revision |-> 0, notify |-> FALSE]
Idle == [at |-> "idle", rows |-> {}, row |-> NoRow]

AnaInit ==
  /\ StoreInit
  /\ cursor = 0 /\ batchCursor = 0 /\ targets = <<0, 0>>
  /\ context = {} /\ losses = {} /\ coverage = {}
  /\ windows = [h \in Hours |-> "none"]
  /\ cases = [h \in Hours |-> NoCase]
  /\ outbox = [h \in Hours |-> [revision |-> 0, notify |-> FALSE, pending |-> FALSE]]
  /\ console = [h \in Hours |-> [revision |-> 0, notice |-> "none"]]
  /\ worker = [w \in Workers |-> Idle] /\ crashes = 0

-----------------------------------------------------------------------------
(* The rule: network_detection. *)

\* sorted by monotonic time, then event_id
Before(r, s) == Time[r] < Time[s] \/ (Time[r] = Time[s] /\ r < s)

\* _scan: the widest window that ends in a row, the rows whose window has enough distinct
\* ports, and those of them whose window does not reach back to the one before: there a
\* finding begins.
SpanTo(rows, r) == {s \in rows : ~Before(r, s) /\ Time[r] - Time[s] =< Window}
Hits(rows) == {r \in rows : Cardinality({Port[s] : s \in SpanTo(rows, r)}) >= MinPorts}
Opens(rows) == {r \in Hits(rows) : SpanTo(rows, r) \cap Hits(rows) = {r}}

\* The windows that are joined to the one a finding begins with, up to the next such.
Joined(rows, o) ==
  {e \in Hits(rows) : ~Before(e, o) /\ ~\E p \in Opens(rows) : Before(o, p) /\ ~Before(e, p)}

\* detect_network: the evidence of each finding
FindingFrom(rows, o) == UNION {SpanTo(rows, e) : e \in Joined(rows, o)}
Findings(rows) == {FindingFrom(rows, o) : o \in Opens(rows)}

-----------------------------------------------------------------------------
(* The correlator: network_incidents. *)

\* _buckets: an event also belongs to a neighbouring hour it is within a window of.
Buckets(t) ==
  LET hour == (t \div Hour) * Hour
  IN {hour} \cup (IF t - hour =< Window /\ hour > 0 THEN {hour - Hour} ELSE {})
            \cup (IF t - hour >= Hour - Window /\ hour + Hour =< MaxTime THEN {hour + Hour} ELSE {})

\* _dirty creates a window, _loss only marks the ones there are.
Mark(made, found) ==
  [h \in Hours |->
     IF \/ \E r \in made : h \in Buckets(Time[r])
        \/ windows[h] # "none" /\ \E r \in found : h \in Buckets(Time[r])
     THEN "dirty" ELSE windows[h]]

AnyDirty == \E h \in Hours : windows[h] = "dirty"
Reached(t) == cursor >= t[1] /\ batchCursor >= t[2]

BatchCodes(b) ==
  b.reports \cup (IF b.caughtUp THEN {} ELSE {"collection_backlog_observed"})
    \cup (IF \E i \in DOMAIN b.entries : Kind(b.entries[i]) = "rejection"
          THEN {"rejected_records"} ELSE {})

\* intake: a new barrier is set when the last one was reached and its windows are done.
Goal == IF Reached(targets) /\ ~AnyDirty THEN <<Len(receipts), Len(netBatches)>> ELSE targets
Advance(from, to) == IF from + IntakeLimit < to THEN from + IntakeLimit ELSE to

\* intake: the receipts and batches from the cursors up to r and b, then _prune_context.
TakeIn(r, b) ==
  LET taken == {receipts[i] : i \in (cursor + 1)..r}
      accepted == {e \in taken : Kind(e) = "event"}
      missing == accepted \ events
      pruned == context \cap expired
  IN /\ cursor' = r
     /\ batchCursor' = b
     /\ context' = (context \cup (accepted \cap events)) \ pruned
     /\ losses' = losses \cup missing \cup pruned
     /\ windows' = Mark(accepted \cap events, missing \cup pruned)
     /\ coverage' = coverage
          \cup (IF taken # accepted THEN {"rejected_records"} ELSE {})
          \cup (IF missing # {} THEN {"raw_history_expired_before_analysis"} ELSE {})
          \cup UNION {BatchCodes(netBatches[i]) : i \in (batchCursor + 1)..b}

\* The first transaction of process.
Intake(w) ==
  /\ worker[w].at = "idle"
  /\ targets' = Goal
  /\ TakeIn(Advance(cursor, Goal[1]), Advance(batchCursor, Goal[2]))
  /\ worker' = [worker EXCEPT ![w].at =
       IF cursor' >= targets'[1] /\ batchCursor' >= targets'[2] THEN "first" ELSE "publish"]
  /\ UNCHANGED <<storeVars, cases, outbox, console, crashes>>

\* analyze_window: what the window's hour and its margins hold, or "unavailable".
InRange(rows, h) == {r \in rows : h - Window =< Time[r] /\ Time[r] =< h + Hour + Window}
Unavailable(h) == InRange(losses, h) # {} \/ Cardinality(InRange(context, h)) > MaxContext

\* _save_case keeps the findings that touch the hour itself.  (A constant, so that TLC
\* runs the rule once for each set of rows.)
Rulings ==
  {[rows |-> rows, hour |-> h,
    evidence |-> UNION {f \in Findings(rows) : \E r \in f : h =< Time[r] /\ Time[r] < h + Hour}]
     : rows \in SUBSET Records, h \in Hours}
Selected(h) ==
  (CHOOSE e \in Rulings : e.rows = InRange(context, h) /\ e.hour = h).evidence

(* Mutant of NextCase: an unavailable window is judged by what is left of it. *)
NextCaseOfRest(h) ==
  LET old == cases[h]
      selected == Selected(h)
      new == [old EXCEPT !.stale = Unavailable(h) /\ old # NoCase,
                         !.evidence = selected, !.active = selected # {}]
  IN IF new = old THEN old ELSE [new EXCEPT !.revision = old.revision + 1]
\* _save_case: an unavailable window keeps the case it had and marks it stale; a case
\* that did not change gets no revision.
NextCase(h) ==
  LET old == cases[h]
      selected == Selected(h)
      new == IF Unavailable(h) THEN [old EXCEPT !.stale = old # NoCase]
             ELSE [old EXCEPT !.stale = FALSE, !.evidence = selected, !.active = selected # {}]
  IN IF new = old THEN old ELSE [new EXCEPT !.revision = old.revision + 1]

\* _save_case: stale cases and old backlogs are not announced.
LastRow(rows) == CHOOSE r \in rows : \A s \in rows : ~Before(r, s)
Announced(c) == c.active /\ ~c.stale /\ LastRow(c.evidence) \notin Backlog

\* One window transaction of process.  It looks at the barrier again: another
\* process may have started a new cycle.
AnalyzeWindow(w) ==
  /\ worker[w].at \in {"first", "windows"}
  /\ Reached(targets)
  /\ \E h \in Hours :
       /\ windows[h] = "dirty"
       /\ windows' = [windows EXCEPT ![h] = "clean"]
       /\ LET new == NextCase(h)
          IN /\ cases' = [cases EXCEPT ![h] = new]
             /\ outbox' = IF new = cases[h] THEN outbox
                          ELSE [outbox EXCEPT ![h] = [revision |-> new.revision,
                                                      notify |-> Announced(new), pending |-> TRUE]]
  /\ worker' = [worker EXCEPT ![w].at = "windows"]
  /\ UNCHANGED <<storeVars, cursor, batchCursor, targets, context, losses, console,
                 coverage, crashes>>

\* The window loop ends, before its first window only because nothing is dirty or a
\* cycle started meanwhile.  publish then reads the pending notices.
PublishRead(w) ==
  /\ \/ worker[w].at \in {"windows", "publish"}
     \/ worker[w].at = "first" /\ (~Reached(targets) \/ ~AnyDirty)
  /\ worker' = [worker EXCEPT ![w] =
       [at |-> "import", row |-> NoRow,
        rows |-> {[hour |-> h, revision |-> outbox[h].revision, notify |-> outbox[h].notify]
                    : h \in {h \in Hours : outbox[h].pending}}]]
  /\ UNCHANGED <<storeVars, cursor, batchCursor, targets, context, losses, windows, cases,
                 outbox, console, coverage, crashes>>

\* publish: the console's transaction, guarded by the revision it last imported.
PublishImport(w) ==
  /\ worker[w].at = "import"
  /\ \E row \in worker[w].rows :
       /\ console' = IF row.revision > console[row.hour].revision
                     THEN [console EXCEPT ![row.hour] =
                             [revision |-> row.revision,
                              notice |-> IF row.notify THEN "queued"
                                         ELSE IF @.notice = "none" THEN "none" ELSE "cancelled"]]
                     ELSE console
       /\ worker' = [worker EXCEPT ![w] = [at |-> "acknowledge", rows |-> @.rows \ {row}, row |-> row]]
  /\ UNCHANGED <<storeVars, cursor, batchCursor, targets, context, losses, windows, cases,
                 outbox, coverage, crashes>>

\* publish: the store's transaction, which only acknowledges the revision it read.
PublishAck(w) ==
  /\ worker[w].at = "acknowledge"
  /\ LET row == worker[w].row
     IN outbox' = IF outbox[row.hour].revision = row.revision
                  THEN [outbox EXCEPT ![row.hour].pending = FALSE] ELSE outbox
  /\ worker' = [worker EXCEPT ![w] = [@ EXCEPT !.at = "import", !.row = NoRow]]
  /\ UNCHANGED <<storeVars, cursor, batchCursor, targets, context, losses, windows, cases,
                 console, coverage, crashes>>

\* The tick is over.
TickDone(w) ==
  /\ worker[w].at = "import" /\ worker[w].rows = {}
  /\ worker' = [worker EXCEPT ![w] = Idle]
  /\ UNCHANGED <<storeVars, cursor, batchCursor, targets, context, losses, windows, cases,
                 outbox, console, coverage, crashes>>

\* A process dies, or an exception ends its tick: transactions roll back.
CrashWorker(w) ==
  /\ worker[w].at # "idle" /\ crashes < MaxCrashes
  /\ crashes' = crashes + 1
  /\ worker' = [worker EXCEPT ![w] = Idle]
  /\ UNCHANGED <<storeVars, cursor, batchCursor, targets, context, losses, windows, cases,
                 outbox, console, coverage>>

\* The collector's next page is committed: one record, or all that are left.
Arrive ==
  /\ \E n \in {1, MaxRecords - Checkpoint} :
       /\ n > 0 /\ Checkpoint + n =< MaxRecords
       /\ Commit([id |-> Len(netBatches) + 1, before |-> Checkpoint, after |-> Checkpoint + n,
                  entries |-> [i \in 1..n |-> Checkpoint + i],
                  reports |-> IF Checkpoint + n < MaxRecords THEN {"catching_up"} ELSE {},
                  caughtUp |-> Checkpoint + n = MaxRecords, seen |-> 0])
  /\ UNCHANGED <<cursor, batchCursor, targets, context, losses, windows, cases, outbox,
                 console, coverage, worker, crashes>>

\* retention_days pass.
Retention ==
  /\ Expire
  /\ UNCHANGED <<cursor, batchCursor, targets, context, losses, windows, cases, outbox,
                 console, coverage, worker, crashes>>

Tick(w) == Intake(w) \/ AnalyzeWindow(w) \/ PublishRead(w) \/ PublishImport(w) \/ PublishAck(w) \/ TickDone(w)

AnaNext == Arrive \/ Retention \/ \E w \in Workers : Tick(w) \/ CrashWorker(w)

\* _run ticks for ever, whatever its last tick raised.
AnaFairness == \A w \in Workers : WF_anaVars(Tick(w))

AnaSpec == AnaInit /\ [][AnaNext]_anaVars /\ AnaFairness

-----------------------------------------------------------------------------
Accepted == {r \in ToSet(receipts) : Kind(r) = "event"}

\* The definition of a probe: events within one window with enough distinct ports.
IsProbe(S) ==
  /\ Cardinality({Port[r] : r \in S}) >= MinPorts
  /\ \A r, s \in S : Time[r] - Time[s] =< Window

Quiet == cursor = Len(receipts) /\ Reached(targets) /\ ~AnyDirty

\* What the hour buckets and the sliding scan must add up to (_buckets,
\* analyze_window, _scan): once everything received is analysed, every probe in
\* the accepted events is evidence of an active case of each hour it touches,
\* also when it straddles two hours or arrived out of order, unless that hour
\* lost context or holds too much of it.
NoProbeMissed ==
  Quiet => \A S \in SUBSET Accepted : IsProbe(S) =>
    \A r \in S :
      LET h == (Time[r] \div Hour) * Hour
      IN Unavailable(h) \/ (cases[h].active /\ S \subseteq cases[h].evidence)

\* ... and nothing else is: evidence of a case is part of some probe, among events
\* that were really accepted.
OnlyProbesAreEvidence ==
  \A h \in Hours : \A r \in cases[h].evidence :
    \E S \in SUBSET Accepted : r \in S /\ IsProbe(S)

\* "Partial snapshot intake must not momentarily clear or lower a known case"
\* (process): a case never loses evidence, whatever part of the input was taken in
\* when its window was analysed and whatever expired since; expired context makes
\* it stale instead.
KnownCaseNeverCleared ==
  [][\A h \in Hours : cases[h].evidence \subseteq cases'[h].evidence
                      /\ (cases[h].active => cases'[h].active)]_anaVars

\* The two transactions of publish (network_worker): a notice that is no longer
\* pending is in the console at the revision of the case, with what that revision
\* says, whichever process delivered it and however old the row it had read.
NoticeMatchesCase ==
  \A h \in Hours :
    /\ console[h].revision =< outbox[h].revision
    /\ ~outbox[h].pending =>
         /\ console[h].revision = cases[h].revision
         /\ console[h].notice = "queued" <=> outbox[h].notify

\* The cases rest on the records, and the console on the cases (process, publish): no
\* probe is missed, none is made up, a known case is never cleared and what was
\* announced is what the case says.
NetworkCasesAreTrue ==
  /\ []NoProbeMissed /\ []OnlyProbesAreEvidence /\ []NoticeMatchesCase
  /\ KnownCaseNeverCleared

\* Everything received is analysed and announced.
AnalysisDone == Quiet /\ \A h \in Hours : ~outbox[h].pending
=============================================================================

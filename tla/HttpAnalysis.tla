---------------------------- MODULE HttpAnalysis ----------------------------
(***************************************************************************)
(* HTTP detection: the worker that takes committed access records into its   *)
(* context, analyses the hours they touch and keeps every revision of a case *)
(* with its evidence (src/backend/app/telemetry/http_incidents.py and        *)
(* web_detection.py).  Records arrive late and out of order, expire from the *)
(* raw table before the worker saw them and from its context afterwards.     *)
(*                                                                           *)
(* One stream and one peer: the correlator treats the keys independently.    *)
(***************************************************************************)
EXTENDS Integers, Sequences, FiniteSets, SequencesExt, FiniteSetsExt

CONSTANTS
  HttpTime,       \* record -> event_ts
  HttpPath,       \* record -> decoded path
  HttpDenied,     \* records answered 403 or 404
  Matches,        \* point rule -> the records that match it
  Points,         \* rule -> points
  HttpHour, HttpWindow,          \* 3600 and WINDOW_SECONDS
  MinRecords, MinPaths,          \* SCAN_MIN_RECORDS and SCAN_MIN_PATHS
  DeniedPercent,                 \* SCAN_DENIED_PERCENT
  Surface,                       \* the score from which a case is surfaced
  MaxHttpContext,                \* MAX_CONTEXT_RECORDS
  HttpIntake, WindowLimit,       \* intake_limit and window_limit of process
  HttpRetention,                 \* retention_days, in units of time
  LastTime                       \* the clock stops there

HttpRecords == DOMAIN HttpTime
HttpHours == {h \in -HttpHour..(LastTime + HttpHour) : h % HttpHour = 0}

ASSUME HttpAnalysisAssumption ==
  /\ HttpTime \in [HttpRecords -> 0..LastTime] /\ HttpRecords \subseteq Nat
  /\ HttpDenied \subseteq HttpRecords
  /\ HttpHour \in Nat \ {0} /\ HttpWindow \in Nat /\ HttpWindow < HttpHour
  /\ HttpIntake \in Nat \ {0} /\ WindowLimit \in Nat
  /\ LastTime \in Nat /\ HttpRetention \in Nat

VARIABLES
  clock,
  httpReceived, \* http_events in the order of seq: every record ever inserted
  httpRaw,      \* the records that are still in http_events
  httpTaken,    \* http_analysis_meta cursor
  httpMissing,  \* missing_raw_records
  analysed,     \* history: records that were ever taken into the context
  httpContext,  \* http_context
  hours,        \* http_windows: hour -> [dirty, coverage]
  httpCases,    \* http_incidents: hour -> current revision
  history,      \* http_incident_revisions: hour -> sequence of cases
  membership,   \* http_evidence_membership: hour -> [event, from, to]
  notice,       \* http_notice_outbox: hour -> [revision, cancelled]
  tick          \* the worker: [at, now, left]

analysisVars == <<clock, httpReceived, httpRaw, httpTaken, httpMissing, analysed, httpContext,
                  hours, httpCases, history, membership, notice, tick>>

NoHttpCase == [revision |-> 0, active |-> FALSE, stale |-> FALSE, rules |-> {}, evidence |-> {}]
Sleeping == [at |-> "idle", now |-> 0, left |-> 0]

AnalysisInit ==
  /\ clock = 0 /\ httpReceived = <<>> /\ httpRaw = {} /\ httpTaken = 0
  /\ httpMissing = 0 /\ analysed = {}
  /\ httpContext = {} /\ hours = [h \in HttpHours |-> [dirty |-> FALSE, coverage |-> "none"]]
  /\ httpCases = [h \in HttpHours |-> NoHttpCase] /\ history = [h \in HttpHours |-> <<>>]
  /\ membership = [h \in HttpHours |-> {}]
  /\ notice = [h \in HttpHours |-> [revision |-> 0, cancelled |-> TRUE]]
  /\ tick = Sleeping

-----------------------------------------------------------------------------
(* web_detection. *)

\* unique_events: sorted by time
Sorted(rows) ==
  LET before(r, s) == HttpTime[r] < HttpTime[s] \/ (HttpTime[r] = HttpTime[s] /\ r < s)
  IN [i \in 1..Cardinality(rows) |->
        CHOOSE r \in rows : Cardinality({s \in rows : before(s, r)}) = i - 1]

\* _point_findings: matches no further apart than the window form one finding.
PointFindings(s, rule) ==
  LET join(parts, r) ==
        IF parts # <<>> /\ HttpTime[r] - HttpTime[Last(Last(parts))] =< HttpWindow
        THEN Append(Front(parts), Append(Last(parts), r)) ELSE Append(parts, <<r>>)
  IN {[rule |-> rule, evidence |-> ToSet(g)] :
        g \in ToSet(FoldLeft(join, <<>>, SelectSeq(s, LAMBDA r : r \in Matches[rule])))}

\* _scan_findings: one sliding window, its qualifying positions joined when they overlap.
ScanFindings(s) ==
  LET left(i) == Min({k \in 1..i : HttpTime[s[i]] - HttpTime[s[k]] =< HttpWindow})
      rows(i) == {s[k] : k \in left(i)..i}
      qualifies(i) ==
        /\ Cardinality(rows(i)) >= MinRecords
        /\ Cardinality({HttpPath[r] : r \in rows(i)}) >= MinPaths
        /\ Cardinality(rows(i) \cap HttpDenied) * 100 >= DeniedPercent * Cardinality(rows(i))
      step(hits, i) ==
        IF ~qualifies(i) THEN hits
        ELSE IF hits # <<>> /\ left(i) =< Last(hits)[2]
             THEN Append(Front(hits), <<Last(hits)[1], i>>) ELSE Append(hits, <<left(i), i>>)
  IN {[rule |-> "scan", evidence |-> {s[k] : k \in f[1]..f[2]}] :
        f \in ToSet(FoldLeft(step, <<>>, [i \in 1..Len(s) |-> i]))}

\* detect_web
DetectWeb(rows) ==
  ScanFindings(Sorted(rows)) \cup UNION {PointFindings(Sorted(rows), rule) : rule \in DOMAIN Matches}

\* _save_case keeps the findings that touch the hour itself.
InHour(r, h) == h =< HttpTime[r] /\ HttpTime[r] < h + HttpHour
Judged(rows, h) ==
  LET hits == {f \in DetectWeb(rows) : \E r \in f.evidence : InHour(r, h)}
  IN [rows |-> rows, hour |-> h, rules |-> {f.rule : f \in hits},
      evidence |-> UNION {f.evidence : f \in hits}]

\* (A constant, so that the rules run once for each set of records.)
Verdicts == {Judged(rows, h) : rows \in SUBSET HttpRecords, h \in HttpHours}
Verdict(rows, h) == CHOOSE v \in Verdicts : v.rows = rows /\ v.hour = h

\* assessment
AssessedScore(rules) == MapThenSumSet(LAMBDA r : Points[r], rules)

-----------------------------------------------------------------------------
(* The clock and HttpStore.ingest. *)

Elapse ==
  /\ clock < LastTime
  /\ clock' = clock + 1
  /\ UNCHANGED <<httpReceived, httpRaw, httpTaken, httpMissing, analysed, httpContext, hours,
                 httpCases, history, membership, notice, tick>>

\* A new batch also deletes what has expired, be it analysed or not.
Insert(r) ==
  /\ r \notin ToSet(httpReceived) /\ HttpTime[r] =< clock
  /\ httpReceived' = Append(httpReceived, r)
  /\ httpRaw' = {s \in httpRaw \cup {r} : HttpTime[s] >= clock - HttpRetention}
  /\ UNCHANGED <<clock, httpTaken, httpMissing, analysed, httpContext, hours, httpCases, history,
                 membership, notice, tick>>

-----------------------------------------------------------------------------
(* The worker: process. *)

\* intake: an event also touches a neighbouring hour it is within a window of.
HoursOf(r) ==
  LET t == HttpTime[r]
      start == (t \div HttpHour) * HttpHour
  IN {start} \cup (IF t - start =< HttpWindow THEN {start - HttpHour} ELSE {})
            \cup (IF t - start >= HttpHour - HttpWindow THEN {start + HttpHour} ELSE {})

\* intake: the next rows that are left, and the gaps between them.
Upcoming == {i \in (httpTaken + 1)..Len(httpReceived) : httpReceived[i] \in httpRaw}
Page == {i \in Upcoming : Cardinality({j \in Upcoming : j < i}) < HttpIntake}
Reaches == IF Page = {} THEN httpTaken ELSE Max(Page)
CaughtUp == Cardinality(Page) < HttpIntake \/ Reaches >= Len(httpReceived)

(* Mutant of Gaps: what expired before it was read is passed over. *)
GapsIgnored(end) == 0
\* The records up to end that are gone.
Gaps(end) == (end - httpTaken) - Cardinality(Page)

HttpTakeIn ==
  /\ tick.at = "idle"
  /\ LET end == IF CaughtUp THEN Len(httpReceived) ELSE Reaches
         rows == {httpReceived[i] : i \in Page}
     IN /\ httpTaken' = end
        /\ httpMissing' = httpMissing + Gaps(end)
        /\ httpContext' = httpContext \cup rows
        /\ analysed' = analysed \cup rows
        /\ hours' = [h \in HttpHours |-> IF \E r \in rows : h \in HoursOf(r)
                                         THEN [hours[h] EXCEPT !.dirty = TRUE] ELSE hours[h]]
  /\ tick' = [at |-> IF CaughtUp THEN "windows" ELSE "prune", now |-> clock, left |-> WindowLimit]
  /\ UNCHANGED <<clock, httpReceived, httpRaw, httpCases, history, membership, notice>>

\* analyze_window
ContextOf(h) == {r \in httpContext : h - HttpWindow =< HttpTime[r]
                                     /\ HttpTime[r] =< h + HttpHour + HttpWindow}
Coverage(h) == IF h - HttpWindow < tick.now - HttpRetention THEN "expired_context"
               ELSE IF Cardinality(ContextOf(h)) > MaxHttpContext THEN "context_limit" ELSE "complete"

\* _save_case: what is not complete keeps the last result and marks it stale.
Recast(h) ==
  LET old == httpCases[h]
      v == Verdict(ContextOf(h), h)
      new == IF Coverage(h) # "complete" THEN [old EXCEPT !.stale = old.revision # 0]
             ELSE [old EXCEPT !.stale = FALSE, !.active = v.evidence # {}, !.rules = v.rules,
                              !.evidence = v.evidence]
  IN IF new = old THEN old ELSE [new EXCEPT !.revision = old.revision + 1]

\* _save_case: intervals of revisions for each record.
Membership(h, new) ==
  {IF m.to = 0 /\ m.event \notin new.evidence THEN [m EXCEPT !.to = new.revision - 1] ELSE m
     : m \in membership[h]}
  \cup {[event |-> e, from |-> new.revision, to |-> 0] :
          e \in {e \in new.evidence : ~\E m \in membership[h] : m.event = e /\ m.to = 0}}

Notified(h, c) ==
  /\ c.active /\ ~c.stale
  /\ AssessedScore(c.rules) >= Surface
  /\ h + HttpHour >= tick.now - 24 * HttpHour

AnalyseHour ==
  /\ tick.at = "windows" /\ tick.left > 0
  /\ \E h \in HttpHours :
       /\ hours[h].dirty
       /\ hours' = [hours EXCEPT ![h] = [dirty |-> FALSE, coverage |-> Coverage(h)]]
       /\ \E new \in {Recast(h)} :
            IF new = httpCases[h] THEN UNCHANGED <<httpCases, history, membership, notice>>
            ELSE /\ httpCases' = [httpCases EXCEPT ![h] = new]
                 /\ history' = [history EXCEPT ![h] = Append(@, new)]
                 /\ membership' = IF Coverage(h) # "complete" THEN membership
                                  ELSE [membership EXCEPT ![h] = Membership(h, new)]
                 /\ notice' = [notice EXCEPT ![h] = [revision |-> new.revision,
                                                     cancelled |-> ~Notified(h, new)]]
  /\ tick' = [tick EXCEPT !.left = @ - 1]
  /\ UNCHANGED <<clock, httpReceived, httpRaw, httpTaken, httpMissing, analysed, httpContext>>

\* The end of process: the context expires too.
PruneContext ==
  /\ \/ tick.at = "prune"
     \/ tick.at = "windows" /\ (tick.left = 0 \/ \A h \in HttpHours : ~hours[h].dirty)
  /\ httpContext' = {r \in httpContext : HttpTime[r] >= tick.now - HttpRetention}
  /\ tick' = Sleeping
  /\ UNCHANGED <<clock, httpReceived, httpRaw, httpTaken, httpMissing, analysed, hours,
                 httpCases, history, membership, notice>>

\* An error or a restart between two transactions ends the tick.
TickFails ==
  /\ tick.at # "idle"
  /\ tick' = Sleeping
  /\ UNCHANGED <<clock, httpReceived, httpRaw, httpTaken, httpMissing, analysed, httpContext, hours,
                 httpCases, history, membership, notice>>

WorkerStep == HttpTakeIn \/ AnalyseHour \/ PruneContext
AnalysisNext == Elapse \/ (\E r \in HttpRecords : Insert(r)) \/ WorkerStep \/ TickFails
AnalysisSpec == AnalysisInit /\ [][AnalysisNext]_analysisVars

-----------------------------------------------------------------------------
\* Every record that was ever received is analysed, counted as missing, or still ahead
\* (intake): the count the console shows hides nothing and counts nothing twice.
NothingUncounted ==
  httpMissing + Cardinality(analysed) = httpTaken

\* The intervals of http_evidence_membership give back the evidence of every revision,
\* stale ones and retracted ones included, whatever came and went in between.
RevisionsReproduce ==
  \A h \in HttpHours : \A k \in DOMAIN history[h] :
    {m.event : m \in {m \in membership[h] : m.from =< k /\ (m.to = 0 \/ m.to >= k)}}
      = history[h][k].evidence

\* A case that is not stale and whose hour is settled rests on all the records that were
\* ever analysed around it: coverage is "complete" only where no context is gone, and
\* overlaps the neighbouring hours enough for no pattern to be cut in two.
CompleteCasesAreRight ==
  \A h \in HttpHours :
    hours[h].coverage = "complete" /\ ~hours[h].dirty /\ ~httpCases[h].stale =>
      LET around == {r \in analysed : h - HttpWindow =< HttpTime[r]
                                      /\ HttpTime[r] =< h + HttpHour + HttpWindow}
      IN httpCases[h].evidence = UNION {f.evidence : f \in {f \in DetectWeb(around) :
                                                             \E s \in f.evidence : InHour(s, h)}}

\* An expired or overfull context never clears a case (_save_case): between two of its
\* revisions an active case is retracted, or loses evidence, only by a complete analysis.
StaleNeverClears ==
  \A h \in HttpHours : \A k \in 2..Len(history[h]) :
    LET old == history[h][k - 1]
        new == history[h][k]
    IN new.stale => old.active = new.active /\ old.evidence = new.evidence

\* The HTTP cases rest on the records (process, _save_case): none is uncounted, every
\* revision can be given back, a complete case is right and a stale one is not cleared.
HttpCasesAreTrue ==
  NothingUncounted /\ RevisionsReproduce /\ CompleteCasesAreRight /\ StaleNeverClears
=============================================================================

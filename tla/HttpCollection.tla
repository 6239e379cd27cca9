--------------------------- MODULE HttpCollection ---------------------------
(***************************************************************************)
(* HTTP collection: the access log of one service and its rotation, the     *)
(* collector that reads it (src/scripts/http_collector.py) and the store     *)
(* that receives its batches (src/backend/app/telemetry/http_store.py).      *)
(*                                                                           *)
(* A line is its place in the log; an offset counts lines.  A line that      *)
(* normalize_http refuses leaves a receipt too, so the two kinds are one     *)
(* here.  A file is [ino, lines].  The log is rotated by rename and reopen,  *)
(* one rename at a time and none inside a read, which is what                *)
(* docs/http-ingestion.md asks of a source.  post_batch may give up on a     *)
(* request the server still handles.                                         *)
(***************************************************************************)
EXTENDS Naturals, Sequences, FiniteSets, SequencesExt, FiniteSetsExt

CONSTANTS
  MaxLines,      \* lines the service may log
  MaxRotations,  \* renames of the log
  PageSize,      \* MAX_RECORDS
  MaxHttpFaults  \* crashes, lost answers and truncations of a behaviour

ASSUME HttpCollectionAssumption ==
  /\ MaxLines \in Nat /\ MaxRotations \in Nat /\ MaxHttpFaults \in Nat
  /\ PageSize \in Nat \ {0}

VARIABLES
  logTop,       \* lines written so far
  logCurrent,   \* the file at path, or NoFile between rename and reopen
  logRotated,   \* the file at rotated_path, or NoFile
  logQuiet,     \* rotated_path was not written to for rotation_quiet_seconds
  logInodes,    \* inodes handed out
  httpGens,     \* generations drawn by uuid4
  httpCursor,   \* *.state.json: [ino, gen, offset, anchor], or NoCursor
  httpSpool,    \* *.pending.json: [base, next, records, reports, caughtUp, ...], or NoSpool
  httpAt,       \* where collect_page is
  httpPosted,   \* batches the server may still handle
  httpRows,     \* http_receipts: [gen, offset, line], of events and rejections
  httpDeclared, \* lines before a gap that a stored batch reports
  httpSeen,     \* lines there were when the last stored caught-up page was read
  httpFaults

logVars == <<logTop, logCurrent, logRotated, logQuiet, logInodes>>
collectorVars == <<httpGens, httpCursor, httpSpool, httpAt>>
httpStoreVars == <<httpRows, httpDeclared, httpSeen>>
httpVars == <<logVars, collectorVars, httpPosted, httpStoreVars, httpFaults>>

NoFile == [ino |-> 0, lines |-> <<>>]
NoCursor == [ino |-> 0, gen |-> 0, offset |-> 0, anchor |-> 0]
NoSpool == [base |-> NoCursor, next |-> NoCursor, records |-> <<>>, reports |-> {},
            caughtUp |-> FALSE, from |-> 0, seen |-> 0]

HttpInit ==
  /\ logTop = 0 /\ logCurrent = [ino |-> 1, lines |-> <<>>] /\ logRotated = NoFile
  /\ logQuiet = FALSE /\ logInodes = 1
  /\ httpGens = 0 /\ httpCursor = NoCursor /\ httpSpool = NoSpool /\ httpAt = "idle"
  /\ httpPosted = {} /\ httpRows = {} /\ httpDeclared = {} /\ httpSeen = 0
  /\ httpFaults = 0

HttpFault == httpFaults < MaxHttpFaults /\ httpFaults' = httpFaults + 1

-----------------------------------------------------------------------------
(* The service and logrotate (not part of the repository). *)

\* The service writes a line to the file it has open, which is the renamed one until
\* it reopens its log.
WriteLine ==
  /\ logTop < MaxLines
  /\ logTop' = logTop + 1
  /\ IF logCurrent = NoFile
     THEN logRotated' = [logRotated EXCEPT !.lines = Append(@, logTop + 1)] /\ UNCHANGED logCurrent
     ELSE logCurrent' = [logCurrent EXCEPT !.lines = Append(@, logTop + 1)] /\ UNCHANGED logRotated
  /\ UNCHANGED <<logQuiet, logInodes, collectorVars, httpPosted, httpStoreVars, httpFaults>>

RotateLog ==
  /\ logInodes =< MaxRotations /\ logCurrent # NoFile
  /\ logRotated' = logCurrent /\ logCurrent' = NoFile /\ logQuiet' = FALSE
  /\ UNCHANGED <<logTop, logInodes, collectorVars, httpPosted, httpStoreVars, httpFaults>>

ReopenLog ==
  /\ logCurrent = NoFile
  /\ logInodes' = logInodes + 1
  /\ logCurrent' = [ino |-> logInodes + 1, lines |-> <<>>]
  /\ UNCHANGED <<logTop, logRotated, logQuiet, collectorVars, httpPosted, httpStoreVars, httpFaults>>

LogQuiet ==
  /\ logRotated # NoFile /\ logCurrent # NoFile /\ ~logQuiet
  /\ logQuiet' = TRUE
  /\ UNCHANGED <<logTop, logCurrent, logRotated, logInodes, collectorVars, httpPosted,
                 httpStoreVars, httpFaults>>

\* A truncation shows only in what was read: the sampled bytes before the cursor.
TruncateLog ==
  /\ HttpFault
  /\ logCurrent.ino = httpCursor.ino /\ httpCursor.offset > 0 /\ logCurrent.lines # <<>>
  /\ httpAt = "idle" /\ httpSpool = NoSpool
  /\ logCurrent' = [logCurrent EXCEPT !.lines = <<>>]
  /\ UNCHANGED <<logTop, logRotated, logQuiet, logInodes, collectorVars, httpPosted, httpStoreVars>>

-----------------------------------------------------------------------------
(* The collector. *)

\* build_pending: the file the cursor is in, followed to rotated_path.
UsesRotated == httpCursor # NoCursor /\ logCurrent.ino # httpCursor.ino /\ logRotated.ino = httpCursor.ino
Handle == IF UsesRotated THEN logRotated ELSE logCurrent
SameFile == httpCursor # NoCursor /\ Handle.ino = httpCursor.ino

(* Mutant of AnchorsHold: only the length of the file is compared. *)
AnchorsByLength(c, file) == c.offset =< Len(file.lines)
\* anchors: the bytes before the offset are those that were read
AnchorsHold(c, file) ==
  /\ c.offset =< Len(file.lines)
  /\ c.offset > 0 => file.lines[c.offset] = c.anchor
FileTruncated == SameFile /\ ~AnchorsHold(httpCursor, Handle)
Resumes == SameFile /\ ~FileTruncated

\* build_pending: one page of the log as it is now.
Pending ==
  LET lines == Handle.lines
      start == IF Resumes THEN httpCursor.offset ELSE 0
      gen == IF Resumes THEN httpCursor.gen ELSE httpGens + 1
      end == IF start + PageSize < Len(lines) THEN start + PageSize ELSE Len(lines)
      switches == UsesRotated /\ end = Len(lines) /\ logQuiet
      more == end < Len(lines) \/ switches
      reports == (IF httpCursor # NoCursor /\ ~SameFile THEN {"rotation_gap"} ELSE {})
                 \cup (IF FileTruncated THEN {"file_truncated"} ELSE {})
                 \cup (IF UsesRotated /\ end = Len(lines) /\ ~logQuiet THEN {"rotation_wait"} ELSE {})
                 \cup (IF more THEN {"catching_up"} ELSE {})
  IN [base |-> httpCursor,
      next |-> IF switches
               THEN [ino |-> logCurrent.ino, gen |-> httpGens + 2, offset |-> 0, anchor |-> 0]
               ELSE [ino |-> Handle.ino, gen |-> gen, offset |-> end,
                     anchor |-> IF end > 0 THEN lines[end] ELSE 0],
      records |-> [i \in 1..(end - start) |->
                     [gen |-> gen, offset |-> start + i, line |-> lines[start + i]]],
      reports |-> reports,
      caughtUp |-> reports = {},
      from |-> IF start < Len(lines) THEN lines[start + 1] ELSE logTop + 1,
      seen |-> IF reports = {} THEN logTop ELSE 0]

\* A poll that finds nothing new is left out once nothing would come of it.
HasNews == Pending.next # httpCursor \/ (Pending.caughtUp /\ httpSeen < logTop)

\* collect_page without a spool: read a page and fsync it as the pending file.
HttpBuildPending ==
  /\ httpAt = "idle" /\ httpSpool = NoSpool
  /\ logCurrent # NoFile /\ HasNews
  /\ httpSpool' = Pending
  /\ httpGens' = IF Resumes /\ Pending.next.gen = httpCursor.gen THEN httpGens ELSE httpGens + 2
  /\ httpAt' = "spooled"
  /\ UNCHANGED <<logVars, httpCursor, httpPosted, httpStoreVars, httpFaults>>

\* collect_page with a spool: it must continue the cursor, or be where the cursor is.
ResumePending ==
  /\ httpAt = "idle" /\ httpSpool # NoSpool
  /\ httpCursor \in {httpSpool.base, httpSpool.next}
  /\ httpAt' = "spooled"
  /\ UNCHANGED <<logVars, httpGens, httpCursor, httpSpool, httpPosted, httpStoreVars, httpFaults>>

PostBatch ==
  /\ httpAt = "spooled"
  /\ httpAt' = "posted"
  /\ httpPosted' = httpPosted \cup {httpSpool}
  /\ UNCHANGED <<logVars, httpGens, httpCursor, httpSpool, httpStoreVars, httpFaults>>

\* HttpStore.ingest: one transaction; a record that was received before is a duplicate,
\* the same identity with another content refuses the batch.
Conflicting(b) ==
  \E i \in DOMAIN b.records, r \in httpRows :
    /\ r.gen = b.records[i].gen /\ r.offset = b.records[i].offset
    /\ r.line # b.records[i].line
HttpIngest(b) ==
  IF Conflicting(b) THEN UNCHANGED httpStoreVars
  ELSE /\ httpRows' = httpRows \cup ToSet(b.records)
       /\ httpDeclared' = IF b.base = NoCursor \/ b.reports \cap {"rotation_gap", "file_truncated"} # {}
                          THEN httpDeclared \cup {l \in 1..logTop : l < b.from} ELSE httpDeclared
       /\ httpSeen' = IF b.seen > httpSeen THEN b.seen ELSE httpSeen

\* The server answers the collector, or the collector has given up on the answer.
AnswerBatch ==
  \E b \in httpPosted :
    /\ HttpIngest(b)
    /\ httpPosted' = httpPosted \ {b}
    /\ httpAt' = IF httpAt = "posted" /\ b = httpSpool
                 THEN (IF Conflicting(b) THEN "idle" ELSE "acked") ELSE httpAt
    /\ UNCHANGED <<logVars, httpGens, httpCursor, httpSpool, httpFaults>>

\* The cursor is written before the spool is removed.
SaveCursor ==
  /\ httpAt = "acked"
  /\ httpCursor' = httpSpool.next
  /\ httpAt' = "saved"
  /\ UNCHANGED <<logVars, httpGens, httpSpool, httpPosted, httpStoreVars, httpFaults>>

UnlinkSpool ==
  /\ httpAt = "saved"
  /\ httpSpool' = NoSpool
  /\ httpAt' = "idle"
  /\ UNCHANGED <<logVars, httpGens, httpCursor, httpPosted, httpStoreVars, httpFaults>>

\* The collector is killed or its request times out; the server may still handle it.
HttpAbort ==
  /\ httpAt # "idle" /\ HttpFault
  /\ httpAt' = "idle"
  /\ UNCHANGED <<logVars, httpGens, httpCursor, httpSpool, httpPosted, httpStoreVars>>

\* A request is lost on its way.
HttpLose ==
  /\ HttpFault
  /\ \E b \in httpPosted : httpPosted' = httpPosted \ {b}
  /\ httpAt' = IF httpAt = "posted" THEN "idle" ELSE httpAt
  /\ UNCHANGED <<logVars, httpGens, httpCursor, httpSpool, httpStoreVars>>

CollectorStep == \/ HttpBuildPending \/ ResumePending \/ PostBatch \/ AnswerBatch
                 \/ SaveCursor \/ UnlinkSpool
LogStep == WriteLine \/ RotateLog \/ ReopenLog \/ LogQuiet \/ TruncateLog
HttpNext == LogStep \/ CollectorStep \/ HttpAbort \/ HttpLose

HttpSpec == HttpInit /\ [][HttpNext]_httpVars /\ WF_httpVars(CollectorStep)
              /\ WF_httpVars(ReopenLog) /\ WF_httpVars(LogQuiet)

-----------------------------------------------------------------------------
\* A line is stored under one identity however often its batch is built, sent and
\* replayed: generations are drawn anew only where nothing of the file was stored.
HttpLineStoredOnce == \A r, s \in httpRows : r.line = s.line => r = s

\* When a stored batch says that the stream is caught up, every line logged by then is
\* stored, or lies before a gap that some stored batch reports.
HttpCaughtUpMeansRead ==
  \A l \in 1..httpSeen : l \in httpDeclared \/ \E r \in httpRows : r.line = l

\* Every line is stored, rejected with a receipt, or reported as lost.
HttpLinesSettled == \A l \in 1..logTop : l \in httpDeclared \/ \E r \in httpRows : r.line = l
=============================================================================

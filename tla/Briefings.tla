----------------------------- MODULE Briefings ------------------------------
(***************************************************************************)
(* Daily briefings: the report of each finished UTC day, put together one    *)
(* bounded page at a time by service processes that share nothing but a      *)
(* checkpoint.  The console's report (advance_briefing in                    *)
(* src/backend/app/telemetry/notifications.py) reads one table, the HTTP     *)
(* report (src/backend/app/telemetry/http_briefings.py) reads three, its     *)
(* STAGES, one after the other; the paging is the same.                      *)
(*                                                                           *)
(* An item is a row of one of the tables; items are numbered in the order of *)
(* the index a page follows.                                                 *)
(***************************************************************************)
EXTENDS Integers, Sequences, FiniteSets, SequencesExt, FiniteSetsExt

CONSTANTS
  Items,            \* rows, as numbers
  DayOf, StageOf,   \* item -> the UTC day it belongs to, and its table
  LastStage,        \* number of tables
  BatchSize,        \* batch_size
  LastDay,          \* the last day of a behaviour
  RetentionDays,    \* retention_days
  BriefingWorkers   \* service processes

ASSUME BriefingsAssumption ==
  /\ Items \subseteq Nat \ {0} /\ IsFiniteSet(Items)
  /\ DayOf \in [Items -> Nat] /\ StageOf \in [Items -> 1..LastStage]
  /\ LastStage \in Nat /\ BatchSize \in Nat \ {0} /\ LastDay \in Nat /\ RetentionDays \in Nat \ {0}

VARIABLES
  today,
  briefRows,  \* the items in the tables
  arrived,    \* items in the order they were received
  work,       \* briefing_work, or NoWork
  lastDate,   \* briefing_date, or 0
  reports,    \* the reports made, in order: [date, counted, cutoff, skipped]
  page        \* process -> what advance read before it asks for the write lock

briefingVars == <<today, briefRows, arrived, work, lastDate, reports, page>>

NoWork == [date |-> 0]
NoPage == [reading |-> FALSE]

BriefingInit ==
  /\ today = 2 /\ briefRows = {} /\ arrived = <<>>
  /\ work = NoWork /\ lastDate = 0 /\ reports = <<>>
  /\ page = [w \in BriefingWorkers |-> NoPage]

-----------------------------------------------------------------------------
(* The world. *)

\* A row is committed, late rows of past days included.
Receive ==
  /\ \E i \in Items \ ToSet(arrived) :
       /\ DayOf[i] =< today
       /\ briefRows' = briefRows \cup {i} /\ arrived' = Append(arrived, i)
  /\ UNCHANGED <<today, work, lastDate, reports, page>>

NewDay ==
  /\ today < LastDay
  /\ today' = today + 1
  /\ UNCHANGED <<briefRows, arrived, work, lastDate, reports, page>>

\* Retention deletes the raw rows of days that have passed out of it.
DeleteOld ==
  /\ \E i \in briefRows : DayOf[i] + RetentionDays < today /\ briefRows' = briefRows \ {i}
  /\ UNCHANGED <<today, arrived, work, lastDate, reports, page>>

-----------------------------------------------------------------------------
(* One tick: advance_briefing and http_briefings.advance. *)

\* _start: the day after the last report, or yesterday; days that retention has passed
\* are skipped and counted.  The cutoff fixes which rows the report is about.
Earliest == today - (IF RetentionDays - 1 > 1 THEN RetentionDays - 1 ELSE 1)
NextDate == IF lastDate = 0 THEN today - 1 ELSE lastDate + 1
Started ==
  [date |-> IF NextDate > Earliest THEN NextDate ELSE Earliest,
   skipped |-> IF Earliest > NextDate THEN Earliest - NextDate ELSE 0,
   cutoff |-> Len(arrived), stage |-> 1, cursor |-> 0,
   counted |-> [i \in Items |-> 0]]
Current == IF work = NoWork THEN Started ELSE work

\* _page: the next rows of the stage after the cursor, received before the cutoff.
DueRows(date, cutoff) == {i \in Items : DayOf[i] = date /\ \E k \in 1..cutoff : arrived[k] = i}
Population(wk) == briefRows \cap DueRows(wk.date, wk.cutoff)
NextItems(wk) == {i \in Population(wk) : StageOf[i] = wk.stage /\ i > wk.cursor}
Taken(wk) == {i \in NextItems(wk) : Cardinality({j \in NextItems(wk) : j < i}) < BatchSize}
\* The work goes on with the rows taken counted once more.
Counting(wk, taken, stage, cursor) ==
  [date |-> wk.date, skipped |-> wk.skipped, cutoff |-> wk.cutoff, stage |-> stage, cursor |-> cursor,
   counted |-> [i \in Items |-> IF i \in taken THEN wk.counted[i] + 1 ELSE wk.counted[i]]]
Paged(wk) ==
  LET taken == Taken(wk)
  IN IF Cardinality(taken) < BatchSize THEN Counting(wk, taken, wk.stage + 1, 0)
     ELSE Counting(wk, taken, wk.stage, Max(taken))

\* The page is read from a snapshot, without the write lock.
ReadPage(w) ==
  /\ page[w] = NoPage
  /\ work # NoWork \/ Started.date < today
  /\ page' = [page EXCEPT ![w] =
       [reading |-> TRUE, old |-> work, last |-> lastDate, next |-> Paged(Current)]]
  /\ UNCHANGED <<today, briefRows, arrived, work, lastDate, reports>>

(* Mutant of Unchanged: the checkpoint is not compared. *)
UnchangedAlways(w) == TRUE
\* The checkpoint is compared before the page is applied; the report and the new
\* checkpoint commit together.
Unchanged(w) == work = page[w].old /\ lastDate = page[w].last
CommitPage(w) ==
  /\ page[w].reading
  /\ LET next == page[w].next
     IN IF ~Unchanged(w) THEN UNCHANGED <<work, lastDate, reports>>
        ELSE IF next.stage =< LastStage
             THEN work' = next /\ UNCHANGED <<lastDate, reports>>
             ELSE /\ work' = NoWork /\ lastDate' = next.date
                  /\ reports' = Append(reports, [date |-> next.date, counted |-> next.counted,
                                                 cutoff |-> next.cutoff, skipped |-> next.skipped])
  /\ page' = [page EXCEPT ![w] = NoPage]
  /\ UNCHANGED <<today, briefRows, arrived>>

\* A process stops, or its query runs into the progress handler's deadline.
DropPage(w) ==
  /\ page[w].reading
  /\ page' = [page EXCEPT ![w] = NoPage]
  /\ UNCHANGED <<today, briefRows, arrived, work, lastDate, reports>>

BriefingTick(w) == ReadPage(w) \/ CommitPage(w)
BriefingNext == \/ Receive \/ NewDay \/ DeleteOld
                \/ \E w \in BriefingWorkers : BriefingTick(w) \/ DropPage(w)
BriefingFairness == \A w \in BriefingWorkers : SF_briefingVars(CommitPage(w)) /\ WF_briefingVars(ReadPage(w))
BriefingSpec == BriefingInit /\ [][BriefingNext]_briefingVars /\ BriefingFairness

-----------------------------------------------------------------------------
\* A report counts each row once and only rows of its day received before its cutoff,
\* and it leaves out only what retention deleted, though several processes page on it.
ReportsCountOnce ==
  \A n \in DOMAIN reports :
    LET r == reports[n]
        counted == {i \in Items : r.counted[i] > 0}
        due == DueRows(r.date, r.cutoff)
    IN /\ \A i \in Items : r.counted[i] =< 1
       /\ counted \subseteq due
       /\ due \subseteq counted \/ r.date + RetentionDays < today

\* One report a day, and days without one are named in the next report's skipped_days.
NoDayUnaccounted ==
  \A n \in 2..Len(reports) : reports[n].date = reports[n - 1].date + 1 + reports[n].skipped

\* The reports of several processes add up (process, _advance): rows are counted once,
\* in one report a day, and no day is passed over in silence.
BriefingsAddUp == ReportsCountOnce /\ NoDayUnaccounted

\* Every finished day is reported or skipped.
DaysReported == \A d \in 2..(LastDay - 1) : today > d => lastDate >= d
=============================================================================

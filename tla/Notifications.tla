---------------------------- MODULE Notifications ---------------------------
(***************************************************************************)
(* Console notifications (src/backend/app/telemetry/notifications.py): the   *)
(* outbox with one row for each topic, which coalesces what happens between  *)
(* two deliveries, and the tick that scans incidents, compares conditions    *)
(* with what they were, and delivers what is due.                            *)
(*                                                                           *)
(* A topic is an incident or a condition (a source's collection, a disk, a   *)
(* backup).  Times are relative to now in units of the worker's interval:    *)
(* `wait` is due_at - now, `since` is now - last_delivered_at.               *)
(***************************************************************************)
EXTENDS Integers, Sequences, FiniteSets, SequencesExt

CONSTANTS
  NoticeIncidents,   \* incidents: consecutive numbers from 1, in the order of their ids
  NoticeConditions,  \* conditions: larger numbers
  Broken,            \* topics whose delivery always fails
  Cooldown,          \* COOLDOWN_SECONDS
  MaxBackoff,        \* the longest pause between two attempts
  ScanLimit,         \* SCAN_LIMIT
  DeliveryLimit,     \* DELIVERY_LIMIT
  MaxChanges         \* changes of incidents and conditions of a behaviour

ASSUME NotificationsAssumption ==
  /\ Cooldown \in Nat \ {0} /\ MaxBackoff \in Nat \ {0} /\ MaxChanges \in Nat
  /\ ScanLimit \in Nat \ {0} /\ DeliveryLimit \in Nat \ {0}
  /\ NoticeIncidents \cup NoticeConditions \subseteq Nat
  /\ NoticeIncidents \cap NoticeConditions = {}

Topics == NoticeIncidents \cup NoticeConditions
Never == -1

VARIABLES
  incidents,    \* incident -> [open, prio, evidence, scored]
  problem,      \* condition -> the condition holds now
  previous,     \* condition -> notification_meta "condition:..."
  notices,      \* topic -> notification_outbox
  inbox,        \* topic -> its last notification_inbox row
  scanned,      \* notification_meta incident_cursor
  changes,
  early         \* history: topics delivered within their cooldown though no enqueue
                \* since the last delivery raised the priority

noticeVars == <<incidents, problem, previous, notices, inbox, scanned, changes, early>>

NoNotice == [state |-> "none", prio |-> 0, payload |-> Never, revision |-> 0, wait |-> 0,
             attempts |-> 0, since |-> Never, raised |-> FALSE]
NoEntry == [revision |-> 0, payload |-> Never]

NoticeInit ==
  /\ incidents = [i \in NoticeIncidents |-> [open |-> TRUE, prio |-> 1, evidence |-> 1, scored |-> 1]]
  /\ problem = [c \in NoticeConditions |-> FALSE]
  /\ previous = problem
  /\ notices = [t \in Topics |-> NoNotice]
  /\ inbox = [t \in Topics |-> NoEntry]
  /\ scanned = 0 /\ changes = 0 /\ early = {}

-----------------------------------------------------------------------------
(* What notifications are about. *)

Change == changes < MaxChanges /\ changes' = changes + 1

\* New evidence makes the score of an incident stale until it is scored again.
MoreEvidence(i) ==
  /\ Change
  /\ incidents' = [incidents EXCEPT ![i].evidence = @ + 1]
  /\ UNCHANGED <<problem, previous, notices, inbox, scanned, early>>
Score(i) ==
  /\ incidents[i].scored # incidents[i].evidence
  /\ \E p \in 0..2 : incidents' = [incidents EXCEPT ![i].scored = @ + 1, ![i].prio = p]
  /\ UNCHANGED <<problem, previous, notices, inbox, scanned, changes, early>>
Triage(i) ==
  /\ Change
  /\ incidents' = [incidents EXCEPT ![i].open = ~@]
  /\ UNCHANGED <<problem, previous, notices, inbox, scanned, early>>
Toggle(c) ==
  /\ Change
  /\ problem' = [problem EXCEPT ![c] = ~@]
  /\ UNCHANGED <<incidents, previous, notices, inbox, scanned, early>>

-----------------------------------------------------------------------------
(* One topic's row: each operator returns the row after it. *)

\* enqueue: a pending row keeps its due time and its attempts, a delivered one waits
\* out its cooldown, and a higher priority or a zero cooldown is due at once.
Enqueued(n, payload, prio, cooldown) ==
  IF n.payload = payload /\ n.state \notin {"none", "cancelled"} THEN n
  ELSE LET wait == IF n.state = "pending" THEN n.wait
                   ELSE IF n.since # Never /\ n.since < cooldown THEN cooldown - n.since ELSE 0
           now == n.state # "none" /\ (prio > n.prio \/ cooldown = 0)
       IN [n EXCEPT !.state = "pending", !.prio = prio, !.payload = payload,
                    !.revision = @ + 1, !.wait = IF now THEN 0 ELSE wait,
                    !.attempts = IF n.state = "pending" THEN @ ELSE 0,
                    !.raised = @ \/ now]

\* incident: only an open incident whose score covers its evidence is announced;
\* otherwise a pending announcement is cancelled.
Surfaced(i) == incidents[i].prio > 0
Announceable(i) == incidents[i].open /\ Surfaced(i) /\ incidents[i].scored = incidents[i].evidence
Content(i) == 10 * incidents[i].evidence + incidents[i].prio
Requeued(i, n) ==
  IF Announceable(i) THEN Enqueued(n, Content(i), incidents[i].prio, Cooldown)
  ELSE IF n.state = "pending" THEN [n EXCEPT !.state = "cancelled"] ELSE n

\* _condition: the start of a problem, changes of it, and its end.
Compared(c, n) ==
  IF problem[c] \/ previous[c]
  THEN Enqueued(n, IF problem[c] THEN 1 ELSE 0, IF problem[c] THEN 2 ELSE 0,
                IF problem[c] THEN Cooldown ELSE 0)
  ELSE n

\* deliver_console in its savepoint: the inbox row is unique for topic and revision.
Backoff(attempts) == IF 2 ^ (attempts - 1) < MaxBackoff THEN 2 ^ (attempts - 1) ELSE MaxBackoff
Delivered(n) == [n EXCEPT !.state = "delivered", !.since = 0, !.attempts = 0, !.raised = FALSE]
Postponed(n) == [n EXCEPT !.attempts = IF 2 ^ @ < MaxBackoff THEN @ + 1 ELSE @,
                          !.wait = Backoff(n.attempts + 1)]

-----------------------------------------------------------------------------
(* tick. *)

\* The incidents a scan looks at: the surfaced ones behind the rotating cursor.
ScanPage == LET ahead == {i \in NoticeIncidents : Surfaced(i) /\ i > scanned}
        IN {i \in ahead : Cardinality({j \in ahead : j < i}) < ScanLimit}

\* The rows after the scan and the conditions.
Updated ==
  [t \in Topics |-> IF t \in ScanPage THEN Requeued(t, notices[t])
                    ELSE IF t \in NoticeConditions THEN Compared(t, notices[t]) ELSE notices[t]]

\* ORDER BY due_at, topic LIMIT
Due(rows) ==
  LET ready == {t \in Topics : rows[t].state = "pending" /\ rows[t].wait =< 0}
      before(s, t) == rows[s].wait < rows[t].wait \/ (rows[s].wait = rows[t].wait /\ s < t)
  IN {t \in ready : Cardinality({s \in ready : before(s, t)}) < DeliveryLimit}

(* Mutant of Revalidated: a due incident is delivered as it was announced. *)
RevalidatedNever(t, n) == n
\* A due incident is looked at again before it is delivered.
Revalidated(t, n) == IF t \in NoticeIncidents THEN Requeued(t, n) ELSE n

\* An interval passes; waits that are over keep their order for a while.
Older(n) == [n EXCEPT !.wait = IF n.state # "pending" THEN 0 ELSE IF @ > -2 THEN @ - 1 ELSE @,
                      !.since = IF @ \in 0..(Cooldown - 1) THEN @ + 1 ELSE @]

\* The deliveries of a tick: each in its savepoint, a failure postpones its topic only.
Deliver(rows, sending) ==
  LET sent == sending \ Broken
      after(t) == IF t \in sent THEN Delivered(rows[t])
                  ELSE IF t \in sending THEN Postponed(rows[t]) ELSE rows[t]
  IN /\ notices' = [t \in Topics |-> Older(after(t))]
     /\ inbox' = [t \in Topics |->
          IF t \in sent /\ rows[t].revision # inbox[t].revision
          THEN [revision |-> rows[t].revision, payload |-> rows[t].payload] ELSE inbox[t]]
     /\ early' = early \cup {t \in sent : rows[t].since \in 0..(Cooldown - 1) /\ ~rows[t].raised}

\* One run of the worker: tick in one transaction, then the interval.
DeliveryTick ==
  /\ \E rows \in {Updated} :
       \E again \in {[t \in Topics |-> IF t \in Due(rows) THEN Revalidated(t, rows[t]) ELSE rows[t]]} :
         Deliver(again, {t \in Due(rows) : again[t].state = "pending" /\ again[t].wait =< 0})
  /\ previous' = problem
  /\ scanned' = IF Cardinality(ScanPage) = ScanLimit
                THEN CHOOSE i \in ScanPage : \A j \in ScanPage : j =< i ELSE 0
  /\ UNCHANGED <<incidents, problem, changes>>

NoticeNext ==
  \/ DeliveryTick
  \/ \E i \in NoticeIncidents : MoreEvidence(i) \/ Score(i) \/ Triage(i)
  \/ \E c \in NoticeConditions : Toggle(c)

\* The worker's loop goes on whatever a run ends in, and incidents are scored.
NoticeFairness == WF_noticeVars(DeliveryTick) /\ \A i \in NoticeIncidents : WF_noticeVars(Score(i))
NoticeSpec == NoticeInit /\ [][NoticeNext]_noticeVars /\ NoticeFairness

-----------------------------------------------------------------------------
\* What a tick puts into the inbox is true when it does: an incident is announced with
\* the evidence and priority it has, never after it was handled or while its score is
\* stale, and a condition with what it is.  Rows wait for days; they are looked at again.
DeliveredIsCurrent ==
  [][\A t \in Topics : inbox'[t] # inbox[t] =>
        IF t \in NoticeIncidents THEN Announceable(t) /\ inbox'[t].payload = Content(t)
        ELSE inbox'[t].payload = IF problem[t] THEN 1 ELSE 0]_noticeVars

\* No topic is delivered twice within its cooldown unless its priority rose or its
\* problem ended in between.
CooldownIsKept == early = {}

\* What the inbox shows was true when it was put there, and no topic repeats itself
\* within its cooldown (process, _enqueue).
InboxIsTrue == []CooldownIsKept /\ DeliveredIsCurrent

\* Every topic's last inbox row says what it is: a flapping condition, a failing topic
\* and a full delivery limit delay a notice and never lose it.
InboxUpToDate ==
  /\ \A i \in NoticeIncidents \ Broken : Announceable(i) => inbox[i].payload = Content(i)
  /\ \A c \in NoticeConditions \ Broken :
       inbox[c].payload = (IF problem[c] THEN 1 ELSE 0) \/ (inbox[c] = NoEntry /\ ~problem[c])
=============================================================================

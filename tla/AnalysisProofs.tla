--------------------------- MODULE AnalysisProofs ---------------------------
(***************************************************************************)
(* What the operator is told is true: the notices of the console's inbox   *)
(* (Notifications) and the port scan cases of the network correlator       *)
(* (NetworkAnalysis), for every set of records, arrival order and crash.   *)
(***************************************************************************)
EXTENDS Notifications, NetworkAnalysis, DataLemmas

(***************************************************************************)
(* Notifications: what is delivered is true, and cooldowns are kept.       *)
(***************************************************************************)
NoticeFields == {"state", "prio", "payload", "revision", "wait", "attempts", "since", "raised"}

\* A row that waits, was never raised and whose last delivery is within its cooldown
\* has the rest of that cooldown still to wait.
Paced(n) ==
  n.state = "pending" /\ ~n.raised /\ n.since \in 0..(Cooldown - 1) =>
    n.wait \in Int /\ n.wait >= Cooldown - n.since
IsRow(n) ==
  /\ DOMAIN n = NoticeFields /\ n.raised \in BOOLEAN
  /\ n.state = "none" => n.since = Never
  /\ Paced(n)

\* The row of a condition says what the condition was at the last tick.
SaysOf(n, held) ==
  /\ n.state = "none" => ~held
  /\ n.state # "none" => n.payload = IF held THEN 1 ELSE 0

NoticeInv ==
  /\ problem \in [NoticeConditions -> BOOLEAN] /\ previous \in [NoticeConditions -> BOOLEAN]
  /\ DOMAIN notices = Topics /\ \A t \in Topics : IsRow(notices[t])
  /\ \A c \in NoticeConditions : SaysOf(notices[c], previous[c])
  /\ early = {}

\* enqueue paces a row, whatever the priority and the payload, and stores the payload.
LEMMA EnqueuedPaced ==
  ASSUME NEW n, IsRow(n), NEW payload, NEW prio, NEW cooldown \in {0, Cooldown},
         cooldown = 0 => n.state # "none"
  PROVE  /\ IsRow(Enqueued(n, payload, prio, cooldown))
         /\ Enqueued(n, payload, prio, cooldown).payload = payload
         /\ Enqueued(n, payload, prio, cooldown).state # "none"
<1>0. Cooldown \in Nat \ {0} BY NotificationsAssumption
<1>1. CASE n.payload = payload /\ n.state \notin {"none", "cancelled"}
  BY <1>1 DEF Enqueued
<1>2. CASE ~(n.payload = payload /\ n.state \notin {"none", "cancelled"})
  <2> DEFINE wait == IF n.state = "pending" THEN n.wait
                     ELSE IF n.since # Never /\ n.since < cooldown THEN cooldown - n.since ELSE 0
             now == n.state # "none" /\ (prio > n.prio \/ cooldown = 0)
  <2>1. PICK w : w = IF now THEN 0 ELSE wait
    OBVIOUS
  <2>2. PICK raised : raised = (n.raised \/ now)
    OBVIOUS
  <2>3. PICK a : a = IF n.state = "pending" THEN n.attempts ELSE 0
    OBVIOUS
  <2>4. PICK v : v = n.revision + 1
    OBVIOUS
  <2>5. PICK m : m = Enqueued(n, payload, prio, cooldown)
    OBVIOUS
  <2>6. m = [n EXCEPT !.state = "pending", !.prio = prio, !.payload = payload,
                      !.revision = v, !.wait = w, !.attempts = a, !.raised = raised]
    BY ONLY <1>2, <2>1, <2>2, <2>3, <2>4, <2>5 DEF Enqueued
  <2>7. /\ DOMAIN m = NoticeFields /\ m.state = "pending" /\ m.payload = payload
        /\ m.wait = w /\ m.raised = raised /\ m.since = n.since
    BY ONLY <2>6, IsRow(n) DEF IsRow, NoticeFields
  <2>8. m.raised \in BOOLEAN
    BY <2>2, <2>7 DEF IsRow
  <2>9. Paced(m)
    <3> HIDE DEF now
    <3> SUFFICES ASSUME ~raised, n.since \in 0..(Cooldown - 1)
                 PROVE  w \in Int /\ w >= Cooldown - n.since
      BY <2>7 DEF Paced
    <3>1. ~n.raised /\ ~now
      BY <2>2 DEF IsRow
    <3>2. n.state # "none"
      BY <1>0 DEF IsRow, Never
    <3>3. cooldown = Cooldown
      BY <3>1, <3>2, <1>0 DEF now
    <3>4. w = wait
      BY <2>1, <3>1
    <3>5. CASE n.state = "pending"
      BY <3>1, <3>4, <3>5 DEF IsRow, Paced
    <3>6. CASE n.state # "pending"
      <4>1. n.since # Never /\ n.since < cooldown
        BY <3>3, <1>0 DEF Never
      <4> QED BY <3>3, <3>4, <3>6, <4>1, <1>0
    <3> QED BY <3>5, <3>6
  <2> QED BY <2>5, <2>7, <2>8, <2>9 DEF IsRow
<1> QED BY <1>1, <1>2

\* An incident that may be announced is stored as it is; otherwise nothing waits.
LEMMA RequeuedSays ==
  ASSUME NEW n, IsRow(n), NEW i
  PROVE  /\ IsRow(Requeued(i, n))
         /\ Requeued(i, n).state = "pending" =>
              Announceable(i) /\ Requeued(i, n).payload = Content(i)
<1>1. CASE Announceable(i)
  <2>1. Requeued(i, n) = Enqueued(n, Content(i), incidents[i].prio, Cooldown)
    BY <1>1 DEF Requeued
  <2>2. Cooldown # 0
    BY NotificationsAssumption
  <2> QED BY <1>1, <2>1, <2>2, EnqueuedPaced
<1>2. CASE ~Announceable(i)
  <2>1. CASE n.state = "pending"
    <3>1. PICK m : m = [n EXCEPT !.state = "cancelled"]
      OBVIOUS
    <3>2. Requeued(i, n) = m
      BY <1>2, <2>1, <3>1 DEF Requeued
    <3>3. DOMAIN m = NoticeFields /\ m.state = "cancelled" /\ m.raised = n.raised
      BY <3>1 DEF IsRow, NoticeFields
    <3> QED BY <3>2, <3>3 DEF IsRow, Paced
  <2>2. CASE n.state # "pending"
    <3>1. Requeued(i, n) = n
      BY <1>2, <2>2 DEF Requeued
    <3> QED BY <2>2, <3>1
  <2> QED BY <2>1, <2>2
<1> QED BY <1>1, <1>2

\* The comparison of a condition stores what it is now.
LEMMA ComparedSays ==
  ASSUME NoticeInv, NEW c \in NoticeConditions
  PROVE  IsRow(Compared(c, notices[c])) /\ SaysOf(Compared(c, notices[c]), problem[c])
<1>0. IsRow(notices[c]) /\ SaysOf(notices[c], previous[c])
      /\ problem[c] \in BOOLEAN /\ previous[c] \in BOOLEAN
  BY DEF NoticeInv, Topics
<1>1. CASE problem[c] \/ previous[c]
  <2>1. PICK p : p = IF problem[c] THEN 1 ELSE 0
    OBVIOUS
  <2>2. PICK d : d = IF problem[c] THEN Cooldown ELSE 0
    OBVIOUS
  <2>3. PICK q : q = IF problem[c] THEN 2 ELSE 0
    OBVIOUS
  <2>4. Compared(c, notices[c]) = Enqueued(notices[c], p, q, d)
    BY <1>1, <2>1, <2>2, <2>3 DEF Compared
  <2>5. d = 0 => notices[c].state # "none"
    BY <1>0, <1>1, <2>2, NotificationsAssumption DEF SaysOf
  <2>6. d \in {0, Cooldown}
    BY <2>2
  <2>7. PICK m : m = Enqueued(notices[c], p, q, d)
    OBVIOUS
  <2>8. IsRow(m) /\ m.payload = p /\ m.state # "none"
    BY <1>0, <2>5, <2>6, <2>7, EnqueuedPaced
  <2> QED BY <2>1, <2>4, <2>7, <2>8 DEF SaysOf
<1>2. CASE ~(problem[c] \/ previous[c])
  BY <1>0, <1>2 DEF Compared, SaysOf
<1> QED BY <1>1, <1>2

\* Delivering, postponing and the passing of an interval keep a row paced: a row is
\* postponed only when it was due.
LEMMA OlderPaced ==
  ASSUME NEW n, IsRow(n)
  PROVE  /\ IsRow(Older(n)) /\ Older(n).state = n.state /\ Older(n).payload = n.payload
<1>0. Cooldown \in Nat \ {0} BY NotificationsAssumption
<1>1. PICK w : w = IF n.state # "pending" THEN 0 ELSE IF n.wait > -2 THEN n.wait - 1 ELSE n.wait
  OBVIOUS
<1>2. PICK s : s = IF n.since \in 0..(Cooldown - 1) THEN n.since + 1 ELSE n.since
  OBVIOUS
<1>3. PICK m : m = [n EXCEPT !.wait = w, !.since = s]
  OBVIOUS
<1>4. Older(n) = m
  BY ONLY <1>1, <1>2, <1>3 DEF Older
<1>5. /\ DOMAIN m = NoticeFields /\ m.state = n.state /\ m.raised = n.raised
      /\ m.payload = n.payload /\ m.wait = w /\ m.since = s
  BY <1>3 DEF IsRow, NoticeFields
<1>6. n.state = "none" => s = Never
  BY <1>0, <1>2 DEF IsRow, Never
<1>7. Paced(m)
  <2> SUFFICES ASSUME n.state = "pending", ~n.raised, s \in 0..(Cooldown - 1)
               PROVE  w \in Int /\ w >= Cooldown - s
    BY <1>5 DEF Paced
  <2>1. n.since \in 0..(Cooldown - 1) /\ s = n.since + 1
    BY <1>0, <1>2
  <2>2. n.wait \in Int /\ n.wait >= Cooldown - n.since
    BY <2>1 DEF IsRow, Paced
  <2> QED BY <1>0, <1>1, <2>1, <2>2
<1> QED BY <1>4, <1>5, <1>6, <1>7 DEF IsRow

LEMMA DeliveredPaced ==
  ASSUME NEW n, IsRow(n)
  PROVE  IsRow(Delivered(n)) /\ Delivered(n).payload = n.payload /\ Delivered(n).state # "none"
<1>1. PICK m : m = Delivered(n)
  OBVIOUS
<1>2. DOMAIN m = NoticeFields /\ m.state = "delivered" /\ m.raised = FALSE /\ m.payload = n.payload
  BY <1>1 DEF Delivered, IsRow, NoticeFields
<1> QED BY <1>1, <1>2 DEF IsRow, Paced

LEMMA PostponedPaced ==
  ASSUME NEW n, IsRow(n), n.state = "pending", n.wait =< 0
  PROVE  IsRow(Postponed(n)) /\ Postponed(n).payload = n.payload /\ Postponed(n).state = n.state
<1>0. Cooldown \in Nat \ {0} BY NotificationsAssumption
<1>1. PICK a : a = IF 2 ^ n.attempts < MaxBackoff THEN n.attempts + 1 ELSE n.attempts
  OBVIOUS
<1>2. PICK w : w = Backoff(n.attempts + 1)
  OBVIOUS
<1>3. PICK m : m = [n EXCEPT !.attempts = a, !.wait = w]
  OBVIOUS
<1>4. Postponed(n) = m
  BY ONLY <1>1, <1>2, <1>3 DEF Postponed
<1>5. /\ DOMAIN m = NoticeFields /\ m.state = n.state /\ m.raised = n.raised
      /\ m.payload = n.payload /\ m.since = n.since
  BY <1>3 DEF IsRow, NoticeFields
<1>6. n.raised \/ n.since \notin 0..(Cooldown - 1)
  BY <1>0 DEF IsRow, Paced
<1> QED BY <1>4, <1>5, <1>6 DEF IsRow, Paced

\* What one tick does, apart from the scan's cursor: the rows after the scan, those of
\* the due topics after a second look, and the deliveries.
SecondLook(rows) ==
  [t \in Topics |-> IF t \in Due(rows) THEN Revalidated(t, rows[t]) ELSE rows[t]]
Sending(rows, again) == {t \in Due(rows) : again[t].state = "pending" /\ again[t].wait =< 0}

\* The rows a tick delivers from: paced, and those that are sent say what is so now.
LEMMA RowsOfATick ==
  ASSUME NoticeInv, NEW t \in Topics
  PROVE  /\ IsRow(Updated[t]) /\ IsRow(SecondLook(Updated)[t])
         /\ t \in NoticeConditions => SaysOf(SecondLook(Updated)[t], problem[t])
         /\ t \in NoticeIncidents /\ t \in Sending(Updated, SecondLook(Updated)) =>
              Announceable(t) /\ SecondLook(Updated)[t].payload = Content(t)
<1>0. IsRow(notices[t])
  BY DEF NoticeInv
<1>1. t \in NoticeConditions => t \notin NoticeIncidents
  BY NotificationsAssumption
<1>2. PICK u : u = Updated[t]
  OBVIOUS
<1>3. u = IF t \in ScanPage THEN Requeued(t, notices[t])
          ELSE IF t \in NoticeConditions THEN Compared(t, notices[t]) ELSE notices[t]
  BY <1>2 DEF Updated
<1>4. t \in ScanPage => t \in NoticeIncidents
  BY DEF ScanPage
<1>5. IsRow(u) /\ (t \in NoticeConditions => SaysOf(u, problem[t]))
  BY <1>0, <1>1, <1>3, <1>4, RequeuedSays, ComparedSays
<1>6. PICK m : m = SecondLook(Updated)[t]
  OBVIOUS
<1>7. m = IF t \in Due(Updated) THEN Revalidated(t, u) ELSE u
  BY <1>2, <1>6 DEF SecondLook
<1>8. CASE t \in NoticeIncidents
  <2>1. IsRow(Requeued(t, u))
        /\ (Requeued(t, u).state = "pending" => Announceable(t) /\ Requeued(t, u).payload = Content(t))
    BY <1>5, RequeuedSays
  <2>2. m = IF t \in Due(Updated) THEN Requeued(t, u) ELSE u
    BY <1>7, <1>8 DEF Revalidated
  <2> QED BY <1>1, <1>2, <1>5, <1>6, <1>8, <2>1, <2>2 DEF Sending
<1>9. CASE t \notin NoticeIncidents
  <2>1. m = u
    BY <1>7, <1>9 DEF Revalidated
  <2> QED BY <1>2, <1>5, <1>6, <1>9, <2>1
<1> QED BY <1>8, <1>9

\* The row of a topic after the tick, and what was put into the inbox.
LEMMA TickEffect ==
  ASSUME DeliveryTick
  PROVE  LET rows == SecondLook(Updated)
             sending == Sending(Updated, rows)
         IN  /\ notices' = [t \in Topics |->
                  Older(IF t \in sending \ Broken THEN Delivered(rows[t])
                        ELSE IF t \in sending THEN Postponed(rows[t]) ELSE rows[t])]
             /\ inbox' = [t \in Topics |->
                  IF t \in sending \ Broken /\ rows[t].revision # inbox[t].revision
                  THEN [revision |-> rows[t].revision, payload |-> rows[t].payload] ELSE inbox[t]]
             /\ early' = early \cup {t \in sending \ Broken :
                                       rows[t].since \in 0..(Cooldown - 1) /\ ~rows[t].raised}
<1>1. PICK rows, again :
        /\ rows = Updated
        /\ again = [t \in Topics |-> IF t \in Due(rows) THEN Revalidated(t, rows[t]) ELSE rows[t]]
        /\ Deliver(again, {t \in Due(rows) : again[t].state = "pending" /\ again[t].wait =< 0})
  BY DEF DeliveryTick
<1>2. again = SecondLook(Updated)
  BY <1>1 DEF SecondLook
<1>3. Deliver(again, Sending(Updated, again))
  BY <1>1 DEF Sending
<1> QED BY <1>2, <1>3 DEF Deliver

LEMMA TickKeepsNotices ==
  ASSUME NoticeInv, DeliveryTick
  PROVE  NoticeInv'
<1> DEFINE rows == SecondLook(Updated)
           sending == Sending(Updated, rows)
           After(t) == IF t \in sending \ Broken THEN Delivered(rows[t])
                       ELSE IF t \in sending THEN Postponed(rows[t]) ELSE rows[t]
<1>1. /\ notices' = [t \in Topics |-> Older(After(t))]
      /\ early' = early \cup {t \in sending \ Broken :
                                rows[t].since \in 0..(Cooldown - 1) /\ ~rows[t].raised}
  BY TickEffect
<1>2. \A t \in sending : t \in Topics /\ rows[t].state = "pending" /\ rows[t].wait =< 0
  BY DEF Sending, Due
<1>3. \A t \in Topics : IsRow(rows[t]) /\ (t \in NoticeConditions => SaysOf(rows[t], problem[t]))
  BY RowsOfATick
<1> HIDE DEF rows, sending
<1>4. ASSUME NEW t \in Topics
      PROVE  /\ IsRow(After(t)) /\ After(t).payload = rows[t].payload
             /\ After(t).state = "none" <=> rows[t].state = "none"
  <2>1. IsRow(rows[t])
    BY <1>3
  <2>2. CASE t \in sending \ Broken
    <3>1. After(t) = Delivered(rows[t]) /\ rows[t].state # "none"
      BY <1>2, <2>2
    <3> QED BY <2>1, <3>1, DeliveredPaced
  <2>3. CASE t \in sending /\ t \in Broken
    <3>1. After(t) = Postponed(rows[t]) /\ rows[t].state = "pending" /\ rows[t].wait =< 0
      BY <1>2, <2>3
    <3> QED BY <2>1, <3>1, PostponedPaced
  <2>4. CASE t \notin sending
    BY <2>1, <2>4
  <2> QED BY <2>2, <2>3, <2>4
<1>5. ASSUME NEW t \in Topics
      PROVE  /\ IsRow(notices'[t]) /\ notices'[t].payload = rows[t].payload
             /\ notices'[t].state = "none" <=> rows[t].state = "none"
  <2>1. notices'[t] = Older(After(t))
    BY <1>1
  <2> HIDE DEF After
  <2> QED BY <1>4, <2>1, OlderPaced
<1>6. DOMAIN notices' = Topics
  BY <1>1
<1>7. previous' = problem /\ problem' = problem
  BY DEF DeliveryTick
<1>8. \A c \in NoticeConditions : SaysOf(notices'[c], previous'[c])
  <2> TAKE c \in NoticeConditions
  <2>1. c \in Topics
    BY DEF Topics
  <2>2. SaysOf(rows[c], problem[c])
    BY <1>3, <2>1
  <2> QED BY <1>5, <1>7, <2>1, <2>2 DEF SaysOf
<1>9. early' = {}
  <2>1. ASSUME NEW t \in sending PROVE ~(rows[t].since \in 0..(Cooldown - 1) /\ ~rows[t].raised)
    <3>1. IsRow(rows[t]) /\ rows[t].state = "pending" /\ rows[t].wait =< 0
      BY <1>2, <1>3
    <3> QED BY <3>1, NotificationsAssumption DEF IsRow, Paced
  <2> QED BY <1>1, <2>1 DEF NoticeInv
<1> QED BY <1>5, <1>6, <1>7, <1>8, <1>9 DEF NoticeInv

LEMMA NoticesKept ==
  ASSUME NoticeInv, [NoticeNext]_noticeVars
  PROVE  NoticeInv'
<1>1. CASE DeliveryTick
  BY <1>1, TickKeepsNotices
<1>2. ASSUME NEW c \in NoticeConditions, Toggle(c) PROVE NoticeInv'
  <2>1. problem' \in [NoticeConditions -> BOOLEAN]
    BY <1>2 DEF Toggle, NoticeInv
  <2>2. UNCHANGED <<previous, notices, early>>
    BY <1>2 DEF Toggle
  <2> QED BY <2>1, <2>2 DEF NoticeInv
<1>3. ASSUME UNCHANGED <<problem, previous, notices, early>> PROVE NoticeInv'
  BY <1>3 DEF NoticeInv
<1>4. ASSUME NEW i \in NoticeIncidents, MoreEvidence(i) \/ Score(i) \/ Triage(i) PROVE NoticeInv'
  BY <1>3, <1>4 DEF MoreEvidence, Score, Triage
<1>5. CASE UNCHANGED noticeVars
  BY <1>3, <1>5 DEF noticeVars
<1> QED BY <1>1, <1>2, <1>4, <1>5 DEF NoticeNext

LEMMA NoticesInitially == NoticeInit => NoticeInv
<1> SUFFICES ASSUME NoticeInit PROVE NoticeInv
  OBVIOUS
<1>1. IsRow(NoNotice) /\ NoNotice.state = "none"
  BY NotificationsAssumption DEF IsRow, NoNotice, NoticeFields, Paced, Never
<1>2. \A t \in Topics : notices[t] = NoNotice
  BY DEF NoticeInit
<1>3. DOMAIN notices = Topics /\ problem = [c \in NoticeConditions |-> FALSE] /\ previous = problem
      /\ early = {}
  BY DEF NoticeInit
<1>4. \A c \in NoticeConditions : SaysOf(notices[c], previous[c])
  BY <1>1, <1>2, <1>3 DEF SaysOf, Topics
<1> QED BY <1>1, <1>2, <1>3, <1>4 DEF NoticeInv

\* Only a tick writes to the inbox, and what it writes is so.
LEMMA WrittenIsCurrent ==
  ASSUME NoticeInv, [NoticeNext]_noticeVars, NEW t \in Topics, inbox'[t] # inbox[t]
  PROVE  IF t \in NoticeIncidents THEN Announceable(t) /\ inbox'[t].payload = Content(t)
         ELSE inbox'[t].payload = IF problem[t] THEN 1 ELSE 0
<1>1. DeliveryTick
  BY DEF NoticeNext, noticeVars, Toggle, MoreEvidence, Score, Triage
<1> DEFINE rows == SecondLook(Updated)
           sending == Sending(Updated, rows)
<1>2. inbox' = [s \in Topics |->
                  IF s \in sending \ Broken /\ rows[s].revision # inbox[s].revision
                  THEN [revision |-> rows[s].revision, payload |-> rows[s].payload] ELSE inbox[s]]
  BY <1>1, TickEffect
<1>3. t \in sending /\ inbox'[t].payload = rows[t].payload
  BY <1>2
<1>4. rows[t].state = "pending"
  BY <1>3 DEF Sending
<1>5. CASE t \in NoticeIncidents
  BY <1>3, <1>5, RowsOfATick
<1>6. CASE t \notin NoticeIncidents
  <2>1. t \in NoticeConditions
    BY <1>6 DEF Topics
  <2>2. SaysOf(rows[t], problem[t])
    BY <2>1, RowsOfATick
  <2> QED BY <1>3, <1>4, <1>6, <2>2 DEF SaysOf
<1> QED BY <1>5, <1>6

\* For any incidents, conditions and limits, and whichever topics' deliveries fail: what
\* a tick (process) puts into the inbox is true at that moment, and no topic is delivered
\* again within its cooldown unless it was raised or its problem ended (_enqueue).
THEOREM InboxTrue == NoticeSpec => InboxIsTrue
<1>1. NoticeInit => NoticeInv
  BY NoticesInitially
<1>2. NoticeInv /\ [NoticeNext]_noticeVars => NoticeInv'
  BY NoticesKept
<1>3. NoticeInv => CooldownIsKept
  BY DEF NoticeInv, CooldownIsKept
<1>4. NoticeInv /\ [NoticeNext]_noticeVars =>
        [\A t \in Topics : inbox'[t] # inbox[t] =>
           IF t \in NoticeIncidents THEN Announceable(t) /\ inbox'[t].payload = Content(t)
           ELSE inbox'[t].payload = IF problem[t] THEN 1 ELSE 0]_noticeVars
  BY WrittenIsCurrent
<1> QED BY <1>1, <1>2, <1>3, <1>4, PTL DEF NoticeSpec, InboxIsTrue, DeliveredIsCurrent

(***************************************************************************)
(* The rule of network detection: what the joined windows of a set of rows *)
(* say, and that more rows never say less.                                 *)
(***************************************************************************)
LEMMA NetworkConstants ==
  /\ MaxTime \in Nat /\ Hour \in Nat \ {0} /\ Window \in Nat /\ Window < Hour
  /\ MinPorts \in Nat \ {0} /\ MaxRecords \in Nat
  /\ \A r \in Records : r \in Nat /\ r =< MaxRecords /\ Time[r] \in Nat /\ Time[r] =< MaxTime
BY NetworkAnalysisAssumption, NetworkStoreAssumption DEF Records

\* The rows are in a total order.
LEMMA BeforeOrders ==
  ASSUME NEW a \in Records, NEW b \in Records
  PROVE  /\ ~Before(a, a) /\ (a = b \/ Before(a, b) \/ Before(b, a))
         /\ Before(a, b) => ~Before(b, a) /\ Time[a] =< Time[b]
         /\ ~Before(a, b) => Time[b] =< Time[a]
         /\ \A c \in Records : Before(a, b) /\ Before(b, c) => Before(a, c)
BY NetworkConstants DEF Before

LEMMA EarliestRow ==
  ASSUME NEW S \in SUBSET Records, S # {}
  PROVE  \E r \in S : \A s \in S : ~Before(s, r)
<1>0. \A r \in S : r \in Nat /\ Time[r] \in Nat
  BY NetworkConstants
<1>1. {Time[r] : r \in S} \in SUBSET Nat /\ {Time[r] : r \in S} # {}
  BY <1>0
<1>2. PICK t \in {Time[r] : r \in S} : \A u \in {Time[r] : r \in S} : t =< u
  BY <1>1, LeastNat
<1>3. {r \in S : Time[r] = t} \in SUBSET Nat /\ {r \in S : Time[r] = t} # {}
  BY <1>0, <1>2
<1>4. PICK q \in {r \in S : Time[r] = t} : \A s \in {r \in S : Time[r] = t} : q =< s
  BY <1>3, LeastNat
<1>5. ASSUME NEW s \in S PROVE ~Before(s, q)
  <2>1. t =< Time[s] /\ Time[q] = t /\ q \in Nat /\ s \in Nat /\ Time[s] \in Nat /\ t \in Nat
    BY <1>0, <1>2, <1>4
  <2>2. Time[s] = t => q =< s
    BY <1>4
  <2> QED BY <2>1, <2>2 DEF Before
<1> QED BY <1>4, <1>5

LEMMA LatestRow ==
  ASSUME NEW S \in SUBSET Records, S # {}
  PROVE  \E r \in S : \A s \in S : ~Before(r, s)
<1>0. /\ \A r \in S : r \in Int /\ Time[r] \in Int /\ r =< MaxRecords /\ Time[r] =< MaxTime
      /\ MaxTime \in Int /\ MaxRecords \in Int
  BY NetworkConstants
<1>1. {Time[r] : r \in S} \in SUBSET Int /\ {Time[r] : r \in S} # {}
      /\ \A t \in {Time[r] : r \in S} : t =< MaxTime
  BY <1>0
<1>2. PICK t \in {Time[r] : r \in S} : \A u \in {Time[r] : r \in S} : u =< t
  BY <1>0, <1>1, MaxOfBounded
<1>3. {r \in S : Time[r] = t} \in SUBSET Int /\ {r \in S : Time[r] = t} # {}
      /\ \A q \in {r \in S : Time[r] = t} : q =< MaxRecords
  BY <1>0, <1>2
<1>4. PICK q \in {r \in S : Time[r] = t} : \A s \in {r \in S : Time[r] = t} : s =< q
  BY <1>0, <1>3, MaxOfBounded
<1>5. ASSUME NEW s \in S PROVE ~Before(q, s)
  <2>1. Time[s] =< t /\ Time[q] = t /\ q \in Int /\ s \in Int /\ Time[s] \in Int /\ t \in Int
    BY <1>0, <1>2, <1>4
  <2>2. Time[s] = t => s =< q
    BY <1>4
  <2> QED BY <2>1, <2>2 DEF Before
<1> QED BY <1>4, <1>5

LEMMA SpanIs ==
  ASSUME NEW rows \in SUBSET Records, NEW r \in rows
  PROVE  /\ SpanTo(rows, r) \subseteq rows /\ r \in SpanTo(rows, r)
         /\ Hits(rows) \subseteq rows /\ Opens(rows) \subseteq Hits(rows)
         /\ \A o \in Opens(rows) : Joined(rows, o) \subseteq Hits(rows) /\ o \in Joined(rows, o)
<1>1. ~Before(r, r) /\ Time[r] - Time[r] =< Window
  BY NetworkConstants, BeforeOrders
<1>2. r \in SpanTo(rows, r) /\ SpanTo(rows, r) \subseteq rows
  BY <1>1 DEF SpanTo
<1>3. Hits(rows) \subseteq rows /\ Opens(rows) \subseteq Hits(rows)
  BY DEF Hits, Opens
<1>4. ASSUME NEW o \in Opens(rows)
      PROVE  Joined(rows, o) \subseteq Hits(rows) /\ o \in Joined(rows, o)
  <2>1. o \in Records
    BY <1>3
  <2>2. \A p \in Opens(rows) : ~(Before(o, p) /\ ~Before(o, p))
    OBVIOUS
  <2> QED BY <1>3, <2>1, <2>2, BeforeOrders DEF Joined
<1> QED BY <1>2, <1>3, <1>4

\* A row between two rows of one window is in the window of the later of them.
LEMMA WithinSpan ==
  ASSUME NEW rows \in SUBSET Records, NEW a \in rows, NEW b \in rows, NEW c \in rows,
         ~Before(b, a), ~Before(c, b), a \in SpanTo(rows, c)
  PROVE  a \in SpanTo(rows, b) /\ b \in SpanTo(rows, c)
<1>1. a \in Records /\ b \in Records /\ c \in Records
  OBVIOUS
<1>2. Time[a] =< Time[b] /\ Time[b] =< Time[c]
  BY <1>1, BeforeOrders
<1>3. Time[c] - Time[a] =< Window
  BY DEF SpanTo
<1>4. Time[b] - Time[a] =< Window /\ Time[c] - Time[b] =< Window
  BY <1>1, <1>2, <1>3, NetworkConstants
<1> QED BY <1>4 DEF SpanTo

\* A window that reaches back to a joined one is joined as well.
LEMMA ReachingJoins ==
  ASSUME NEW rows \in SUBSET Records, NEW o \in Opens(rows), NEW e \in Joined(rows, o),
         NEW f \in Hits(rows), e \in SpanTo(rows, f)
  PROVE  f \in Joined(rows, o)
<1>1. o \in Hits(rows) /\ e \in Hits(rows) /\ Hits(rows) \subseteq rows
  BY DEF Hits, Opens, Joined
<1>2. o \in Records /\ e \in Records /\ f \in Records /\ o \in rows /\ e \in rows /\ f \in rows
  BY <1>1
<1>3. ~Before(e, o) /\ ~Before(f, e)
  BY DEF Joined, SpanTo
<1>4. ~Before(f, o)
  BY <1>2, <1>3, BeforeOrders
<1>5. ASSUME NEW p \in Opens(rows), Before(o, p), ~Before(f, p) PROVE FALSE
  <2>1. p \in rows /\ p \in Records /\ p \in Hits(rows)
    BY <1>1 DEF Opens
  <2>2. Before(e, p)
    BY <1>5 DEF Joined
  <2>3. ~Before(p, e)
    BY <1>2, <2>1, <2>2, BeforeOrders
  <2>4. e \in SpanTo(rows, p)
    BY <1>2, <1>5, <2>1, <2>3, WithinSpan
  <2>5. e = p
    BY <1>1, <2>4 DEF Opens
  <2> QED BY <1>2, <2>2, <2>5, BeforeOrders
<1> QED BY <1>4, <1>5 DEF Joined

\* Every window with enough ports belongs to a finding.
LEMMA HitIsJoined ==
  ASSUME NEW rows \in SUBSET Records, NEW e \in Hits(rows)
  PROVE  \E o \in Opens(rows) : e \in Joined(rows, o)
<1> DEFINE earlier == {o \in Opens(rows) : ~Before(e, o)}
<1>1. Hits(rows) \subseteq Records /\ Opens(rows) \subseteq Hits(rows) /\ e \in rows
  BY DEF Hits, Opens
<1>2. earlier # {}
  <2>1. PICK q \in Hits(rows) : \A s \in Hits(rows) : ~Before(s, q)
    BY <1>1, EarliestRow
  <2>2. ~Before(e, q) /\ q \in Records
    BY <1>1, <2>1
  <2>3. q \in rows
    BY <2>1 DEF Hits
  <2>4. ASSUME NEW s \in SpanTo(rows, q) \cap Hits(rows) PROVE s = q
    <3>1. ~Before(q, s) /\ ~Before(s, q) /\ s \in Records
      BY <1>1, <2>1, <2>4 DEF SpanTo
    <3> QED BY <2>2, <3>1, BeforeOrders
  <2>5. SpanTo(rows, q) \cap Hits(rows) = {q}
    BY <2>1, <2>3, <2>4, SpanIs
  <2> QED BY <2>1, <2>2, <2>5 DEF Opens
<1>3. PICK o \in earlier : \A s \in earlier : ~Before(o, s)
  BY <1>1, <1>2, LatestRow
<1>4. ~\E p \in Opens(rows) : Before(o, p) /\ ~Before(e, p)
  BY <1>3
<1> QED BY <1>3, <1>4 DEF Joined

LEMMA PortsCounted ==
  ASSUME NEW S \in SUBSET Records, NEW T \in SUBSET S,
         Cardinality({Port[s] : s \in T}) >= MinPorts
  PROVE  Cardinality({Port[s] : s \in S}) >= MinPorts
<1>1. IsFiniteSet(Records)
  BY NetworkConstants, FS_Interval DEF Records
<1>2. IsFiniteSet(S)
  BY <1>1, FS_Subset
<1>3. IsFiniteSet({Port[s] : s \in S})
  <2>1. [s \in S |-> Port[s]] \in Surjection(S, {Port[s] : s \in S})
    BY DEF Surjection
  <2> QED BY <1>2, <2>1, FS_Surjection
<1>4. {Port[s] : s \in T} \subseteq {Port[s] : s \in S}
  OBVIOUS
<1>5. /\ IsFiniteSet({Port[s] : s \in T})
      /\ Cardinality({Port[s] : s \in T}) =< Cardinality({Port[s] : s \in S})
  BY <1>3, <1>4, FS_Subset
<1>6. Cardinality({Port[s] : s \in T}) \in Nat /\ Cardinality({Port[s] : s \in S}) \in Nat
  BY <1>3, <1>5, FS_CardinalityType
<1> QED BY <1>5, <1>6, NetworkConstants

\* What a case's evidence is: the findings that touch the hour.
Touches(f, h) == \E r \in f : h =< Time[r] /\ Time[r] < h + Hour
Ruled(rows, h) == UNION {f \in Findings(rows) : Touches(f, h)}

\* With more rows every window is at least as wide, and what was joined stays joined.
LEMMA MoreIsJoined ==
  ASSUME NEW more \in SUBSET Records, NEW rows \in SUBSET more, NEW o \in Opens(rows)
  PROVE  \E q \in Opens(more) : FindingFrom(rows, o) \subseteq FindingFrom(more, q)
<1>1. \A r \in rows : SpanTo(rows, r) \subseteq SpanTo(more, r) /\ SpanTo(more, r) \subseteq more
  BY DEF SpanTo
<1>2. Hits(rows) \subseteq Hits(more) /\ Hits(rows) \subseteq rows
  <2>1. ASSUME NEW r \in Hits(rows) PROVE r \in Hits(more)
    <3>1. r \in rows /\ Cardinality({Port[s] : s \in SpanTo(rows, r)}) >= MinPorts
      BY DEF Hits
    <3>2. Cardinality({Port[s] : s \in SpanTo(more, r)}) >= MinPorts
      BY <1>1, <3>1, PortsCounted
    <3> QED BY <3>1, <3>2 DEF Hits
  <2> QED BY <2>1 DEF Hits
<1>3. o \in Hits(rows) /\ o \in rows /\ o \in Records
  BY <1>2 DEF Opens
<1>4. PICK q \in Opens(more) : o \in Joined(more, q)
  BY <1>2, <1>3, HitIsJoined
<1>5. \A e \in Joined(rows, o) : e \in Joined(more, q)
  <2> DEFINE bad == {e \in Joined(rows, o) : e \notin Joined(more, q)}
  <2> SUFFICES ASSUME bad # {} PROVE FALSE
    OBVIOUS
  <2>1. Joined(rows, o) \subseteq Records /\ Joined(rows, o) \subseteq Hits(rows)
    BY <1>2 DEF Joined
  <2>2. PICK e \in bad : \A s \in bad : ~Before(s, e)
    BY <2>1, EarliestRow
  <2>3. e \in Hits(rows) /\ e \in rows /\ e \in Records /\ ~Before(e, o) /\ e # o
    BY <1>2, <1>4, <2>2 DEF Joined
  <2>4. Before(o, e)
    BY <1>3, <2>3, BeforeOrders
  <2>5. e \notin Opens(rows)
    <3>1. ~(Before(o, e) /\ ~Before(e, e)) \/ e \notin Opens(rows)
      BY <2>2 DEF Joined
    <3> QED BY <2>3, <2>4, <3>1, BeforeOrders
  <2>6. PICK f \in SpanTo(rows, e) \cap Hits(rows) : f # e
    BY <2>3, <2>5, SpanIs DEF Opens
  <2>7. f \in rows /\ f \in Records /\ ~Before(e, f)
    BY <1>2, <2>6 DEF SpanTo
  <2>8. Before(f, e)
    BY <2>3, <2>6, <2>7, BeforeOrders
  <2>9. ~Before(f, o)
    <3>1. SUFFICES ASSUME Before(f, o) PROVE FALSE
      OBVIOUS
    <3>2. ~Before(o, f)
      BY <1>3, <2>7, <3>1, BeforeOrders
    <3>3. f \in SpanTo(rows, o)
      BY <1>3, <2>3, <2>6, <2>7, <3>2, WithinSpan
    <3>4. f = o
      BY <2>6, <3>3 DEF Opens
    <3> QED BY <1>3, <3>1, <3>4, BeforeOrders
  <2>10. f \in Joined(rows, o)
    <3>1. ASSUME NEW p \in Opens(rows), Before(o, p), ~Before(f, p) PROVE FALSE
      <4>1. p \in Records
        BY <1>2 DEF Opens
      <4>2. ~Before(e, p)
        BY <2>3, <2>7, <2>8, <3>1, <4>1, BeforeOrders
      <4> QED BY <2>2, <3>1, <4>2 DEF Joined
    <3> QED BY <2>6, <2>9, <3>1 DEF Joined
  <2>11. f \in Joined(more, q)
    BY <2>2, <2>8, <2>10
  <2>12. f \in SpanTo(more, e)
    BY <1>1, <2>3, <2>6
  <2>13. e \in Joined(more, q)
    BY <1>2, <2>3, <2>11, <2>12, ReachingJoins
  <2> QED BY <2>2, <2>13
<1>6. FindingFrom(rows, o) \subseteq FindingFrom(more, q)
  <2>1. \A e \in Joined(rows, o) : SpanTo(rows, e) \subseteq SpanTo(more, e)
    BY <1>1, <1>2 DEF Joined
  <2> QED BY <1>5, <2>1 DEF FindingFrom
<1> QED BY <1>6

LEMMA RuledMonotone ==
  ASSUME NEW more \in SUBSET Records, NEW rows \in SUBSET more, NEW h
  PROVE  Ruled(rows, h) \subseteq Ruled(more, h)
<1> SUFFICES ASSUME NEW x \in Ruled(rows, h) PROVE x \in Ruled(more, h)
  OBVIOUS
<1>1. PICK o \in Opens(rows) : x \in FindingFrom(rows, o) /\ Touches(FindingFrom(rows, o), h)
  BY DEF Ruled, Findings
<1>2. PICK q \in Opens(more) : FindingFrom(rows, o) \subseteq FindingFrom(more, q)
  BY MoreIsJoined
<1>3. Touches(FindingFrom(more, q), h)
  BY <1>1, <1>2 DEF Touches
<1> QED BY <1>1, <1>2, <1>3 DEF Ruled, Findings

\* No probe among the rows is missed, ...
LEMMA ProbeIsRuled ==
  ASSUME NEW rows \in SUBSET Records, NEW S \in SUBSET rows, IsProbe(S), NEW h, Touches(S, h)
  PROVE  S \subseteq Ruled(rows, h)
<1>1. S # {}
  BY DEF Touches
<1>2. PICK e \in S : \A s \in S : ~Before(e, s)
  BY <1>1, LatestRow
<1>3. S \subseteq SpanTo(rows, e) /\ SpanTo(rows, e) \subseteq rows
  BY <1>2 DEF SpanTo, IsProbe
<1>4. e \in Hits(rows)
  BY <1>2, <1>3, PortsCounted DEF Hits, IsProbe
<1>5. PICK o \in Opens(rows) : e \in Joined(rows, o)
  BY <1>4, HitIsJoined
<1>6. S \subseteq FindingFrom(rows, o)
  BY <1>3, <1>5 DEF FindingFrom
<1>7. Touches(FindingFrom(rows, o), h)
  BY <1>6 DEF Touches
<1> QED BY <1>6, <1>7 DEF Ruled, Findings

\* ... and what is ruled is part of one.
LEMMA RuledIsProbe ==
  ASSUME NEW rows \in SUBSET Records, NEW h, NEW x \in Ruled(rows, h)
  PROVE  x \in rows /\ \E S \in SUBSET rows : x \in S /\ IsProbe(S)
<1>1. PICK o \in Opens(rows) : x \in FindingFrom(rows, o)
  BY DEF Ruled, Findings
<1>2. PICK e \in Joined(rows, o) : x \in SpanTo(rows, e)
  BY <1>1 DEF FindingFrom
<1>3. e \in Hits(rows) /\ e \in rows
  BY DEF Joined, Hits
<1>4. SpanTo(rows, e) \subseteq rows
  BY DEF SpanTo
<1>5. \A r, s \in SpanTo(rows, e) : Time[r] - Time[s] =< Window
  <2> TAKE r, s \in SpanTo(rows, e)
  <2>1. ~Before(e, r) /\ Time[e] - Time[s] =< Window
    BY DEF SpanTo
  <2>2. r \in Records /\ s \in Records /\ e \in Records
    BY <1>3, <1>4
  <2>3. Time[r] =< Time[e]
    BY <2>1, <2>2, BeforeOrders
  <2> QED BY <2>1, <2>2, <2>3, NetworkConstants
<1>6. IsProbe(SpanTo(rows, e))
  BY <1>3, <1>5 DEF IsProbe, Hits
<1> QED BY <1>2, <1>4, <1>6

(***************************************************************************)
(* The correlator: the inductive invariant.                                *)
(***************************************************************************)
Unread(lost, rows, h) == InRange(lost, h) # {} \/ Cardinality(InRange(rows, h)) > MaxContext

ArrivedBatches ==
  [id : Nat, before : 0..MaxRecords, after : 0..MaxRecords, entries : Seq(Records),
   reports : SUBSET Reports, caughtUp : BOOLEAN, seen : Nat]
ArrivalInv ==
  /\ netBatches \in Seq(ArrivedBatches) /\ receipts \in Seq(Records) /\ events \subseteq Records
  /\ \A i \in 1..Len(receipts) : receipts[i] =< Checkpoint

\* Every accepted record up to the cursor is context, or known to be lost.
TakenInv ==
  /\ cursor \in Nat /\ targets \in Nat \X Nat
  /\ cursor =< targets[1] /\ targets[1] =< Len(receipts)
  /\ context \subseteq Records /\ losses \subseteq Records /\ context \subseteq Accepted
  /\ \A i \in 1..cursor : Kind(receipts[i]) = "event" => receipts[i] \in context \cup losses

\* A window nobody made holds nothing; a clean one was judged by what it holds now, or is
\* unavailable; and as long as nothing is lost, what it once ruled it would rule again.
HourSound(window, rows, lost, evidence, h) ==
  /\ window \in {"none", "clean", "dirty"}
  /\ window = "none" => InRange(rows, h) = {}
  /\ window = "clean" => Unread(lost, rows, h) \/ evidence = Ruled(InRange(rows, h), h)
  /\ InRange(lost, h) = {} => evidence \subseteq Ruled(InRange(rows, h), h)

NetCases == [revision : Nat, active : BOOLEAN, stale : BOOLEAN, evidence : SUBSET Records]
PartOfProbe(r, rows) == \E S \in SUBSET rows : r \in S /\ IsProbe(S)
CaseGrounded(c, rows) ==
  /\ c \in NetCases /\ (c.active <=> c.evidence # {})
  /\ \A r \in c.evidence : PartOfProbe(r, rows)
JudgedInv ==
  /\ DOMAIN windows = Hours /\ DOMAIN cases = Hours
  /\ \A h \in Hours : HourSound(windows[h], context, losses, cases[h].evidence, h)
  /\ \A h \in Hours : CaseGrounded(cases[h], Accepted)

\* The console is never ahead of the outbox, and says the same at the same revision; what
\* a process has read of the outbox is what the outbox said at that revision.
NoticeRows == [hour : Hours, revision : Nat, notify : BOOLEAN]
OutboxRows == [revision : Nat, notify : BOOLEAN, pending : BOOLEAN]
ConsoleRows == [revision : Nat, notice : {"none", "queued", "cancelled"}]
HandedOver(out, shown, case) ==
  /\ out \in OutboxRows /\ shown \in ConsoleRows
  /\ out.revision = case.revision /\ shown.revision =< out.revision
  /\ shown.revision = out.revision => (shown.notice = "queued" <=> out.notify)
  /\ ~out.pending => shown.revision = out.revision
ReadOf(row, out) ==
  row.revision =< out.revision /\ (row.revision = out.revision => row.notify = out.notify)
Places == {"idle", "first", "windows", "publish", "import", "acknowledge"}
Carrying(wk, outs, shown) ==
  /\ wk \in [at : Places, rows : SUBSET NoticeRows, row : NoticeRows]
  /\ \A row \in wk.rows : ReadOf(row, outs[row.hour])
  /\ wk.at = "acknowledge" => wk.row.revision =< shown[wk.row.hour].revision
                              /\ ReadOf(wk.row, outs[wk.row.hour])
PublishInv ==
  /\ DOMAIN outbox = Hours /\ DOMAIN console = Hours /\ DOMAIN worker = Workers
  /\ \A h \in Hours : HandedOver(outbox[h], console[h], cases[h])
  /\ \A w \in Workers : Carrying(worker[w], outbox, console)

AnaInv == ArrivalInv /\ TakenInv /\ JudgedInv /\ PublishInv

-----------------------------------------------------------------------------
\* An event is put down for every hour whose analysis reads it: a window is less than an
\* hour, so no other hour is within its reach.
LEMMA HoursAround ==
  ASSUME NEW r \in Records, NEW h \in Hours, h - Window =< Time[r], Time[r] =< h + Hour + Window
  PROVE  h \in Buckets(Time[r])
<1>1. PICK H \in Nat \ {0}, W \in Nat, t \in Nat :
        H = Hour /\ W = Window /\ t = Time[r] /\ W < H
  BY NetworkConstants
<1>2. PICK p \in Int : p = t \div H /\ p * H =< t /\ t < p * H + H
  BY Divided
<1>3. h \in Nat /\ h =< MaxTime /\ h % H = 0
  BY <1>1, NetworkConstants DEF Hours
<1>4. PICK q \in Int : h = q * H
  BY <1>3, Divided
<1>5. h - W =< t /\ t =< h + H + W
  BY <1>1
<1>6. PICK s \in Int : s = p * H
  OBVIOUS
<1>7. q - p < 2
  <2>1. SUFFICES ASSUME q - p >= 2 PROVE FALSE
    OBVIOUS
  <2>2. q * H >= p * H + 2 * H
    BY <2>1, WholeHours
  <2> QED BY <1>1, <1>2, <1>4, <1>5, <1>6, <2>2
<1>8. p - q < 2
  <2>1. SUFFICES ASSUME p - q >= 2 PROVE FALSE
    OBVIOUS
  <2>2. p * H >= q * H + 2 * H
    BY <2>1, WholeHours
  <2> QED BY <1>1, <1>2, <1>4, <1>5, <1>6, <2>2
<1>9. Buckets(t) = {s} \cup (IF t - s =< W /\ s > 0 THEN {s - H} ELSE {})
                       \cup (IF t - s >= H - W /\ s + H =< MaxTime THEN {s + H} ELSE {})
  BY <1>1, <1>2, <1>6 DEF Buckets
<1>10. CASE q = p
  BY <1>1, <1>4, <1>6, <1>9, <1>10
<1>11. CASE q = p + 1
  <2>1. h = s + H
    <3>1. q * H = p * H + H
      BY <1>11
    <3> QED BY <1>4, <1>6, <3>1
  <2>2. t - s >= H - W
    BY <1>5, <2>1
  <2> QED BY <1>1, <1>3, <1>9, <2>1, <2>2
<1>12. CASE q = p - 1
  <2>1. h = s - H
    <3>1. q * H = p * H - H
      BY <1>12
    <3> QED BY <1>4, <1>6, <3>1
  <2>2. t - s =< W /\ s > 0
    BY <1>3, <1>5, <2>1
  <2> QED BY <1>1, <1>9, <2>1, <2>2
<1> QED BY <1>7, <1>8, <1>10, <1>11, <1>12

LEMMA OwnHour ==
  ASSUME NEW r \in Records
  PROVE  LET h == (Time[r] \div Hour) * Hour
         IN  h \in Hours /\ h =< Time[r] /\ Time[r] < h + Hour
<1>1. PICK H \in Nat \ {0}, t \in Nat : H = Hour /\ t = Time[r] /\ t =< MaxTime
  BY NetworkConstants
<1>2. PICK p \in Int : p = t \div H /\ p * H =< t /\ t < p * H + H
  BY Divided
<1>3. p >= 0
  <2>1. SUFFICES ASSUME p =< -1 PROVE FALSE
    OBVIOUS
  <2>2. 0 * H >= p * H + 1 * H
    BY <2>1, WholeHours
  <2> QED BY <1>2, <2>2
<1>4. p * H >= 0 /\ (p * H) % H = 0
  BY <1>3
<1> QED BY <1>1, <1>2, <1>4, NetworkConstants DEF Hours

LEMMA JoinedSeqs ==
  ASSUME NEW R, NEW s \in Seq(R), NEW t \in Seq(R)
  PROVE  /\ s \o t \in Seq(R) /\ Len(s \o t) = Len(s) + Len(t)
         /\ \A i \in 1..Len(s) : (s \o t)[i] = s[i]
         /\ \A i \in 1..(Len(s) + Len(t)) : i > Len(s) => (s \o t)[i] = t[i - Len(s)]
OBVIOUS

\* The arrival of a page of new records: the receipts grow by them.
LEMMA NewAreFresh ==
  ASSUME NEW b, b.entries \in Seq(Nat),
         \A i \in 1..Len(b.entries) : b.entries[i] \notin ToSet(receipts)
  PROVE  FreshEntries(b) = b.entries
<1> DEFINE n == Len(b.entries)
           fresh == {i \in DOMAIN b.entries : b.entries[i] \notin ToSet(receipts)}
           Rank(i) == Cardinality({j \in fresh : j =< i})
<1>0. \A k \in Nat : Cardinality(1..k) = k
  BY FS_Interval
<1>1. n \in Nat /\ DOMAIN b.entries = 1..n /\ fresh = 1..n
  OBVIOUS
<1>2. Cardinality(fresh) = n
  BY <1>0, <1>1
<1>3. ASSUME NEW i \in 1..n PROVE Rank(i) = i
  <2>1. {j \in fresh : j =< i} = 1..i
    BY <1>1
  <2>2. Cardinality(1..i) = i
    BY <1>0, <1>1
  <2> QED BY <2>1, <2>2, Zenon
<1>4. ASSUME NEW k \in 1..n PROVE (CHOOSE i \in fresh : Rank(i) = k) = k
  BY <1>1, <1>3
<1>5. FreshEntries(b) = [k \in 1..n |-> b.entries[CHOOSE i \in fresh : Rank(i) = k]]
  BY <1>2 DEF FreshEntries
<1>6. FreshEntries(b) = [k \in 1..n |-> b.entries[k]]
  BY <1>4, <1>5
<1> QED BY <1>1, <1>6

LEMMA CheckpointIs == ArrivalInv => Checkpoint \in Nat /\ Checkpoint =< MaxRecords
<1> SUFFICES ASSUME ArrivalInv PROVE Checkpoint \in Nat /\ Checkpoint =< MaxRecords
  OBVIOUS
<1>1. CASE netBatches = <<>>
  BY <1>1, NetworkConstants DEF Checkpoint, None
<1>2. CASE netBatches # <<>>
  <2>1. Len(netBatches) \in 1..Len(netBatches) /\ netBatches \in Seq(ArrivedBatches)
    BY <1>2 DEF ArrivalInv
  <2>2. netBatches[Len(netBatches)] \in ArrivedBatches
    BY <2>1
  <2>3. Checkpoint = netBatches[Len(netBatches)].after
    BY <1>2 DEF Checkpoint, Last
  <2> QED BY <2>2, <2>3, NetworkConstants DEF ArrivedBatches
<1> QED BY <1>1, <1>2

LEMMA ArriveStep ==
  ASSUME AnaInv, Arrive
  PROVE  ArrivalInv' /\ Len(receipts) =< Len(receipts') /\ Accepted \subseteq Accepted'
         /\ \A i \in 1..Len(receipts) : receipts'[i] = receipts[i]
<1>0. Checkpoint \in Nat /\ Checkpoint =< MaxRecords /\ MaxRecords \in Nat
  BY CheckpointIs, NetworkConstants DEF AnaInv
<1>1. PICK n \in {1, MaxRecords - Checkpoint} :
        /\ n > 0 /\ Checkpoint + n =< MaxRecords
        /\ Commit([id |-> Len(netBatches) + 1, before |-> Checkpoint, after |-> Checkpoint + n,
                   entries |-> [i \in 1..n |-> Checkpoint + i],
                   reports |-> IF Checkpoint + n < MaxRecords THEN {"catching_up"} ELSE {},
                   caughtUp |-> Checkpoint + n = MaxRecords, seen |-> 0])
  BY DEF Arrive
<1>2. PICK c : c = Checkpoint
  OBVIOUS
<1>3. PICK entries : entries = [i \in 1..n |-> c + i]
  OBVIOUS
<1>4. PICK reports : reports = IF c + n < MaxRecords THEN {"catching_up"} ELSE {}
  OBVIOUS
<1>5. PICK done \in BOOLEAN : done = (c + n = MaxRecords)
  OBVIOUS
<1>6. PICK b : b = [id |-> Len(netBatches) + 1, before |-> c, after |-> c + n,
                    entries |-> entries, reports |-> reports, caughtUp |-> done, seen |-> 0]
  OBVIOUS
<1>7. Commit(b)
  BY ONLY <1>1, <1>2, <1>3, <1>4, <1>5, <1>6
<1>8. n \in Nat /\ entries \in Seq(Records) /\ Len(entries) = n
      /\ \A i \in 1..n : entries[i] = c + i
  <2>1. n \in Nat
    BY <1>0, <1>1
  <2>2. \A i \in 1..n : c + i \in Records
    BY <1>0, <1>1, <1>2, <2>1 DEF Records
  <2> QED BY <1>3, <2>1, <2>2
<1>9. netBatches \in Seq(ArrivedBatches) /\ receipts \in Seq(Records) /\ events \subseteq Records
      /\ \A i \in 1..Len(receipts) : receipts[i] =< c
  BY <1>2 DEF AnaInv, ArrivalInv
<1>10. b \in ArrivedBatches
  <2>1. reports \subseteq Reports
    BY <1>4 DEF Reports
  <2>2. c + n \in 0..MaxRecords /\ c \in 0..MaxRecords /\ Len(netBatches) + 1 \in Nat
    BY <1>0, <1>1, <1>2, <1>8, <1>9
  <2> QED BY <1>6, <1>8, <2>1, <2>2 DEF ArrivedBatches
<1>11. FreshEntries(b) = entries
  <2>1. b.entries = entries
    BY <1>6
  <2>2. entries \in Seq(Nat)
    BY <1>8, NetworkConstants
  <2>3. ASSUME NEW i \in 1..n, entries[i] \in ToSet(receipts) PROVE FALSE
    <3>1. PICK k \in 1..Len(receipts) : receipts[k] = entries[i]
      BY <1>9, <2>3 DEF ToSet
    <3> QED BY <1>0, <1>2, <1>8, <1>9, <3>1
  <2> QED BY <1>8, <2>1, <2>2, <2>3, NewAreFresh
<1>12. /\ netBatches' = Append(netBatches, b) /\ receipts' = receipts \o entries
       /\ events' = (events \ expired) \cup {r \in ToSet(entries) : Kind(r) = "event"}
  BY <1>7, <1>11 DEF Commit
<1>13. netBatches' \in Seq(ArrivedBatches) /\ Len(netBatches') = Len(netBatches) + 1
       /\ netBatches'[Len(netBatches')] = b
  BY <1>9, <1>10, <1>12
<1>14. Checkpoint' = c + n
  <2>1. netBatches' # <<>>
    BY <1>9, <1>13
  <2>2. Checkpoint' = netBatches'[Len(netBatches')].after
    BY <2>1 DEF Checkpoint, Last
  <2> QED BY <1>6, <1>13, <2>2
<1>15. /\ receipts' \in Seq(Records) /\ Len(receipts') = Len(receipts) + n
       /\ \A i \in 1..Len(receipts) : receipts'[i] = receipts[i]
       /\ \A i \in 1..(Len(receipts) + n) :
            i > Len(receipts) => receipts'[i] = entries[i - Len(receipts)]
  BY <1>8, <1>9, <1>12, JoinedSeqs
<1>16. \A i \in 1..Len(receipts') : receipts'[i] =< c + n
  <2> TAKE i \in 1..Len(receipts')
  <2>1. CASE i =< Len(receipts)
    <3>1. i \in 1..Len(receipts) /\ receipts[i] \in Records
      BY <1>9, <1>15, <2>1
    <3>2. receipts[i] \in Nat
      BY <3>1, NetworkConstants
    <3> QED BY <1>0, <1>2, <1>8, <1>9, <1>15, <3>1, <3>2
  <2>2. CASE i > Len(receipts)
    <3>1. Len(receipts) \in Nat
      BY <1>9
    <3>2. i - Len(receipts) \in 1..n /\ i \in 1..(Len(receipts) + n)
      BY <1>8, <1>15, <2>2, <3>1
    <3>3. receipts'[i] = c + (i - Len(receipts))
      BY <1>8, <1>15, <2>2, <3>2
    <3> QED BY <1>0, <1>2, <1>8, <3>1, <3>2, <3>3
  <2> QED BY <1>9, <1>15, <2>1, <2>2
<1>17. events' \subseteq Records
  <2>1. ToSet(entries) \subseteq Records
    BY <1>8 DEF ToSet
  <2> QED BY <1>9, <1>12, <2>1
<1>18. Accepted \subseteq Accepted'
  <2> SUFFICES ASSUME NEW x \in Accepted PROVE x \in Accepted'
    OBVIOUS
  <2>1. PICK i \in 1..Len(receipts) : receipts[i] = x
    BY <1>9 DEF Accepted, ToSet
  <2>2. i \in 1..Len(receipts') /\ receipts'[i] = x
    BY <1>8, <1>9, <1>15, <2>1
  <2>3. x \in ToSet(receipts')
    BY <1>15, <2>2 DEF ToSet
  <2>4. Kind(x) = "event"
    BY DEF Accepted
  <2> QED BY <2>3, <2>4 DEF Accepted, Kind
<1> QED BY <1>8, <1>9, <1>13, <1>14, <1>15, <1>16, <1>17, <1>18 DEF ArrivalInv

\* What a later, larger store keeps of the invariant.
LEMMA LaterAccepted ==
  ASSUME NEW c, NEW rows, NEW more, rows \subseteq more, CaseGrounded(c, rows)
  PROVE  CaseGrounded(c, more)
BY DEF CaseGrounded, PartOfProbe

LEMMA ArriveKeeps == ASSUME AnaInv, Arrive PROVE AnaInv'
<1>1. /\ ArrivalInv' /\ Len(receipts) =< Len(receipts') /\ Accepted \subseteq Accepted'
      /\ \A i \in 1..Len(receipts) : receipts'[i] = receipts[i]
  BY ArriveStep
<1>2. UNCHANGED <<cursor, batchCursor, targets, context, losses, windows, cases, outbox, console,
                  worker>>
  BY DEF Arrive
<1>3. Len(receipts) \in Nat /\ Len(receipts') \in Nat
  BY <1>1 DEF AnaInv, ArrivalInv
<1>4. TakenInv'
  <2>1. ASSUME NEW i \in 1..cursor', Kind(receipts'[i]) = "event"
        PROVE  receipts'[i] \in context' \cup losses'
    <3>1. i \in 1..cursor /\ i \in 1..Len(receipts)
      BY <1>2, <1>3, <2>1 DEF AnaInv, TakenInv
    <3>2. Kind(receipts[i]) = "event"
      BY <1>1, <2>1, <3>1 DEF Kind
    <3> QED BY <1>1, <1>2, <3>1, <3>2 DEF AnaInv, TakenInv
  <2>2. targets[1] \in Nat
    BY DEF AnaInv, TakenInv
  <2>3. targets'[1] =< Len(receipts')
    BY <1>1, <1>2, <1>3, <2>2 DEF AnaInv, TakenInv
  <2>4. context' \subseteq Accepted'
    BY <1>1, <1>2 DEF AnaInv, TakenInv
  <2> QED BY <1>2, <2>1, <2>3, <2>4 DEF AnaInv, TakenInv
<1>5. JudgedInv'
  <2>1. \A h \in Hours : CaseGrounded(cases[h], Accepted')
    BY <1>1, LaterAccepted DEF AnaInv, JudgedInv
  <2> QED BY <1>2, <2>1 DEF AnaInv, JudgedInv
<1>6. PublishInv'
  BY <1>2 DEF AnaInv, PublishInv
<1> QED BY <1>1, <1>4, <1>5, <1>6 DEF AnaInv

\* What a step that leaves the store alone keeps.
LEMMA StoreStays ==
  ASSUME ArrivalInv, UNCHANGED <<netBatches, receipts, events>>
  PROVE  ArrivalInv' /\ Accepted' = Accepted
BY DEF ArrivalInv, Accepted, Kind, Checkpoint

-----------------------------------------------------------------------------
(* The intake. *)

LEMMA RangeOf ==
  ASSUME NEW rows, NEW h
  PROVE  /\ InRange(rows, h) \subseteq rows
         /\ \A more : rows \subseteq more => InRange(rows, h) \subseteq InRange(more, h)
BY DEF InRange

\* One hour's window after an intake that adds `made` to the context, moves `pruned` from
\* it to the losses and finds `missing` lost.
LEMMA HourTaken ==
  ASSUME NEW h \in Hours, NEW win, NEW ev, NEW cx \in SUBSET Records, NEW ls \in SUBSET Records,
         NEW made \in SUBSET Records, NEW missing \in SUBSET Records, NEW pruned \in SUBSET cx,
         HourSound(win, cx, ls, ev, h), NEW new,
         new = IF \/ \E r \in made : h \in Buckets(Time[r])
                  \/ win # "none" /\ \E r \in missing \cup pruned : h \in Buckets(Time[r])
               THEN "dirty" ELSE win
  PROVE  HourSound(new, (cx \cup made) \ pruned, ls \cup missing \cup pruned, ev, h)
<1>1. PICK cy : cy = (cx \cup made) \ pruned
  OBVIOUS
<1>2. PICK lt : lt = ls \cup missing \cup pruned
  OBVIOUS
<1>3. cy \in SUBSET Records /\ lt \in SUBSET Records
  BY <1>1, <1>2
<1>4. InRange(lt, h) = {} => ev \subseteq Ruled(InRange(cy, h), h)
  <2> SUFFICES ASSUME InRange(lt, h) = {} PROVE ev \subseteq Ruled(InRange(cy, h), h)
    OBVIOUS
  <2>1. InRange(ls, h) = {} /\ InRange(pruned, h) = {}
    BY <1>2 DEF InRange
  <2>2. InRange(cx, h) \subseteq InRange(cy, h)
    BY <1>1, <2>1 DEF InRange
  <2>3. InRange(cy, h) \in SUBSET Records
    BY <1>3, RangeOf
  <2>4. Ruled(InRange(cx, h), h) \subseteq Ruled(InRange(cy, h), h)
    BY <2>2, <2>3, RuledMonotone
  <2> QED BY <2>1, <2>4 DEF HourSound
<1>5. CASE new = "dirty"
  BY <1>1, <1>2, <1>4, <1>5 DEF HourSound
<1>6. CASE new # "dirty"
  <2>1. new = win /\ (\A r \in made : h \notin Buckets(Time[r]))
        /\ (win # "none" => \A r \in missing \cup pruned : h \notin Buckets(Time[r]))
    BY <1>6
  <2>2. \A S \in SUBSET Records : (\A r \in S : h \notin Buckets(Time[r])) => InRange(S, h) = {}
    <3> TAKE S \in SUBSET Records
    <3> SUFFICES ASSUME \A r \in S : h \notin Buckets(Time[r]), NEW r \in InRange(S, h) PROVE FALSE
      OBVIOUS
    <3>1. r \in S /\ h - Window =< Time[r] /\ Time[r] =< h + Hour + Window
      BY DEF InRange
    <3> QED BY <3>1, HoursAround
  <2>3. InRange(made, h) = {}
    BY <2>1, <2>2
  <2>4. CASE win = "none"
    <3>1. InRange(cx, h) = {}
      BY <2>4 DEF HourSound
    <3>2. InRange(cy, h) = {}
      BY <1>1, <2>3, <3>1 DEF InRange
    <3> QED BY <1>1, <1>2, <1>4, <2>1, <2>4, <3>2 DEF HourSound
  <2>5. CASE win # "none"
    <3>1. missing \cup pruned \in SUBSET Records
      OBVIOUS
    <3>2. InRange(missing \cup pruned, h) = {}
      BY <2>1, <2>2, <2>5, <3>1
    <3>3. InRange(cy, h) = InRange(cx, h) /\ InRange(lt, h) = InRange(ls, h)
      BY <1>1, <1>2, <2>3, <3>2 DEF InRange
    <3> QED BY <1>1, <1>2, <1>4, <2>1, <3>3 DEF HourSound, Unread
  <2> QED BY <2>4, <2>5
<1> QED BY <1>5, <1>6

LEMMA IntakeKeeps == ASSUME AnaInv, NEW w \in Workers, Intake(w) PROVE AnaInv'
<1>1. UNCHANGED storeVars /\ UNCHANGED <<cases, outbox, console>> /\ targets' = Goal
  BY DEF Intake
<1>2. PICK r, b : TakeIn(r, b) /\ r = Advance(cursor, Goal[1])
  BY DEF Intake
<1>3. ArrivalInv' /\ Accepted' = Accepted /\ receipts' = receipts
  BY <1>1, StoreStays DEF AnaInv, storeVars
<1>4. /\ cursor \in Nat /\ targets \in Nat \X Nat /\ Len(receipts) \in Nat
      /\ cursor =< targets[1] /\ targets[1] =< Len(receipts)
      /\ IntakeLimit \in Nat /\ Len(netBatches) \in Nat
  BY NetworkAnalysisAssumption DEF AnaInv, TakenInv, ArrivalInv
<1>5. Goal \in Nat \X Nat /\ cursor =< Goal[1] /\ Goal[1] =< Len(receipts)
  <2>1. Goal = <<Len(receipts), Len(netBatches)>> \/ Goal = targets
    BY DEF Goal
  <2> QED BY <1>4, <2>1
<1>6. r \in Nat /\ cursor =< r /\ r =< Goal[1]
  <2>1. PICK g \in Nat : g = Goal[1]
    BY <1>5
  <2> QED BY <1>2, <1>4, <1>5, <2>1 DEF Advance
<1> DEFINE accepted == {e \in {receipts[i] : i \in (cursor + 1)..r} : Kind(e) = "event"}
           made == accepted \cap events
           missing == accepted \ events
           pruned == context \cap expired
<1>7. /\ cursor' = r /\ context' = (context \cup made) \ pruned
      /\ losses' = losses \cup missing \cup pruned
      /\ windows' = Mark(made, missing \cup pruned)
  BY <1>2 DEF TakeIn
<1>8. accepted \in SUBSET Records /\ accepted \subseteq Accepted
  <2>1. ASSUME NEW e \in accepted PROVE e \in Records /\ e \in Accepted
    <3>1. PICK i \in (cursor + 1)..r : e = receipts[i]
      OBVIOUS
    <3>2. i \in 1..Len(receipts)
      BY <1>4, <1>5, <1>6
    <3>3. receipts \in Seq(Records)
      BY DEF AnaInv, ArrivalInv
    <3>4. e \in Records /\ e \in ToSet(receipts)
      BY <3>1, <3>2, <3>3 DEF ToSet
    <3> QED BY <3>4 DEF Accepted
  <2> QED BY <2>1
<1>9. TakenInv'
  <2>1. targets' \in Nat \X Nat /\ cursor' =< targets'[1] /\ targets'[1] =< Len(receipts')
        /\ cursor' \in Nat
    BY <1>1, <1>3, <1>5, <1>6, <1>7
  <2>2. context' \subseteq Records /\ losses' \subseteq Records /\ context' \subseteq Accepted'
    BY <1>3, <1>7, <1>8 DEF AnaInv, TakenInv
  <2>3. ASSUME NEW i \in 1..cursor', Kind(receipts'[i]) = "event"
        PROVE  receipts'[i] \in context' \cup losses'
    <3>1. Kind(receipts[i]) = "event" /\ receipts'[i] = receipts[i]
      BY <1>3, <2>3 DEF Kind
    <3>2. CASE i =< cursor
      <4>1. i \in 1..cursor
        BY <1>4, <1>6, <1>7, <3>2
      <4>2. receipts[i] \in context \cup losses
        BY <3>1, <4>1 DEF AnaInv, TakenInv
      <4> QED BY <1>7, <3>1, <4>2
    <3>3. CASE i > cursor
      <4>1. i \in (cursor + 1)..r
        BY <1>4, <1>6, <1>7, <3>3
      <4>2. receipts[i] \in accepted
        BY <3>1, <4>1
      <4>3. receipts[i] \in made \/ receipts[i] \in missing
        BY <4>2
      <4> HIDE DEF accepted, made, missing, pruned
      <4>4. pruned \subseteq losses'
        BY <1>7
      <4> QED BY <1>7, <3>1, <4>3, <4>4
    <3> QED BY <1>4, <1>6, <1>7, <3>2, <3>3
  <2> QED BY <2>1, <2>2, <2>3 DEF TakenInv
<1>10. JudgedInv'
  <2>1. made \in SUBSET Records /\ missing \in SUBSET Records /\ pruned \in SUBSET context
    BY <1>8
  <2>2. context \in SUBSET Records /\ losses \in SUBSET Records
    BY DEF AnaInv, TakenInv
  <2> HIDE DEF accepted, made, missing, pruned
  <2>3. DOMAIN windows' = Hours /\ DOMAIN cases' = Hours
    BY <1>1, <1>7 DEF Mark, AnaInv, JudgedInv
  <2>4. ASSUME NEW h \in Hours
        PROVE  HourSound(windows'[h], context', losses', cases'[h].evidence, h)
    <3>1. HourSound(windows[h], context, losses, cases[h].evidence, h)
      BY DEF AnaInv, JudgedInv
    <3>2. windows'[h] = IF \/ \E e \in made : h \in Buckets(Time[e])
                           \/ windows[h] # "none" /\ \E e \in missing \cup pruned : h \in Buckets(Time[e])
                        THEN "dirty" ELSE windows[h]
      BY <1>7 DEF Mark
    <3>3. HourSound(windows'[h], (context \cup made) \ pruned, losses \cup missing \cup pruned,
                    cases[h].evidence, h)
      BY <2>1, <2>2, <3>1, <3>2, HourTaken
    <3> QED BY <1>1, <1>7, <3>3
  <2>5. \A h \in Hours : CaseGrounded(cases'[h], Accepted')
    BY <1>1, <1>3 DEF AnaInv, JudgedInv
  <2> QED BY <2>3, <2>4, <2>5 DEF JudgedInv
<1>11. PublishInv'
  <2>1. PICK at \in {"first", "publish"} : worker' = [worker EXCEPT ![w].at = at]
    <3>1. PICK at : /\ at = IF cursor' >= targets'[1] /\ batchCursor' >= targets'[2]
                            THEN "first" ELSE "publish"
                    /\ worker' = [worker EXCEPT ![w].at = at]
      BY DEF Intake
    <3> QED BY <3>1
  <2>2. Carrying(worker[w], outbox, console) /\ DOMAIN worker = Workers
    BY DEF AnaInv, PublishInv
  <2>3. PICK v : v = [worker[w] EXCEPT !.at = at]
    OBVIOUS
  <2>4. v.at = at /\ v.rows = worker[w].rows
        /\ v \in [at : Places, rows : SUBSET NoticeRows, row : NoticeRows]
    BY <2>1, <2>2, <2>3 DEF Carrying, Places
  <2>5. Carrying(v, outbox, console)
    BY <2>1, <2>2, <2>4 DEF Carrying
  <2>6. \A u \in Workers : worker'[u] = IF u = w THEN v ELSE worker[u]
    BY <2>1, <2>2, <2>3
  <2>7. DOMAIN worker' = Workers
    BY <2>1, <2>2
  <2> QED BY <1>1, <2>5, <2>6, <2>7 DEF AnaInv, PublishInv
<1> QED BY <1>3, <1>9, <1>10, <1>11 DEF AnaInv

-----------------------------------------------------------------------------
(* One window is analysed. *)

LEMMA SelectedIsRuled ==
  ASSUME NEW h \in Hours, context \subseteq Records
  PROVE  Selected(h) = Ruled(InRange(context, h), h)
<1>1. PICK rows \in SUBSET Records : rows = InRange(context, h)
  BY RangeOf
<1>2. PICK e : e = [rows |-> rows, hour |-> h, evidence |-> Ruled(rows, h)]
  OBVIOUS
<1>3. e \in Rulings
  <2>1. Rulings = {[rows |-> p, hour |-> q, evidence |-> Ruled(p, q)] : p \in SUBSET Records, q \in Hours}
    BY DEF Rulings, Ruled, Touches
  <2>2. e \in {[rows |-> p, hour |-> q, evidence |-> Ruled(p, q)] : p \in SUBSET Records, q \in Hours}
    BY ONLY rows \in SUBSET Records, h \in Hours, <1>2
  <2> QED BY <2>1, <2>2
<1>4. e.rows = InRange(context, h) /\ e.hour = h
  BY <1>1, <1>2
<1>5. PICK f : f = CHOOSE d \in Rulings : d.rows = InRange(context, h) /\ d.hour = h
  OBVIOUS
<1>6. f \in Rulings /\ f.rows = InRange(context, h) /\ f.hour = h
  BY <1>3, <1>4, <1>5
<1>7. PICK rows2 \in SUBSET Records, h2 \in Hours :
        f = [rows |-> rows2, hour |-> h2, evidence |-> Ruled(rows2, h2)]
  BY <1>6 DEF Rulings, Ruled, Touches
<1>8. f.evidence = Ruled(rows2, h2) /\ rows2 = InRange(context, h) /\ h2 = h
  BY <1>6, <1>7
<1> QED BY <1>5, <1>8 DEF Selected

\* The case after an analysis: its evidence is what it was or more, and a case that
\* changed has the next revision.
LEMMA NextCaseIs ==
  ASSUME AnaInv, NEW h \in Hours
  PROVE  LET new == NextCase(h)
             old == cases[h]
         IN  /\ new \in NetCases /\ (new.active <=> new.evidence # {})
             /\ old.evidence \subseteq new.evidence
             /\ new.evidence = old.evidence \/ new.evidence = Ruled(InRange(context, h), h)
             /\ HourSound("clean", context, losses, new.evidence, h)
             /\ new # old => new.revision = old.revision + 1
<1>1. PICK old : old = cases[h]
  OBVIOUS
<1>2. PICK sel : sel = Selected(h)
  OBVIOUS
<1>3. /\ old \in NetCases /\ (old.active <=> old.evidence # {})
      /\ HourSound(windows[h], context, losses, old.evidence, h)
  BY <1>1 DEF AnaInv, JudgedInv, CaseGrounded
<1>4. context \subseteq Records
  BY DEF AnaInv, TakenInv
<1>5. sel = Ruled(InRange(context, h), h) /\ sel \subseteq Records
  <2>1. InRange(context, h) \in SUBSET Records
    BY <1>4, RangeOf
  <2>2. \A x \in Ruled(InRange(context, h), h) : x \in Records
    BY <2>1, RuledIsProbe
  <2> QED BY <1>2, <1>4, <2>2, SelectedIsRuled
<1>6. Unavailable(h) <=> Unread(losses, context, h)
  BY DEF Unavailable, Unread
<1>7. PICK new : new = IF Unavailable(h) THEN [old EXCEPT !.stale = (old # NoCase)]
                       ELSE [old EXCEPT !.stale = FALSE, !.evidence = sel, !.active = (sel # {})]
  OBVIOUS
<1>8. NextCase(h) = IF new = old THEN old ELSE [new EXCEPT !.revision = old.revision + 1]
  BY <1>1, <1>2, <1>7 DEF NextCase
<1>9. /\ new \in NetCases /\ (new.active <=> new.evidence # {})
      /\ old.evidence \subseteq new.evidence
      /\ new.evidence = old.evidence \/ new.evidence = Ruled(InRange(context, h), h)
      /\ HourSound("clean", context, losses, new.evidence, h)
      /\ new.revision = old.revision
  <2>1. CASE Unavailable(h)
    <3>1. PICK stale \in BOOLEAN : stale = (old # NoCase)
      OBVIOUS
    <3>2. new = [old EXCEPT !.stale = stale]
      BY <1>7, <2>1, <3>1
    <3>3. new \in NetCases /\ new.evidence = old.evidence /\ new.active = old.active
          /\ new.revision = old.revision
      BY <1>3, <3>2 DEF NetCases
    <3> QED BY <1>3, <1>6, <2>1, <3>3 DEF HourSound
  <2>2. CASE ~Unavailable(h)
    <3>1. PICK act \in BOOLEAN : act = (sel # {})
      OBVIOUS
    <3>2. new = [old EXCEPT !.stale = FALSE, !.evidence = sel, !.active = act]
      BY <1>7, <2>2, <3>1
    <3>3. new \in NetCases /\ new.evidence = sel /\ new.active = act /\ new.revision = old.revision
      BY <1>3, <1>5, <3>2 DEF NetCases
    <3>4. old.evidence \subseteq sel
      BY <1>3, <1>5, <1>6, <2>2 DEF HourSound, Unread
    <3>5. HourSound("clean", context, losses, sel, h)
      BY <1>5 DEF HourSound
    <3> QED BY <1>5, <3>1, <3>3, <3>4, <3>5
  <2> QED BY <2>1, <2>2
<1>10. CASE new = old
  BY <1>1, <1>8, <1>9, <1>10
<1>11. CASE new # old
  <2>1. PICK v \in Nat : v = old.revision + 1
    BY <1>3 DEF NetCases
  <2>2. NextCase(h) = [new EXCEPT !.revision = v]
    BY <1>8, <1>11, <2>1
  <2>3. PICK c : c = NextCase(h)
    OBVIOUS
  <2>4. c \in NetCases /\ c.revision = v /\ c.active = new.active /\ c.evidence = new.evidence
    BY <1>9, <2>2, <2>3 DEF NetCases
  <2> QED BY <1>1, <1>9, <2>1, <2>3, <2>4
<1> QED BY <1>10, <1>11

LEMMA CaseStaysGrounded ==
  ASSUME AnaInv, NEW h \in Hours
  PROVE  CaseGrounded(NextCase(h), Accepted)
<1>1. PICK new : new = NextCase(h)
  OBVIOUS
<1>2. /\ new \in NetCases /\ (new.active <=> new.evidence # {})
      /\ new.evidence = cases[h].evidence \/ new.evidence = Ruled(InRange(context, h), h)
  BY <1>1, NextCaseIs
<1>3. ASSUME NEW r \in new.evidence PROVE PartOfProbe(r, Accepted)
  <2>1. CASE new.evidence = cases[h].evidence
    BY <1>3, <2>1 DEF AnaInv, JudgedInv, CaseGrounded
  <2>2. CASE new.evidence = Ruled(InRange(context, h), h)
    <3>1. InRange(context, h) \in SUBSET Records /\ InRange(context, h) \subseteq Accepted
      BY RangeOf DEF AnaInv, TakenInv
    <3>2. \E S \in SUBSET InRange(context, h) : r \in S /\ IsProbe(S)
      BY <1>3, <2>2, <3>1, RuledIsProbe
    <3> QED BY <3>1, <3>2 DEF PartOfProbe
  <2> QED BY <1>2, <2>1, <2>2
<1> QED BY <1>1, <1>2, <1>3 DEF CaseGrounded

\* A process that holds rows of the outbox still holds what the outbox said when it has
\* a newer revision.
LEMMA CarryingLater ==
  ASSUME NEW wk, NEW outs, NEW more, NEW shown,
         Carrying(wk, outs, shown), \A h \in Hours : outs[h].revision \in Nat,
         \A h \in Hours : more[h] = outs[h]
                          \/ (more[h].revision \in Nat /\ more[h].revision > outs[h].revision)
  PROVE  Carrying(wk, more, shown)
<1>1. ASSUME NEW row \in NoticeRows, ReadOf(row, outs[row.hour]) PROVE ReadOf(row, more[row.hour])
  <2>1. row.hour \in Hours /\ row.revision \in Nat
    BY <1>1 DEF NoticeRows
  <2> QED BY <1>1, <2>1 DEF ReadOf
<1>2. wk.rows \subseteq NoticeRows /\ wk.row \in NoticeRows
  BY DEF Carrying
<1> QED BY <1>1, <1>2 DEF Carrying

LEMMA AnalyzeKeeps == ASSUME AnaInv, NEW w \in Workers, AnalyzeWindow(w) PROVE AnaInv'
<1>1. PICK h \in Hours :
        /\ windows' = [windows EXCEPT ![h] = "clean"]
        /\ cases' = [cases EXCEPT ![h] = NextCase(h)]
        /\ outbox' = IF NextCase(h) = cases[h] THEN outbox
                     ELSE [outbox EXCEPT ![h] = [revision |-> NextCase(h).revision,
                                                 notify |-> Announced(NextCase(h)), pending |-> TRUE]]
  BY DEF AnalyzeWindow
<1>2. UNCHANGED storeVars /\ UNCHANGED <<cursor, targets, context, losses, console>>
      /\ worker' = [worker EXCEPT ![w].at = "windows"]
  BY DEF AnalyzeWindow
<1>3. ArrivalInv' /\ Accepted' = Accepted /\ receipts' = receipts
  BY <1>2, StoreStays DEF AnaInv, storeVars
<1>4. TakenInv'
  BY <1>2, <1>3 DEF AnaInv, TakenInv
<1>5. PICK new : new = NextCase(h)
  OBVIOUS
<1>6. /\ new \in NetCases /\ HourSound("clean", context, losses, new.evidence, h)
      /\ new # cases[h] => new.revision = cases[h].revision + 1
  BY <1>5, NextCaseIs
<1>7. JudgedInv'
  <2>1. DOMAIN windows' = Hours /\ DOMAIN cases' = Hours
    BY <1>1 DEF AnaInv, JudgedInv
  <2>2. \A g \in Hours : /\ windows'[g] = IF g = h THEN "clean" ELSE windows[g]
                         /\ cases'[g] = IF g = h THEN new ELSE cases[g]
    BY <1>1, <1>5 DEF AnaInv, JudgedInv
  <2>3. CaseGrounded(new, Accepted)
    BY <1>5, CaseStaysGrounded
  <2> QED BY <1>2, <1>3, <1>6, <2>1, <2>2, <2>3 DEF AnaInv, JudgedInv
<1>8. PublishInv'
  <2>1. /\ DOMAIN outbox = Hours /\ DOMAIN console = Hours /\ DOMAIN worker = Workers
        /\ \A g \in Hours : HandedOver(outbox[g], console[g], cases[g])
        /\ \A u \in Workers : Carrying(worker[u], outbox, console)
        /\ DOMAIN cases = Hours
    BY DEF AnaInv, PublishInv, JudgedInv
  <2>2. PICK say \in BOOLEAN : say = Announced(new)
    BY <1>6 DEF Announced, NetCases
  <2>3. PICK out : out = IF new = cases[h] THEN outbox[h]
                         ELSE [revision |-> new.revision, notify |-> say, pending |-> TRUE]
    OBVIOUS
  <2>4. DOMAIN outbox' = Hours /\ \A g \in Hours : outbox'[g] = IF g = h THEN out ELSE outbox[g]
    BY <1>1, <1>5, <2>1, <2>2, <2>3
  <2>5. \A g \in Hours : cases'[g] = IF g = h THEN new ELSE cases[g]
    BY <1>1, <1>5, <2>1
  <2>6. \A g \in Hours : outbox[g].revision \in Nat /\ console[g].revision \in Nat
    BY <2>1 DEF HandedOver, OutboxRows, ConsoleRows
  <2>7. HandedOver(out, console[h], new) /\ (out = outbox[h] \/ out.revision > outbox[h].revision)
        /\ out.revision \in Nat
    <3>1. CASE new = cases[h]
      BY <2>1, <2>3, <2>6, <3>1
    <3>2. CASE new # cases[h]
      <4>1. out.revision = new.revision /\ out.pending = TRUE /\ out \in OutboxRows
        BY <1>6, <2>3, <3>2 DEF OutboxRows, NetCases
      <4>2. new.revision = outbox[h].revision + 1 /\ console[h].revision =< outbox[h].revision
            /\ console[h] \in ConsoleRows
        BY <1>6, <2>1, <3>2 DEF HandedOver
      <4> QED BY <2>6, <4>1, <4>2 DEF HandedOver
    <3> QED BY <3>1, <3>2
  <2>8. \A g \in Hours : HandedOver(outbox'[g], console[g], cases'[g])
    BY <2>1, <2>4, <2>5, <2>7
  <2>9. \A u \in Workers : Carrying(worker[u], outbox', console)
    <3>1. \A g \in Hours : outbox'[g] = outbox[g]
             \/ (outbox'[g].revision \in Nat /\ outbox'[g].revision > outbox[g].revision)
      BY <2>4, <2>7
    <3> QED BY <2>1, <2>6, <3>1, CarryingLater
  <2>10. PICK v : v = [worker[w] EXCEPT !.at = "windows"]
    OBVIOUS
  <2>11. Carrying(v, outbox', console)
    <3>1. v.at = "windows" /\ v.rows = worker[w].rows
          /\ v \in [at : Places, rows : SUBSET NoticeRows, row : NoticeRows]
      BY <2>1, <2>10 DEF Carrying, Places
    <3> QED BY <2>9, <3>1 DEF Carrying
  <2>12. DOMAIN worker' = Workers /\ \A u \in Workers : worker'[u] = IF u = w THEN v ELSE worker[u]
    BY <1>2, <2>1, <2>10
  <2> QED BY <1>2, <2>1, <2>4, <2>8, <2>9, <2>11, <2>12 DEF PublishInv
<1> QED BY <1>3, <1>4, <1>7, <1>8 DEF AnaInv

-----------------------------------------------------------------------------
(* Publishing, in two databases. *)

LEMMA NoRowIs == NoRow \in NoticeRows /\ NoRow.hour \in Hours
<1>1. 0 \in Hours
  BY NetworkConstants DEF Hours
<1> QED BY <1>1 DEF NoRow, NoticeRows

\* A step of one process that leaves the records, the cases and all but its own state,
\* the outbox and the console alone.
LEMMA PublishStep ==
  ASSUME AnaInv, NEW w \in Workers, NEW v, worker' = [worker EXCEPT ![w] = v],
         UNCHANGED storeVars, UNCHANGED <<cursor, targets, context, losses, windows, cases>>,
         DOMAIN outbox' = Hours, DOMAIN console' = Hours,
         \A h \in Hours : HandedOver(outbox'[h], console'[h], cases[h]),
         \A u \in Workers : Carrying(worker[u], outbox', console'),
         Carrying(v, outbox', console')
  PROVE  AnaInv'
<1>1. ArrivalInv' /\ Accepted' = Accepted /\ receipts' = receipts
  BY StoreStays DEF AnaInv, storeVars
<1>2. TakenInv'
  BY <1>1 DEF AnaInv, TakenInv
<1>3. JudgedInv'
  BY <1>1 DEF AnaInv, JudgedInv
<1>4. DOMAIN worker = Workers
  BY DEF AnaInv, PublishInv
<1>5. DOMAIN worker' = Workers /\ \A u \in Workers : worker'[u] = IF u = w THEN v ELSE worker[u]
  BY <1>4
<1>6. PublishInv'
  BY <1>5 DEF PublishInv
<1> QED BY <1>1, <1>2, <1>3, <1>6 DEF AnaInv

LEMMA OnlyItsWorker ==
  ASSUME AnaInv, NEW w \in Workers, NEW v, worker' = [worker EXCEPT ![w] = v],
         UNCHANGED storeVars,
         UNCHANGED <<cursor, targets, context, losses, windows, cases, outbox, console>>,
         Carrying(v, outbox, console)
  PROVE  AnaInv'
<1>1. /\ DOMAIN outbox' = Hours /\ DOMAIN console' = Hours
      /\ \A h \in Hours : HandedOver(outbox'[h], console'[h], cases[h])
      /\ \A u \in Workers : Carrying(worker[u], outbox', console')
  BY DEF AnaInv, PublishInv
<1> QED BY <1>1, PublishStep

LEMMA IdleKeeps == ASSUME AnaInv, NEW w \in Workers, TickDone(w) \/ CrashWorker(w) PROVE AnaInv'
<1>1. /\ worker' = [worker EXCEPT ![w] = Idle] /\ UNCHANGED storeVars
      /\ UNCHANGED <<cursor, targets, context, losses, windows, cases, outbox, console>>
  BY DEF TickDone, CrashWorker
<1>2. Carrying(Idle, outbox, console)
  BY NoRowIs DEF Carrying, Idle, Places
<1> QED BY <1>1, <1>2, OnlyItsWorker

RowAt(out, h) == [hour |-> h, revision |-> out[h].revision, notify |-> out[h].notify]

LEMMA ReadKeeps == ASSUME AnaInv, NEW w \in Workers, PublishRead(w) PROVE AnaInv'
<1>1. PICK rows : rows = {RowAt(outbox, h) : h \in {g \in Hours : outbox[g].pending}}
  OBVIOUS
<1>2. PICK v : v = [at |-> "import", row |-> NoRow, rows |-> rows]
  OBVIOUS
<1>3. /\ worker' = [worker EXCEPT ![w] = v] /\ UNCHANGED storeVars
      /\ UNCHANGED <<cursor, targets, context, losses, windows, cases, outbox, console>>
  BY <1>1, <1>2 DEF PublishRead, RowAt
<1>4. \A row \in rows : row \in NoticeRows /\ ReadOf(row, outbox[row.hour])
  <2> TAKE row \in rows
  <2>1. PICK h \in Hours : row = RowAt(outbox, h)
    BY <1>1
  <2>2. outbox[h].revision \in Nat /\ outbox[h].notify \in BOOLEAN
    BY DEF AnaInv, PublishInv, HandedOver, OutboxRows
  <2>3. row.hour = h /\ row.revision = outbox[h].revision /\ row.notify = outbox[h].notify
    BY <2>1 DEF RowAt
  <2> QED BY <2>1, <2>2, <2>3 DEF NoticeRows, ReadOf, RowAt
<1>5. /\ v \in [at : Places, rows : SUBSET NoticeRows, row : NoticeRows]
      /\ v.at = "import" /\ v.rows = rows
  BY <1>2, <1>4, NoRowIs DEF Places
<1>6. Carrying(v, outbox, console)
  BY <1>4, <1>5 DEF Carrying
<1> QED BY <1>3, <1>6, OnlyItsWorker

LEMMA ImportKeeps == ASSUME AnaInv, NEW w \in Workers, PublishImport(w) PROVE AnaInv'
<1>1. PICK row \in worker[w].rows :
        /\ console' = IF row.revision > console[row.hour].revision
                      THEN [console EXCEPT ![row.hour] =
                              [revision |-> row.revision,
                               notice |-> IF row.notify THEN "queued"
                                          ELSE IF @.notice = "none" THEN "none" ELSE "cancelled"]]
                      ELSE console
        /\ worker' = [worker EXCEPT ![w] = [at |-> "acknowledge", rows |-> @.rows \ {row}, row |-> row]]
  BY DEF PublishImport
<1>2. /\ DOMAIN outbox = Hours /\ DOMAIN console = Hours /\ DOMAIN worker = Workers
      /\ \A g \in Hours : HandedOver(outbox[g], console[g], cases[g])
      /\ \A u \in Workers : Carrying(worker[u], outbox, console)
  BY DEF AnaInv, PublishInv
<1>3. UNCHANGED storeVars /\ UNCHANGED <<cursor, targets, context, losses, windows, cases, outbox>>
  BY DEF PublishImport
<1>4. /\ row \in NoticeRows /\ ReadOf(row, outbox[row.hour]) /\ row.hour \in Hours
      /\ row.revision \in Nat /\ row.notify \in BOOLEAN
  <2>1. Carrying(worker[w], outbox, console)
    BY <1>2
  <2>2. row \in NoticeRows /\ ReadOf(row, outbox[row.hour])
    BY <2>1 DEF Carrying
  <2> QED BY <2>2 DEF NoticeRows
<1>5. PICK h \in Hours : h = row.hour
  BY <1>4
<1>6. PICK say : say = IF row.notify THEN "queued"
                       ELSE IF console[h].notice = "none" THEN "none" ELSE "cancelled"
  OBVIOUS
<1>7. PICK shown : shown = IF row.revision > console[h].revision
                           THEN [revision |-> row.revision, notice |-> say] ELSE console[h]
  OBVIOUS
<1>8. DOMAIN console' = Hours /\ \A g \in Hours : console'[g] = IF g = h THEN shown ELSE console[g]
  BY <1>1, <1>2, <1>5, <1>6, <1>7
<1>9. /\ HandedOver(outbox[h], console[h], cases[h])
      /\ console[h].revision \in Nat /\ outbox[h].revision \in Nat
  BY <1>2 DEF HandedOver, OutboxRows, ConsoleRows
<1>10. HandedOver(outbox[h], shown, cases[h]) /\ shown.revision \in Nat
       /\ shown.revision >= console[h].revision /\ shown.revision >= row.revision
  <2>1. CASE row.revision > console[h].revision
    <3>1. shown = [revision |-> row.revision, notice |-> say]
      BY <1>7, <2>1
    <3>2. say \in {"none", "queued", "cancelled"} /\ (say = "queued" <=> row.notify)
      BY <1>4, <1>6
    <3>3. shown \in ConsoleRows /\ shown.revision = row.revision /\ shown.notice = say
      BY <1>4, <3>1, <3>2 DEF ConsoleRows
    <3>4. row.revision =< outbox[h].revision
          /\ (row.revision = outbox[h].revision => row.notify = outbox[h].notify)
      BY <1>4, <1>5 DEF ReadOf
    <3>5. outbox[h].pending
      <4>1. outbox[h].pending \in BOOLEAN
        BY <1>9 DEF HandedOver, OutboxRows
      <4> QED BY <1>4, <1>9, <2>1, <3>4, <4>1 DEF HandedOver
    <3> QED BY <1>4, <1>9, <2>1, <3>2, <3>3, <3>4, <3>5 DEF HandedOver
  <2>2. CASE ~(row.revision > console[h].revision)
    BY <1>4, <1>7, <1>9, <2>2
  <2> QED BY <2>1, <2>2
<1>11. \A g \in Hours : HandedOver(outbox[g], console'[g], cases[g])
  BY <1>2, <1>8, <1>10
<1>12. \A u \in Workers : Carrying(worker[u], outbox, console')
  <2> TAKE u \in Workers
  <2>1. Carrying(worker[u], outbox, console)
    BY <1>2
  <2>2. ASSUME worker[u].at = "acknowledge"
        PROVE  worker[u].row.revision =< console'[worker[u].row.hour].revision
    <3>1. worker[u].row \in NoticeRows
          /\ worker[u].row.revision =< console[worker[u].row.hour].revision
      BY <2>1, <2>2 DEF Carrying
    <3>2. worker[u].row.hour \in Hours /\ worker[u].row.revision \in Nat
      BY <3>1 DEF NoticeRows
    <3>3. CASE worker[u].row.hour = h
      BY <1>8, <1>9, <1>10, <3>1, <3>2, <3>3
    <3>4. CASE worker[u].row.hour # h
      BY <1>8, <3>1, <3>2, <3>4
    <3> QED BY <3>3, <3>4
  <2> QED BY <2>1, <2>2 DEF Carrying
<1>13. PICK v : v = [at |-> "acknowledge", rows |-> worker[w].rows \ {row}, row |-> row]
  OBVIOUS
<1>14. worker' = [worker EXCEPT ![w] = v]
  BY <1>1, <1>13
<1>15. Carrying(v, outbox, console')
  <2>1. Carrying(worker[w], outbox, console)
    BY <1>2
  <2>2. /\ v \in [at : Places, rows : SUBSET NoticeRows, row : NoticeRows]
        /\ v.rows \subseteq worker[w].rows /\ v.row = row
    BY <1>4, <1>13, <2>1 DEF Carrying, Places
  <2>3. row.revision =< console'[row.hour].revision
    BY <1>4, <1>5, <1>8, <1>10
  <2> QED BY <1>4, <2>1, <2>2, <2>3 DEF Carrying
<1> QED BY <1>2, <1>3, <1>8, <1>11, <1>12, <1>14, <1>15, PublishStep

LEMMA AckKeeps == ASSUME AnaInv, NEW w \in Workers, PublishAck(w) PROVE AnaInv'
<1>1. PICK row : row = worker[w].row
  OBVIOUS
<1>2. /\ outbox' = IF outbox[row.hour].revision = row.revision
                   THEN [outbox EXCEPT ![row.hour].pending = FALSE] ELSE outbox
      /\ worker' = [worker EXCEPT ![w] = [worker[w] EXCEPT !.at = "import", !.row = NoRow]]
      /\ worker[w].at = "acknowledge"
  BY <1>1 DEF PublishAck
<1>3. /\ DOMAIN outbox = Hours /\ DOMAIN console = Hours /\ DOMAIN worker = Workers
      /\ \A g \in Hours : HandedOver(outbox[g], console[g], cases[g])
      /\ \A u \in Workers : Carrying(worker[u], outbox, console)
  BY DEF AnaInv, PublishInv
<1>4. UNCHANGED storeVars /\ UNCHANGED <<cursor, targets, context, losses, windows, cases, console>>
  BY DEF PublishAck
<1>5. /\ row \in NoticeRows /\ row.hour \in Hours /\ row.revision \in Nat
      /\ row.revision =< console[row.hour].revision
  <2>1. Carrying(worker[w], outbox, console)
    BY <1>3
  <2>2. row \in NoticeRows /\ row.revision =< console[row.hour].revision
    BY <1>1, <1>2, <2>1 DEF Carrying
  <2> QED BY <2>2 DEF NoticeRows
<1>6. PICK h \in Hours : h = row.hour
  BY <1>5
<1>7. PICK out : out = IF outbox[h].revision = row.revision
                       THEN [outbox[h] EXCEPT !.pending = FALSE] ELSE outbox[h]
  OBVIOUS
<1>8. DOMAIN outbox' = Hours /\ \A g \in Hours : outbox'[g] = IF g = h THEN out ELSE outbox[g]
  BY <1>2, <1>3, <1>6, <1>7
<1>9. /\ HandedOver(outbox[h], console[h], cases[h]) /\ outbox[h] \in OutboxRows
      /\ console[h].revision \in Nat /\ outbox[h].revision \in Nat
  BY <1>3 DEF HandedOver, OutboxRows, ConsoleRows
<1>10. HandedOver(out, console[h], cases[h])
       /\ out.revision = outbox[h].revision /\ out.notify = outbox[h].notify
  <2>1. CASE outbox[h].revision = row.revision
    <3>1. out = [outbox[h] EXCEPT !.pending = FALSE]
      BY <1>7, <2>1
    <3>2. out \in OutboxRows /\ out.revision = outbox[h].revision /\ out.notify = outbox[h].notify
      BY <1>9, <3>1 DEF OutboxRows
    <3>3. console[h].revision = outbox[h].revision
      BY <1>5, <1>6, <1>9, <2>1 DEF HandedOver
    <3> QED BY <1>9, <3>2, <3>3 DEF HandedOver
  <2>2. CASE outbox[h].revision # row.revision
    BY <1>7, <1>9, <2>2
  <2> QED BY <2>1, <2>2
<1>11. \A g \in Hours : HandedOver(outbox'[g], console[g], cases[g])
  BY <1>3, <1>8, <1>10
<1>12. \A u \in Workers : Carrying(worker[u], outbox', console)
  <2> TAKE u \in Workers
  <2>1. Carrying(worker[u], outbox, console)
    BY <1>3
  <2>2. \A r \in NoticeRows : ReadOf(r, outbox[r.hour]) => ReadOf(r, outbox'[r.hour])
    BY <1>8, <1>10 DEF ReadOf, NoticeRows
  <2>3. worker[u].rows \subseteq NoticeRows /\ worker[u].row \in NoticeRows
    BY <2>1 DEF Carrying
  <2> QED BY <2>1, <2>2, <2>3 DEF Carrying
<1>13. PICK v : v = [worker[w] EXCEPT !.at = "import", !.row = NoRow]
  OBVIOUS
<1>14. Carrying(v, outbox', console)
  <2>1. Carrying(worker[w], outbox', console)
    BY <1>12
  <2>2. /\ v \in [at : Places, rows : SUBSET NoticeRows, row : NoticeRows]
        /\ v.at = "import" /\ v.rows = worker[w].rows
    BY <1>13, <2>1, NoRowIs DEF Carrying, Places
  <2> QED BY <2>1, <2>2 DEF Carrying
<1> QED BY <1>2, <1>3, <1>4, <1>8, <1>11, <1>12, <1>13, <1>14, PublishStep

-----------------------------------------------------------------------------
LEMMA AnaStarts == AnaInit => AnaInv
<1> SUFFICES ASSUME AnaInit PROVE AnaInv
  OBVIOUS
<1>1. ArrivalInv
  BY DEF AnaInit, StoreInit, ArrivalInv
<1>2. TakenInv
  <2>1. cursor = 0 /\ targets = <<0, 0>> /\ context = {} /\ losses = {} /\ receipts = <<>>
    BY DEF AnaInit, StoreInit
  <2> QED BY <2>1 DEF TakenInv
<1>3. JudgedInv
  <2>1. /\ \A h \in Hours : windows[h] = "none" /\ cases[h] = NoCase
        /\ DOMAIN windows = Hours /\ DOMAIN cases = Hours /\ context = {}
    BY DEF AnaInit
  <2>2. NoCase \in NetCases /\ NoCase.evidence = {} /\ NoCase.active = FALSE
    BY DEF NoCase, NetCases
  <2> QED BY <2>1, <2>2 DEF JudgedInv, HourSound, CaseGrounded, InRange
<1>4. PublishInv
  <2>1. PICK out, shown : out = [revision |-> 0, notify |-> FALSE, pending |-> FALSE]
                          /\ shown = [revision |-> 0, notice |-> "none"]
    OBVIOUS
  <2>2. /\ \A h \in Hours : outbox[h] = out /\ console[h] = shown /\ cases[h] = NoCase
        /\ \A w \in Workers : worker[w] = Idle
        /\ DOMAIN outbox = Hours /\ DOMAIN console = Hours /\ DOMAIN worker = Workers
    BY <2>1 DEF AnaInit
  <2>3. HandedOver(out, shown, NoCase)
    BY <2>1 DEF HandedOver, OutboxRows, ConsoleRows, NoCase
  <2>4. Carrying(Idle, outbox, console)
    BY NoRowIs DEF Carrying, Idle, Places
  <2> QED BY <2>2, <2>3, <2>4 DEF PublishInv
<1> QED BY <1>1, <1>2, <1>3, <1>4 DEF AnaInv

LEMMA AnaStays ==
  ASSUME AnaInv, UNCHANGED <<netBatches, receipts, events>>,
         UNCHANGED <<cursor, targets, context, losses, windows, cases, outbox, console, worker>>
  PROVE  AnaInv'
<1>1. ArrivalInv' /\ Accepted' = Accepted /\ receipts' = receipts
  BY StoreStays DEF AnaInv
<1>2. TakenInv'
  BY <1>1 DEF AnaInv, TakenInv
<1>3. JudgedInv'
  BY <1>1 DEF AnaInv, JudgedInv
<1>4. PublishInv'
  BY DEF AnaInv, PublishInv
<1> QED BY <1>1, <1>2, <1>3, <1>4 DEF AnaInv

LEMMA AnaStep == AnaInv /\ [AnaNext]_anaVars => AnaInv'
<1> SUFFICES ASSUME AnaInv, [AnaNext]_anaVars PROVE AnaInv'
  OBVIOUS
<1>1. CASE Arrive
  BY <1>1, ArriveKeeps
<1>2. CASE Retention
  BY <1>2, AnaStays DEF Retention, Expire
<1>3. ASSUME NEW w \in Workers, Tick(w) \/ CrashWorker(w) PROVE AnaInv'
  BY <1>3, IntakeKeeps, AnalyzeKeeps, ReadKeeps, ImportKeeps, AckKeeps, IdleKeeps DEF Tick
<1>4. CASE UNCHANGED anaVars
  BY <1>4, AnaStays DEF anaVars, storeVars
<1> QED BY <1>1, <1>2, <1>3, <1>4 DEF AnaNext

-----------------------------------------------------------------------------
LEMMA NothingMissed == AnaInv => NoProbeMissed
<1> SUFFICES ASSUME AnaInv, Quiet, NEW S \in SUBSET Accepted, IsProbe(S), NEW r \in S,
                    NEW h, h = (Time[r] \div Hour) * Hour, ~Unavailable(h)
             PROVE  cases[h].active /\ S \subseteq cases[h].evidence
  BY DEF NoProbeMissed
<1>1. receipts \in Seq(Records) /\ cursor = Len(receipts)
  BY DEF AnaInv, ArrivalInv, Quiet
<1>2. Accepted \subseteq Records
  BY <1>1 DEF Accepted, ToSet
<1>3. h \in Hours /\ h =< Time[r] /\ Time[r] < h + Hour
  BY <1>2, OwnHour
<1>4. \A s \in S : s \in context \cup losses
  <2> TAKE s \in S
  <2>1. PICK i \in 1..Len(receipts) : receipts[i] = s
    BY <1>1 DEF Accepted, ToSet
  <2>2. Kind(receipts[i]) = "event"
    BY <2>1 DEF Accepted
  <2> QED BY <1>1, <2>1, <2>2 DEF AnaInv, TakenInv
<1>5. \A s \in S : h - Window =< Time[s] /\ Time[s] =< h + Hour + Window
  <2> TAKE s \in S
  <2>1. Time[s] - Time[r] =< Window /\ Time[r] - Time[s] =< Window
    BY DEF IsProbe
  <2>2. h \in Int
    BY <1>3, NetworkConstants DEF Hours
  <2>3. s \in Records /\ r \in Records
    BY <1>2
  <2> QED BY <1>3, <2>1, <2>2, <2>3, NetworkConstants
<1>6. S \subseteq InRange(context, h)
  <2>1. InRange(losses, h) = {}
    BY DEF Unavailable
  <2> QED BY <1>4, <1>5, <2>1 DEF InRange
<1>7. windows[h] = "clean"
  <2>1. HourSound(windows[h], context, losses, cases[h].evidence, h)
    BY <1>3 DEF AnaInv, JudgedInv
  <2>2. windows[h] # "dirty"
    BY <1>3 DEF Quiet, AnyDirty
  <2> QED BY <1>6, <2>1, <2>2 DEF HourSound
<1>8. cases[h].evidence = Ruled(InRange(context, h), h)
  BY <1>3, <1>7 DEF AnaInv, JudgedInv, HourSound, Unread, Unavailable
<1>9. S \subseteq Ruled(InRange(context, h), h)
  <2>1. InRange(context, h) \in SUBSET Records
    BY RangeOf DEF AnaInv, TakenInv
  <2>2. Touches(S, h)
    BY <1>3 DEF Touches
  <2> QED BY <1>6, <2>1, <2>2, ProbeIsRuled
<1>10. cases[h].active
  BY <1>3, <1>8, <1>9 DEF AnaInv, JudgedInv, CaseGrounded
<1> QED BY <1>8, <1>9, <1>10

LEMMA NothingMadeUp == AnaInv => OnlyProbesAreEvidence /\ NoticeMatchesCase
<1> SUFFICES ASSUME AnaInv PROVE OnlyProbesAreEvidence /\ NoticeMatchesCase
  OBVIOUS
<1>1. OnlyProbesAreEvidence
  BY DEF AnaInv, JudgedInv, CaseGrounded, PartOfProbe, OnlyProbesAreEvidence
<1>2. NoticeMatchesCase
  BY DEF AnaInv, PublishInv, HandedOver, NoticeMatchesCase
<1> QED BY <1>1, <1>2

LEMMA NeverCleared ==
  ASSUME AnaInv, [AnaNext]_anaVars, NEW h \in Hours
  PROVE  cases[h].evidence \subseteq cases'[h].evidence /\ (cases[h].active => cases'[h].active)
<1>1. CASE \E w \in Workers : AnalyzeWindow(w)
  <2>1. PICK g \in Hours : cases' = [cases EXCEPT ![g] = NextCase(g)]
    BY <1>1 DEF AnalyzeWindow
  <2>2. DOMAIN cases = Hours /\ (cases[g].active <=> cases[g].evidence # {})
    BY DEF AnaInv, JudgedInv, CaseGrounded
  <2>3. cases[g].evidence \subseteq NextCase(g).evidence
        /\ (NextCase(g).active <=> NextCase(g).evidence # {})
    BY NextCaseIs
  <2> QED BY <2>1, <2>2, <2>3
<1>2. CASE ~\E w \in Workers : AnalyzeWindow(w)
  <2>1. cases' = cases
    BY <1>2 DEF AnaNext, anaVars, Arrive, Retention, Tick, Intake, PublishRead, PublishImport,
                PublishAck, TickDone, CrashWorker
  <2> QED BY <2>1
<1> QED BY <1>1, <1>2

\* For any records, times and ports, any number of processes and crashes: once everything
\* received is analysed no probe is missed, evidence is part of a probe among accepted
\* records, a known case is never cleared, and a notice that is not pending is in the
\* console as the case says (intake, analyze_window, _scan, publish).
THEOREM NetworkCasesTrue == AnaSpec => NetworkCasesAreTrue
<1>1. AnaInit => AnaInv
  BY AnaStarts
<1>2. AnaInv /\ [AnaNext]_anaVars => AnaInv'
  BY AnaStep
<1>3. AnaInv => NoProbeMissed /\ OnlyProbesAreEvidence /\ NoticeMatchesCase
  BY NothingMissed, NothingMadeUp
<1>4. AnaInv /\ [AnaNext]_anaVars =>
        [\A h \in Hours : cases[h].evidence \subseteq cases'[h].evidence
                          /\ (cases[h].active => cases'[h].active)]_anaVars
  BY NeverCleared
<1> QED BY <1>1, <1>2, <1>3, <1>4, PTL DEF AnaSpec, NetworkCasesAreTrue, KnownCaseNeverCleared
=============================================================================

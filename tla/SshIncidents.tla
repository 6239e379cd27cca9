---------------------------- MODULE SshIncidents ----------------------------
(***************************************************************************)
(* SSH incidents of one peer: how stored records become evidence of        *)
(* incidents (telemetry/detection.py and _detect_advanced, _apply_match,   *)
(* _merge_incident of telemetry/store.py), and how incidents are triaged   *)
(* by operators, verified blocks, newer evidence and merges.               *)
(*                                                                         *)
(* Records reach the store in any order and in any batches, possibly long  *)
(* after they were written.  Every operation is one SQLite transaction, so *)
(* it is one step here.  The counts, sources and times that                *)
(* _refresh_incident derives from the evidence are represented by the      *)
(* evidence they were derived from.                                        *)
(***************************************************************************)
EXTENDS Integers, Sequences, FiniteSets, FiniteSetsExt, SequencesExt

CONSTANTS
    NumEvents,      \* number of records, numbered in the order of time, source and id
    Rows,           \* the possible contents of the journals: [Events -> Row]
    SourceOrder,    \* the sources, in the order of their ids
    Uuids,          \* the possible orders of the random incident ids
    LocalRules,     \* burst, slow_scan and multi_account, in this order
    CrossRule,      \* cross_source
    SuccessSpan,    \* SUCCESS_WINDOW_SECONDS
    SuccessMin,     \* SUCCESS_MIN_FAILURES
    MaxWindow,      \* MAX_WINDOW_SECONDS
    RawRetention,   \* age from which _cleanup drops raw records
    MaxBatch,       \* bound on the new records of a batch
    MaxTriages,     \* bound on operator decisions and verified blocks
    MaxTime         \* bound on the clock

Events == 1 .. NumEvents
MaxIncidents == NumEvents
Incidents == 1 .. MaxIncidents
Sources == Range(SourceOrder)
States == {"pending", "acknowledged", "resolved"}

VARIABLES
    rawRows,        \* what the journals hold
    uuid,           \* uuid[i]: rank of the id of the i-th incident
    now,
    received,       \* event_receipts
    raw,            \* events
    incidents,      \* the tables of incidents, see Tables
    resolutions,    \* rows of incident_triage_log with to_state resolved
    triages

vars == <<rawRows, uuid, now, received, raw, incidents, resolutions, triages>>

(* born: number of incidents before the transaction that created one       *)
(* (created_at); into: merged_into; holder: incident_evidence; view: the   *)
(* evidence at the last _refresh_incident; state, since: incident_triage.  *)
Tables == [count : 0 .. MaxIncidents,
           born : [Incidents -> 0 .. MaxIncidents],
           into : [Incidents -> 0 .. MaxIncidents],
           holder : [Events -> 0 .. MaxIncidents],
           view : [Incidents -> SUBSET Events],
           state : [Incidents -> States],
           since : [Incidents -> 0 .. MaxTime]]

(* The tables have their types, evidence belongs to incidents that exist,  *)
(* and only these are merged or triaged.                                   *)
TypeOK ==
    /\ now \in 0 .. MaxTime
    /\ raw \subseteq received /\ received \subseteq Events
    /\ incidents \in Tables
    /\ \A e \in Events : incidents.holder[e] <= incidents.count
    /\ \A i \in Incidents : i > incidents.count =>
         incidents.into[i] = 0 /\ incidents.state[i] = "pending" /\ incidents.view[i] = {}
    /\ resolutions \subseteq (Incidents \X (0 .. MaxTime))
    /\ triages \in 0 .. MaxTriages

Init ==
    /\ rawRows \in Rows /\ uuid \in Uuids
    /\ now = 0 /\ received = {} /\ raw = {}
    /\ incidents = [count |-> 0,
                    born |-> [i \in Incidents |-> 0],
                    into |-> [i \in Incidents |-> 0],
                    holder |-> [e \in Events |-> 0],
                    view |-> [i \in Incidents |-> {}],
                    state |-> [i \in Incidents |-> "pending"],
                    since |-> [i \in Incidents |-> 0]]
    /\ resolutions = {} /\ triages = 0

-----------------------------------------------------------------------------
(* Rolling-window detection.                                               *)

FailureKinds == {"auth_failure", "preauth_abort"}

Qualifies(rule, window) ==
    /\ Cardinality(window) >= rule.records
    /\ Cardinality({rawRows[e].user : e \in window} \ {"none"}) >= rule.users
    /\ Cardinality({rawRows[e].src : e \in window}) >= rule.sources

(* _failure_matches: the window of failures that ends in record e.         *)
FailureWindow(rule, S, scope, e) ==
    LET failures == {f \in S : rawRows[f].kind \in FailureKinds /\ rawRows[f].src \in scope}
        window == {f \in failures : f <= e /\ rawRows[e].at - rawRows[f].at <= rule.window}
    IN IF e \in failures /\ Qualifies(rule, window) THEN window ELSE {}

(* _success_matches: success e with the failures strictly before it.       *)
SuccessWindow(S, src, e) ==
    LET leading == {f \in S : /\ rawRows[f].kind = "auth_failure" /\ rawRows[f].src = src
                              /\ rawRows[f].at < rawRows[e].at
                              /\ rawRows[f].at >= rawRows[e].at - SuccessSpan}
    IN IF /\ e \in S /\ rawRows[e].kind = "auth_success" /\ rawRows[e].src = src
          /\ Cardinality(leading) >= SuccessMin
       THEN leading \cup {e} ELSE {}

(* What detect_matches evaluates, in its order: the rules of each source,  *)
(* then the rule across sources.                                           *)
Groups ==
    LET kinds == Len(LocalRules) + 1
        Local(g) == [scope |-> {SourceOrder[((g - 1) \div kinds) + 1]},
                     rule |-> ((g - 1) % kinds) + 1]
    IN [g \in 1 .. (kinds * Len(SourceOrder)) |-> Local(g)] \o <<[scope |-> Sources, rule |-> 0]>>

(* The qualifying window of a group that ends in record e, {} if none.     *)
Window(group, S, e) ==
    IF group.rule = 0 THEN FailureWindow(CrossRule, S, group.scope, e)
    ELSE IF group.rule <= Len(LocalRules)
         THEN FailureWindow(LocalRules[group.rule], S, group.scope, e)
         ELSE SuccessWindow(S, CHOOSE src \in group.scope : TRUE, e)

(* Windows with a trigger; those that share evidence are one match.        *)
GroupMatches(group, S, triggers) ==
    LET Join(matches, e) ==
          LET window == Window(group, S, e)
          IN IF window \cap triggers = {} THEN matches
             ELSE IF matches # <<>> /\ Last(matches) \cap window # {}
                  THEN Front(matches) \o <<Last(matches) \cup window>>
                  ELSE Append(matches, window)
    IN FoldLeft(Join, <<>>, [e \in Events |-> e])

(* Mutant of Neighbours: the neighbourhood of the shortest rule.           *)
NeighboursNear(S, triggers) ==
    {e \in S : \E t \in triggers : rawRows[e].at - rawRows[t].at \in -1 .. 1}

(* _detect_advanced looks at the temporal neighbourhood of the triggers.   *)
Neighbours(S, triggers) ==
    {e \in S : \E t \in triggers : rawRows[e].at - rawRows[t].at \in -MaxWindow .. MaxWindow}

-----------------------------------------------------------------------------
(* Incidents.  The operators below map tables to tables.                   *)

Held(db, i) == {e \in Events : db.holder[e] = i}
Live(db, i) == i <= db.count /\ db.into[i] = 0

(* _canonical_incident follows merged_into to the end.                     *)
Canonical(db, i) ==
    LET step[n \in 0 .. MaxIncidents] ==
          IF n = 0 THEN i
          ELSE IF db.into[step[n - 1]] = 0 THEN step[n - 1] ELSE db.into[step[n - 1]]
    IN step[MaxIncidents]

Older(db, i, j) == db.born[i] < db.born[j] \/ (db.born[i] = db.born[j] /\ uuid[i] <= uuid[j])

(* _set_triage: nothing happens when the state is the same.                *)
Triaged(db, i, state) ==
    IF db.state[i] = state THEN db
    ELSE [db EXCEPT !.state[i] = state, !.since[i] = now]

Rank(state) == CASE state = "pending" -> 0 [] state = "acknowledged" -> 1 [] OTHER -> 2

(* Mutant of Merged: the state of the absorbed incident is forgotten.      *)
MergedQuietly(db, target, other) ==
    [db EXCEPT !.into[other] = target,
               !.holder = [e \in Events |-> IF @[e] = other THEN target ELSE @[e]]]

(* _merge_incident: the evidence moves, the less handled state stays.      *)
Merged(db, target, other) ==
    Triaged([db EXCEPT !.into[other] = target,
                       !.holder = [e \in Events |-> IF @[e] = other THEN target ELSE @[e]]],
            target,
            IF Rank(db.state[other]) < Rank(db.state[target])
            THEN db.state[other] ELSE db.state[target])

(* New evidence from after the decision reopens a resolved incident.       *)
Reopens(db, i, added) ==
    db.state[i] = "resolved" /\ \E e \in added : rawRows[e].at > db.since[i]

(* The incidents that already hold evidence of a match.                    *)
Linked(db, match) == {Canonical(db, db.holder[e]) : e \in {f \in match : db.holder[f] # 0}}

(* _apply_match, with base incidents before this transaction.              *)
Applied(db, match, base) ==
    LET linked == Linked(db, match)
        isNew == linked = {}
        target == IF isNew THEN db.count + 1
                  ELSE CHOOSE i \in linked : \A j \in linked : Older(db, i, j)
        opened == IF isNew THEN [db EXCEPT !.count = target, !.born[target] = base] ELSE db
        merged == FoldSet(LAMBDA other, acc : Merged(acc, target, other), opened,
                          linked \ {target})
        added == {e \in match : merged.holder[e] = 0}
        linkedUp == [merged EXCEPT !.holder =
                       [e \in Events |-> IF e \in added THEN target ELSE @[e]]]
    IN IF Reopens(linkedUp, target, added) THEN Triaged(linkedUp, target, "pending") ELSE linkedUp

(* _refresh_incident of the incidents a transaction has changed.           *)
Refreshed(db, changed) ==
    [db EXCEPT !.view = [i \in Incidents |-> IF i \in changed THEN Held(db, i) ELSE @[i]]]

(* detect_matches and _apply_match, match by match; then the incidents     *)
(* that got the evidence are refreshed.                                    *)
Detected(S, triggers) ==
    LET Apply(acc, match) == [db |-> Applied(acc.db, match, incidents.count),
                              touched |-> acc.touched \cup match]
        Evaluate(acc, group) == FoldLeft(Apply, acc, GroupMatches(group, S, triggers))
        result == FoldLeft(Evaluate, [db |-> incidents, touched |-> {}], Groups)
    IN Refreshed(result.db, {Canonical(result.db, result.db.holder[e]) : e \in result.touched})

-----------------------------------------------------------------------------
Tick ==
    /\ now < MaxTime
    /\ now' = now + 1
    /\ UNCHANGED <<rawRows, uuid, received, raw, incidents, resolutions, triages>>

Expired == {e \in Events : rawRows[e].at < now - RawRetention}

(* ingest of the records that have no receipt yet: they are stored and     *)
(* trigger detection; the first batches of a day also drop the oldest of   *)
(* the expired records.                                                    *)
Ingest(fresh) ==
    /\ fresh # {} /\ Cardinality(fresh) <= MaxBatch
    /\ \A e \in fresh : rawRows[e].at <= now
    /\ received' = received \cup fresh
    /\ incidents' = Detected(Neighbours(raw \cup fresh, fresh), fresh)
    /\ \E upTo \in {0} \cup Expired : raw' = (raw \cup fresh) \ {e \in Expired : e <= upTo}
    /\ UNCHANGED <<rawRows, uuid, now, resolutions, triages>>

(* cleanup: receipts and evidence are kept.                                *)
Cleanup ==
    /\ raw' = raw \ Expired
    /\ UNCHANGED <<rawRows, uuid, now, received, incidents, resolutions, triages>>

(* rebuild_detections evaluates all raw records again.                     *)
RebuildDetections ==
    /\ incidents' = Detected(raw, raw)
    /\ UNCHANGED <<rawRows, uuid, now, received, raw, resolutions, triages>>

Transitions == [pending |-> {"acknowledged", "resolved"},
                acknowledged |-> {"pending", "resolved"},
                resolved |-> {"pending"}]

Resolve(db, changed) ==
    /\ incidents' = db
    /\ resolutions' = resolutions \cup {<<i, now>> : i \in changed}
    /\ triages < MaxTriages /\ triages' = triages + 1

(* The lookup behind set_triage's 404.                                     *)
Exists(i) == i <= incidents.count

(* set_triage by an operator, who may use the id of a merged incident.     *)
SetTriage(requested, state) ==
    /\ Exists(requested)
    /\ LET i == Canonical(incidents, requested)
       IN /\ state \in Transitions[incidents.state[i]]
          /\ Resolve(Triaged(incidents, i, state), IF state = "resolved" THEN {i} ELSE {})
    /\ UNCHANGED <<rawRows, uuid, now, received, raw>>

SourcesOf(i) == {rawRows[e].src : e \in incidents.view[i]}

(* resolve_blocked_incidents after a verified block.                       *)
ResolveBlocked(covered) ==
    /\ covered # {}
    /\ LET blocked == {i \in Incidents : /\ Live(incidents, i)
                                         /\ incidents.state[i] # "resolved"
                                         /\ SourcesOf(i) \subseteq covered}
       IN /\ blocked # {}
          /\ Resolve(FoldSet(LAMBDA i, db : Triaged(db, i, "resolved"), incidents, blocked), blocked)
    /\ UNCHANGED <<rawRows, uuid, now, received, raw>>

Next ==
    \/ Tick \/ Cleanup \/ RebuildDetections
    \/ \E fresh \in SUBSET (Events \ received) : Ingest(fresh)
    \/ \E i \in Incidents, state \in States : SetTriage(i, state)
    \/ \E covered \in SUBSET Sources : ResolveBlocked(covered)

Spec == Init /\ [][Next]_vars

-----------------------------------------------------------------------------
WindowsOf(S) == {Window(group, S, e) : group \in Range(Groups), e \in S}

(* Whatever the batches and their order, every qualifying window of the    *)
(* retained records is evidence of one incident (_detect_advanced, late    *)
(* and out-of-order delivery).                                             *)
NoWindowIsSplit ==
    \A window \in WindowsOf(raw) :
        /\ \A e \in window : incidents.holder[e] # 0
        /\ \A e, f \in window : incidents.holder[e] = incidents.holder[f]

(* Evidence is held together by windows: no incident can be cut in two     *)
(* without cutting a qualifying window of the received records             *)
(* (_apply_match merges only what shares evidence).                        *)
NoFalseMerge ==
    LET windows == WindowsOf(received)
    IN \A i \in Incidents : \A part \in SUBSET Held(incidents, i) :
         part # {} /\ part # Held(incidents, i) =>
           \E window \in windows : /\ window \cap part # {}
                                   /\ (window \cap Held(incidents, i)) \ part # {}

(* Evidence belongs to incidents that are not merged away, and what the    *)
(* lists show of these was derived from the evidence they hold now.        *)
ViewsAreCurrent ==
    \A i \in 1 .. incidents.count :
        IF Live(incidents, i) THEN incidents.view[i] = Held(incidents, i)
        ELSE Held(incidents, i) = {}

(* A resolved incident shows no evidence from after every decision to      *)
(* resolve it or an incident that was merged into it (_apply_match's       *)
(* reopening, "A merge must never hide unhandled activity").               *)
ResolvedCoversItsEvidence ==
    \A i \in Incidents : Live(incidents, i) /\ incidents.state[i] = "resolved" =>
        \A e \in Held(incidents, i) :
            \E r \in resolutions : Canonical(incidents, r[1]) = i /\ rawRows[e].at <= r[2]

(* Correlation is right whatever the batches and their order               *)
(* (_detect_advanced, _apply_match and rebuild_detections): nothing that   *)
(* belongs together is apart, nothing is together that does not belong     *)
(* together, and the lists show it.                                        *)
IncidentsAreTrue == NoWindowIsSplit /\ NoFalseMerge /\ ViewsAreCurrent
=============================================================================

----------------------------- MODULE Reduction ------------------------------
(***************************************************************************)
(* Alert reduction (src/backend/app/reduction/): alerts that share a log     *)
(* record and a detection become a group, groups of one story an incident,   *)
(* and an incident is scored from its own records.                           *)
(*                                                                           *)
(* Components are kept by a union-find whose root is the smallest member.    *)
(* Alerts are numbered in the order of alert_id and their hosts belong to    *)
(* the rule; a group's times are those of its records.                       *)
(***************************************************************************)
EXTENDS Naturals, Sequences, FiniteSets, SequencesExt, FiniteSetsExt, TLC

CONSTANTS
  Stream,      \* the normalized log: record -> [type, user, src, host, time]
  AlertSets,   \* inputs: sequences of [rule, src, evidence]
  Gap,         \* gap_seconds
  Root,        \* the account that counts for nothing
  Weight,      \* SUCCESS, KNOWN_SOURCE, EXISTING_ACCOUNT, SEVERAL_HOSTS, PERSISTENT, VOLUME
  AccountCap, PersistentSpan, PersistentFailures, VolumeRecords, Threshold

ASSUME ReductionAssumption ==
  /\ Gap \in Nat /\ Threshold \in Nat /\ AccountCap \in Nat
  /\ PersistentSpan \in Nat /\ PersistentFailures \in Nat /\ VolumeRecords \in Nat
  /\ \A a \in AlertSets : \A k \in DOMAIN a :
       a[k].evidence # {} /\ a[k].evidence \subseteq DOMAIN Stream

VARIABLES
  alerts,     \* the input of reduce_alerts
  groups,     \* deduplicate: a sequence of [members, rule, src, evidence, first, last]
  stories,    \* correlate and assess: a set of [alerts, evidence, score]
  phase

redVars == <<alerts, groups, stories, phase>>

\* _Sets.find and _Sets.union, over the root of every item.
Unite(root, a, b) ==
  LET low == Min({root[a], root[b]})
  IN  [k \in DOMAIN root |-> IF root[k] \in {root[a], root[b]} THEN low ELSE root[k]]
Numbers(n) == [k \in 1 .. n |-> k]
Components(root) == {{k \in DOMAIN root : root[k] = r} : r \in {root[k] : k \in DOMAIN root}}

\* Every record belongs to the first item that names it under the same key; later
\* ones join it.
Joined(items, keys) ==
  LET Owner(k, record) ==
        Min({j \in 1 .. k : record \in items[j].evidence /\ keys[j] = keys[k]})
  IN  FoldLeft(LAMBDA root, k :
                 FoldSet(LAMBDA record, r : Unite(r, Owner(k, record), k), root, items[k].evidence),
               Numbers(Len(items)), Numbers(Len(items)))

Times(evidence) == {Stream[r].time : r \in evidence}

\* deduplicate
Deduplicate ==
  /\ phase = "alerts"
  /\ \E root \in {Joined(alerts, [a \in DOMAIN alerts |-> <<alerts[a].rule, alerts[a].src>>])} :
     LET order == SelectSeq(Numbers(Len(alerts)), LAMBDA k : root[k] = k)
         Part(k) == {a \in DOMAIN root : root[a] = order[k]}
         RecordsOf(k) == UNION {alerts[a].evidence : a \in Part(k)}
     IN  groups' = [k \in DOMAIN order |->
                      [members |-> Part(k), rule |-> alerts[order[k]].rule, src |-> alerts[order[k]].src,
                       evidence |-> RecordsOf(k),
                       first |-> Min(Times(RecordsOf(k))), last |-> Max(Times(RecordsOf(k)))]]
  /\ phase' = "groups" /\ UNCHANGED <<alerts, stories>>

(* Mutant of Reach: a short group ends the reach of a long one before it. *)
ReachOfLast(reach, k) == groups[k].last
\* The latest activity of a run that goes on with group k.
Reach(reach, k) == Max({reach, groups[k].last})

\* The sweep of correlate over the groups of one source, in the order of their start:
\* `reach` is the latest activity of the current run.
Sweep(root, src) ==
  LET order == SortSeq(SelectSeq(Numbers(Len(groups)), LAMBDA k : groups[k].src = src),
                 LAMBDA j, k : groups[j].first < groups[k].first
                               \/ (groups[j].first = groups[k].first /\ j < k))
      start == [root |-> root, anchor |-> Head(order), reach |-> groups[Head(order)].last]
      Next(sweep, k) ==
        IF groups[k].first <= sweep.reach + Gap
        THEN [sweep EXCEPT !.root = Unite(@, sweep.anchor, k), !.reach = Reach(@, k)]
        ELSE [sweep EXCEPT !.anchor = k, !.reach = groups[k].last]
  IN  FoldLeft(Next, start, Tail(order)).root
Correlated ==
  Components(FoldSet(LAMBDA src, root : Sweep(root, src), Joined(groups, [k \in DOMAIN groups |-> 0]),
                     {groups[k].src : k \in DOMAIN groups}))

\* known_sources: the first success of a user from a source, in the whole stream.
Known(src, user, start) ==
  \E r \in DOMAIN Stream : /\ Stream[r].type = "success" /\ Stream[r].time < start
                           /\ Stream[r].src = src /\ Stream[r].user = user
\* assess and assess_summary
Score(evidence) ==
  LET Of(types) == {r \in evidence : Stream[r].type \in types}
      failures == Of({"failure", "invalid"})
      start == Min(Times(evidence))
      span == Max(Times(evidence)) - start
      Users(types) == {Stream[r].user : r \in Of(types)}
      existing == (Users({"failure"}) \ Users({"invalid"})) \ {Root}
      trusted == \A r \in Of({"success"}) : Known(Stream[r].src, Stream[r].user, start)
      Award(holds, points) == IF holds THEN points ELSE 0
  IN  Award(Of({"success"}) # {}, Weight.success - Award(trusted, Weight.known))
      + Weight.account * Min({Cardinality(existing), AccountCap})
      + Award(Cardinality({Stream[r].host : r \in evidence}) >= 2, Weight.hosts)
      + Award(span >= PersistentSpan /\ Cardinality(failures) >= PersistentFailures, Weight.persistent)
      + Award(Cardinality(failures) >= VolumeRecords, Weight.volume)

\* correlate, assess and the rest of reduce_alerts
Correlate ==
  /\ phase = "groups"
  /\ LET Incident(part) ==
           LET evidence == UNION {groups[k].evidence : k \in part}
           IN  [alerts |-> UNION {groups[k].members : k \in part}, evidence |-> evidence,
                score |-> Score(evidence), surfaced |-> Score(evidence) >= Threshold]
     IN  stories' = {Incident(part) : part \in Correlated}
  /\ phase' = "done" /\ UNCHANGED <<alerts, groups>>

RedInit ==
  /\ alerts \in AlertSets /\ groups = <<>> /\ stories = {} /\ phase = "alerts"
RedNext == Deduplicate \/ Correlate
RedSpec == RedInit /\ [][RedNext]_redVars

(***************************************************************************)
(* Properties                                                                *)
(***************************************************************************)
\* Two alerts are one story when they share a record, or have one source and are at
\* most the gap apart, or when a chain of alerts links them.
Near(a, b) ==
  LET Start(k) == Min(Times(alerts[k].evidence))
      End(k) == Max(Times(alerts[k].evidence))
  IN  \/ alerts[a].evidence \cap alerts[b].evidence # {}
      \/ /\ alerts[a].src = alerts[b].src
         /\ Start(a) <= End(b) + Gap /\ Start(b) <= End(a) + Gap
OneStory(a, b) ==
  \E path \in UNION {[1 .. n -> DOMAIN alerts] : n \in 1 .. Len(alerts)} :
    /\ path[1] = a /\ path[Len(path)] = b
    /\ \A k \in 1 .. Len(path) - 1 : Near(path[k], path[k + 1])

\* Reduction loses no alert and joins exactly what belongs together: after both
\* passes two alerts are in one incident if and only if a chain of shared records or
\* of close activity of one source links them, although groups are joined through
\* the first owner of a record and one sweep per source.
StoriesAreWhole ==
  phase = "done" =>
    \A a, b \in DOMAIN alerts :
      (\E i \in stories : {a, b} \subseteq i.alerts) <=> OneStory(a, b)

\* An incident with a login from a source that had never logged in as that user
\* before it began reaches an analyst, whatever else the incident holds.
FreshSuccessIsSurfaced ==
  phase = "done" =>
    \A i \in stories :
      (\E r \in i.evidence : /\ Stream[r].type = "success"
                             /\ ~Known(Stream[r].src, Stream[r].user, Min(Times(i.evidence))))
        => i.surfaced

\* What reduce_alerts hands to an analyst is every story, whole, and no fresh login
\* among the ones it holds back.
ReductionIsSound == StoriesAreWhole /\ FreshSuccessIsSurfaced
=============================================================================

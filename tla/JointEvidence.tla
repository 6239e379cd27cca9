----------------------------- MODULE JointEvidence --------------------------
(***************************************************************************)
(* How one joint case is read (src/backend/app/telemetry/joint_reader.py,    *)
(* joint_network_reader.py, joint_ssh_reader.py, joint_evidence.py) and what *)
(* the store's contract asks of the result before it publishes it            *)
(* (joint_case_contract.py).  The two were written apart: whatever correlate *)
(* builds, validate_read recomputes from the counts, the timeline and the    *)
(* metadata, and a projection it refuses fails its anchor for good.          *)
(*                                                                           *)
(* An anchor is one revision of a network incident; its evidence is          *)
(* immutable.  The SSH store is read in a transaction of its own, later, and *)
(* changes in between.  Times are small integers; hashes are left out.       *)
(***************************************************************************)
EXTENDS Integers, Sequences, FiniteSets, FiniteSetsExt, SequencesExt

CONSTANTS
  AnchorCases,    \* network incidents: [mapping, active, stale, discontinuity, sshClock,
                  \* evidence], where evidence is a set of [id, at, mono, local] and sshClock says
                  \* that scope.ssh_coverage names a clock discontinuity
  SshEvents,      \* SSH evidence that may be retained: [source, id, peer, at, kind]
  SshSources,     \* the SSH sources mapped to the anchor's asset
  Margin,         \* scope.window_seconds
  LastInstant,    \* MAX_TIME_US
  AnchorSpan,     \* MAX_ANCHOR_SPAN_US
  ClockSlack,     \* one second: the drift of realtime against monotonic time
  TimelineLimit,  \* scope.max_timeline_records
  RecordLimit     \* ReadLimits.record_limit

ASSUME JointEvidenceAssumption ==
  /\ Margin \in Nat /\ LastInstant \in Nat /\ AnchorSpan \in Nat /\ ClockSlack \in Nat
  /\ TimelineLimit \in Nat \ {0} /\ RecordLimit \in Nat \ {0}

SshKinds == {"auth_failure", "auth_success", "preauth_abort"}
Rejections == {"source", "destination", "profile"}
NoInstant == -1

VARIABLES
  anchor,      \* the network incident that is read
  sshStore,    \* the SSH evidence retained now
  stage,       \* "network", "ssh", "done"
  found,       \* the SSH records the reader fetched
  projection,  \* what correlate returned, or << >> after a read error
  atRead       \* history: sshStore as its transaction saw it

evidenceVars == <<anchor, sshStore, stage, found, projection, atRead>>

-----------------------------------------------------------------------------
(* correlate. *)

Ats(records) == {e.at : e \in records}
Offsets(records) == {e.at - e.mono : e \in records}
Monos(records) == {e.mono : e \in records}
Spread(S) == IF S = {} THEN 0 ELSE Max(S) - Min(S)

Rejection(a) ==
  IF a.mapping \in Rejections THEN a.mapping
  ELSE IF \E e \in a.evidence : ~e.local THEN "not_local_tcp" ELSE "none"

NetworkClockBad(a) == a.discontinuity \/ Spread(Offsets(a.evidence)) > ClockSlack
SpanExceeded(a) == Spread(Ats(a.evidence)) > AnchorSpan \/ Spread(Monos(a.evidence)) > AnchorSpan
TemporalAvailable(a) ==
  a.evidence # {} /\ ~NetworkClockBad(a) /\ ~a.sshClock /\ ~SpanExceeded(a)
WindowStart(a) == IF Min(Ats(a.evidence)) < Margin THEN 0 ELSE Min(Ats(a.evidence)) - Margin
WindowEnd(a) == IF Max(Ats(a.evidence)) + Margin > LastInstant THEN LastInstant
                ELSE Max(Ats(a.evidence)) + Margin
EvidenceWindow(a) == IF TemporalAvailable(a) THEN [start |-> WindowStart(a), end |-> WindowEnd(a)]
             ELSE [start |-> NoInstant, end |-> NoInstant]

Matched(a, records) ==
  {r \in records : /\ TemporalAvailable(a) /\ r.source \in SshSources /\ r.peer
                   /\ EvidenceWindow(a).start <= r.at /\ r.at <= EvidenceWindow(a).end}

\* The merged timeline, ordered by time, then kind, source and event.
NetworkRow(e) == [at |-> e.at, mono |-> e.mono, kind |-> 0, source |-> 0, id |-> e.id, type |-> "tcp"]
SshRow(r) == [at |-> r.at, mono |-> 0, kind |-> 1, source |-> r.source, id |-> r.id, type |-> r.kind]
RowBefore(x, y) ==
  \/ x.at < y.at
  \/ x.at = y.at /\ x.kind < y.kind
  \/ x.at = y.at /\ x.kind = y.kind /\ x.source < y.source
  \/ x.at = y.at /\ x.kind = y.kind /\ x.source = y.source /\ x.id < y.id
Ordered(rows) == SortSeq(SetToSeq(rows), RowBefore)

CountsOf(records) ==
  [s \in {r.source : r \in records} |->
     [k \in SshKinds |-> Cardinality({r \in records : r.source = s /\ r.kind = k})]]

Uncertainties(a, records) ==
  LET rows == Cardinality(a.evidence) + Cardinality(Matched(a, records))
  IN  {u \in {"network_clock", "ssh_clock", "span", "single", "no_evidence", "no_association",
              "truncated", "retracted", "stale"} :
         \/ u = "network_clock" /\ NetworkClockBad(a)
         \/ u = "ssh_clock" /\ a.sshClock
         \/ u = "span" /\ SpanExceeded(a)
         \/ u = "single" /\ Cardinality(a.evidence) = 1
         \/ u = "no_evidence" /\ a.evidence = {}
         \/ u = "no_association" /\ ~TemporalAvailable(a)
         \/ u = "truncated" /\ rows > TimelineLimit
         \/ u = "retracted" /\ ~a.active
         \/ u = "stale" /\ a.active /\ a.stale}

Reasons(available, kinds) ==
  {"mapping", "anchor"} \cup
  (IF kinds # {}
   THEN {"peer", "in_window"} \cup (kinds \cap SshKinds)
   ELSE {IF available THEN "no_match" ELSE "not_evaluated"})

(* Mutant of CaseState: a timeline that was cut off is not counted as partial. *)
CaseStateCut(a, records) ==
  IF ~a.active THEN "retracted"
  ELSE IF a.stale THEN "stale"
  ELSE IF ~TemporalAvailable(a) THEN "partial"
  ELSE IF Matched(a, records) # {} THEN "linked" ELSE "unmatched"

CaseState(a, records) ==
  LET rows == Cardinality(a.evidence) + Cardinality(Matched(a, records))
  IN  IF ~a.active THEN "retracted"
      ELSE IF a.stale THEN "stale"
      ELSE IF ~TemporalAvailable(a) \/ rows > TimelineLimit THEN "partial"
      ELSE IF Matched(a, records) # {} THEN "linked" ELSE "unmatched"

Rejected(reason) == [state |-> "rejected", reasons |-> {reason}]
JointCorrelate(a, records) ==
  IF Rejection(a) # "none" THEN Rejected(Rejection(a))
  ELSE LET matched == Matched(a, records)
           rows == Ordered({NetworkRow(e) : e \in a.evidence} \cup {SshRow(r) : r \in matched})
       IN  [state |-> CaseState(a, records),
            window |-> EvidenceWindow(a),
            available |-> TemporalAvailable(a),
            complete |-> Len(rows) <= TimelineLimit,
            reasons |-> Reasons(TemporalAvailable(a), {r.kind : r \in matched}),
            uncertainties |-> Uncertainties(a, records),
            network |-> Cardinality(a.evidence),
            ssh |-> CountsOf(matched),
            candidates |-> Cardinality(records),
            observed |-> Len(rows),
            timeline |-> SubSeq(rows, 1, IF Len(rows) < TimelineLimit THEN Len(rows)
                                         ELSE TimelineLimit)]

-----------------------------------------------------------------------------
(* validate_read: the contract's own account of a projection. *)

KindTotal(counts) == MapThenSumSet(LAMBDA k : counts[k], SshKinds)
SshTotal(p) == MapThenSumSet(LAMBDA s : KindTotal(p.ssh[s]), DOMAIN p.ssh)
RowsOf(p, kind) == {p.timeline[n] : n \in {m \in DOMAIN p.timeline : p.timeline[m].kind = kind}}

\* _metadata: the SSH store is read exactly when the association can be evaluated.
MetadataAgrees(p, records) ==
  IF p.state = "rejected" THEN records = {}
  ELSE (p.available \/ records = {}) /\ Cardinality(records) = SshTotal(p)

\* _timeline: the rows are distinct, in order, the SSH ones inside the window.
TimelineAgrees(p) ==
  /\ \A n \in 1 .. Len(p.timeline) - 1 : RowBefore(p.timeline[n], p.timeline[n + 1])
  /\ \A r \in RowsOf(p, 1) :
       /\ r.source \in DOMAIN p.ssh /\ p.available
       /\ p.window.start <= r.at /\ r.at <= p.window.end

\* _projection: counts, completeness, uncertainties, window, state and reasons.
CountsAgree(p) ==
  /\ \A s \in DOMAIN p.ssh : KindTotal(p.ssh[s]) >= 1
  /\ p.candidates = SshTotal(p) /\ p.observed = p.network + SshTotal(p)
  /\ p.network <= RecordLimit /\ SshTotal(p) <= RecordLimit
  /\ Len(p.timeline) = (IF p.observed < TimelineLimit THEN p.observed ELSE TimelineLimit)
  /\ p.complete = (p.observed <= TimelineLimit)
UncertaintiesAgree(p) ==
  /\ ("truncated" \in p.uncertainties) = (p.observed > TimelineLimit)
  /\ ("no_evidence" \in p.uncertainties) = (p.network = 0)
  /\ ("single" \in p.uncertainties) = (p.network = 1)
  /\ ("no_association" \in p.uncertainties) = ~p.available
  /\ ("retracted" \in p.uncertainties) = (p.state = "retracted")
  /\ ("stale" \in p.uncertainties) = (p.state = "stale")
  /\ p.available = (p.network > 0 /\ p.uncertainties \cap {"network_clock", "ssh_clock", "span"} = {})
WindowAgrees(p) ==
  IF p.available
  THEN /\ 0 <= p.window.start /\ p.window.start <= p.window.end /\ p.window.end <= LastInstant
       /\ p.window.end - p.window.start <= AnchorSpan + 2 * Margin
  ELSE p.window.start = NoInstant /\ p.window.end = NoInstant /\ SshTotal(p) = 0
ExpectedState(p) ==
  IF p.observed > TimelineLimit \/ ~p.available THEN "partial"
  ELSE IF SshTotal(p) > 0 THEN "linked" ELSE "unmatched"
StateAgrees(p) == p.state \in {"stale", "retracted"} \/ p.state = ExpectedState(p)
ReasonsAgree(p) ==
  p.reasons = Reasons(p.available, {k \in SshKinds : \E s \in DOMAIN p.ssh : p.ssh[s][k] > 0})

\* _projection: what the saved rows show of the counts, the clocks and the window.
RowsAgree(p) ==
  LET net == RowsOf(p, 0)
      ssh == RowsOf(p, 1)
      all == Cardinality(net) = p.network
      wide == Spread(Ats(net)) > AnchorSpan \/ Spread(Monos(net)) > AnchorSpan
  IN  /\ Cardinality(net) <= p.network /\ Cardinality(ssh) <= SshTotal(p)
      /\ \A s \in DOMAIN p.ssh, k \in SshKinds :
           Cardinality({r \in ssh : r.source = s /\ r.type = k}) <= p.ssh[s][k]
      /\ p.complete => all /\ Cardinality(ssh) = SshTotal(p)
      /\ net # {} =>
           /\ wide => "span" \in p.uncertainties
           /\ all => wide = ("span" \in p.uncertainties)
           /\ Spread(Offsets(net)) > ClockSlack => "network_clock" \in p.uncertainties
           /\ p.available /\ all =>
                /\ p.window.start = (IF Min(Ats(net)) < Margin THEN 0 ELSE Min(Ats(net)) - Margin)
                /\ p.window.end = (IF Max(Ats(net)) + Margin > LastInstant THEN LastInstant
                                   ELSE Max(Ats(net)) + Margin)

\* validate_read, with the scope's own view of the mapping.
ValidRead(a, p, records) ==
  IF p.state = "rejected"
  THEN /\ p.reasons = {IF a.mapping \in Rejections THEN a.mapping ELSE "not_local_tcp"}
       /\ MetadataAgrees(p, records)
  ELSE /\ a.mapping \notin Rejections /\ DOMAIN p.ssh \subseteq SshSources
       /\ MetadataAgrees(p, records) /\ CountsAgree(p) /\ UncertaintiesAgree(p)
       /\ WindowAgrees(p) /\ StateAgrees(p) /\ ReasonsAgree(p) /\ TimelineAgrees(p)
       /\ RowsAgree(p)

-----------------------------------------------------------------------------
(* read_joint_evidence. *)

EvidenceInit ==
  /\ anchor \in AnchorCases /\ sshStore = {} /\ stage = "network"
  /\ found = {} /\ projection = << >> /\ atRead = {}

\* The SSH store: incident evidence is retained, and leaves with its incident.
SshRetained ==
  /\ stage # "done"
  /\ \E e \in SshEvents \ sshStore : sshStore' = sshStore \cup {e}
  /\ UNCHANGED <<anchor, stage, found, projection, atRead>>
SshDropped ==
  /\ stage # "done"
  /\ \E e \in sshStore : sshStore' = sshStore \ {e}
  /\ UNCHANGED <<anchor, stage, found, projection, atRead>>

\* read_network_case and the probe that decides whether the SSH store is read at all.
ReadNetwork ==
  /\ stage = "network"
  /\ IF Cardinality(anchor.evidence) > RecordLimit
     THEN stage' = "done" /\ projection' = << >>
     ELSE LET probe == JointCorrelate(anchor, {})
          IN  /\ stage' = IF probe.state # "rejected" /\ TemporalAvailable(anchor) THEN "ssh" ELSE "done"
              /\ projection' = probe
  /\ UNCHANGED <<anchor, sshStore, found, atRead>>

\* read_ssh_evidence: the records of the mapped sources, this peer and the window.
Fetch(a, records) ==
  {r \in records : /\ r.source \in SshSources /\ r.peer
                   /\ EvidenceWindow(a).start <= r.at /\ r.at <= EvidenceWindow(a).end}
ReadSsh ==
  /\ stage = "ssh" /\ stage' = "done" /\ atRead' = sshStore
  /\ LET records == Fetch(anchor, sshStore)
     IN  IF Cardinality(records) > RecordLimit
         THEN found' = {} /\ projection' = << >>
         ELSE found' = records /\ projection' = JointCorrelate(anchor, records)
  /\ UNCHANGED <<anchor, sshStore>>

EvidenceNext == SshRetained \/ SshDropped \/ ReadNetwork \/ ReadSsh
EvidenceSpec == EvidenceInit /\ [][EvidenceNext]_evidenceVars

-----------------------------------------------------------------------------
\* What the reader builds the contract accepts: no anchor fails for a disagreement of the two.
ReaderMeetsContract ==
  stage = "done" /\ projection # << >> => ValidRead(anchor, projection, found)

\* The SSH evidence that belongs to an anchor, said without the code's window: within the margin of
\* the first and the last packet.
Related(a, records) ==
  {r \in records : /\ r.source \in SshSources /\ r.peer
                   /\ \E e \in a.evidence : r.at + Margin >= e.at
                   /\ \E e \in a.evidence : r.at <= e.at + Margin}

\* A case is called unmatched or linked only when its clocks allow the association, everything read
\* is saved, and the SSH store held no related evidence, or some; an omission makes it partial.
NoFalseVerdict ==
  stage = "done" /\ projection # << >> /\ projection.state \in {"linked", "unmatched"} =>
    /\ TemporalAvailable(anchor) /\ projection.complete
    /\ (projection.state = "linked") = (Related(anchor, atRead) # {})
    /\ Cardinality(RowsOf(projection, 1)) = Cardinality(Related(anchor, atRead))
=============================================================================

----------------------------- MODULE JointDossier ---------------------------
(***************************************************************************)
(* What a model is shown of a joint case, and what of its answer is kept:    *)
(* the summary of a saved projection                                         *)
(* (src/backend/app/telemetry/joint_ai_summary.py), the dossier schema that  *)
(* both the builder and the reader of a dossier insist on, and the checks of *)
(* a proposal (src/backend/app/agents/joint_triage.py).                      *)
(*                                                                           *)
(* Aliases are one to one, so an event keeps its identity; sizes in bytes    *)
(* are left out.                                                             *)
(***************************************************************************)
EXTENDS JointEvidence

CONSTANTS
  SummaryLimit   \* record_limit of a summary

ASSUME JointDossierAssumption == SummaryLimit \in Nat \ {0}

RefreshStates == {"fresh", "pending", "unavailable", "needs_review", "not_eligible"}
\* SnapshotContext: what the saved case's store said when it was read.
Contexts == [pending : BOOLEAN, latest : BOOLEAN, refresh : RefreshStates, error : BOOLEAN,
             freshness : {"current", "stale", "unknown"}]

\* _review_state
ReviewState(c, p) ==
  IF c.pending THEN "revalidation_required"
  ELSE IF ~c.latest THEN "historical"
  ELSE IF p.state \in {"stale", "retracted"} \/ c.freshness = "stale" THEN "stale"
  ELSE IF c.refresh # "fresh" \/ c.error THEN "unavailable"
  ELSE IF c.freshness = "current" THEN "current" ELSE "unknown"

\* _select: prefixes of both kinds, taken in turns until the limit is reached.
DossierRank(p, n) == Cardinality({m \in 1 .. n - 1 : p.timeline[m].kind = p.timeline[n].kind})
Turn(p, m, n) ==
  DossierRank(p, m) < DossierRank(p, n) \/ (DossierRank(p, m) = DossierRank(p, n) /\ p.timeline[m].kind < p.timeline[n].kind)
Select(p) ==
  {p.timeline[n] : n \in {k \in DOMAIN p.timeline :
                            Cardinality({m \in DOMAIN p.timeline : Turn(p, m, k)}) < SummaryLimit}}

OfKind(rows, kind) == {r \in rows : r.kind = kind}

\* _build: the dossier of a projection that is not rejected.
Origin(p) ==
  IF p.available THEN p.window.start
  ELSE IF p.timeline = << >> THEN 0 ELSE p.timeline[1].at
Limitations(p, whole) ==
  {l \in {"timeline_truncated", "summary_truncated", "temporal_unavailable", "span_exceeded",
          "clock_unverifiable", "no_network_evidence"} :
     \/ l = "timeline_truncated" /\ ~p.complete
     \/ l = "summary_truncated" /\ ~whole
     \/ l = "temporal_unavailable" /\ ~p.available
     \/ l = "span_exceeded" /\ "span" \in p.uncertainties
     \/ l = "clock_unverifiable" /\ "single" \in p.uncertainties
     \/ l = "no_network_evidence" /\ "no_evidence" \in p.uncertainties}
Build(p, context) ==
  LET selected == Select(p)
      whole == Cardinality(selected) = Len(p.timeline)
      observed == [k \in {0, 1} |-> IF k = 0 THEN p.network ELSE SshTotal(p)]
  IN  [association |-> p.state,
       review |-> ReviewState(context, p),
       timelineComplete |-> p.complete, summaryComplete |-> whole,
       available |-> p.available,
       duration |-> IF p.available THEN p.window.end - p.window.start ELSE NoInstant,
       counts |-> [k \in {0, 1} |-> [observed |-> observed[k], retained |-> Cardinality(RowsOf(p, k)),
                                     included |-> Cardinality(OfKind(selected, k))]],
       limitations |-> Limitations(p, whole),
       evidence |-> {[row |-> r, offset |-> r.at - Origin(p)] : r \in selected}]

\* Dossier.consistent: the builder's own check, and that of everyone who is handed a dossier.
CountsConsistent(d) ==
  \A k \in {0, 1} :
    /\ d.counts[k].included <= d.counts[k].retained /\ d.counts[k].retained <= d.counts[k].observed
    /\ d.counts[k].included = Cardinality({e \in d.evidence : e.row.kind = k})
StatesConsistent(d) ==
  /\ d.summaryComplete = (\A k \in {0, 1} : d.counts[k].included = d.counts[k].retained)
  /\ d.timelineComplete = (\A k \in {0, 1} : d.counts[k].retained = d.counts[k].observed)
  /\ d.association \in {"linked", "unmatched"} =>
       /\ d.available /\ d.timelineComplete
       /\ (d.association = "linked") = (d.counts[1].observed > 0)
  /\ ~d.available => d.counts[1].observed = 0
WindowConsistent(d) ==
  IF d.available
  THEN d.counts[0].observed > 0 /\ d.duration >= 0
       /\ \A e \in d.evidence : 0 <= e.offset /\ e.offset <= d.duration
  ELSE d.duration = NoInstant /\ \A e \in d.evidence : 0 <= e.offset
LimitationsConsistent(d) ==
  /\ ("no_network_evidence" \in d.limitations) = (d.counts[0].observed = 0)
  /\ ("timeline_truncated" \in d.limitations) = ~d.timelineComplete
  /\ ("summary_truncated" \in d.limitations) = ~d.summaryComplete
  /\ ("temporal_unavailable" \in d.limitations) = ~d.available
Consistent(d) ==
  /\ Cardinality(d.evidence) <= SummaryLimit
  /\ CountsConsistent(d) /\ StatesConsistent(d) /\ WindowConsistent(d) /\ LimitationsConsistent(d)

-----------------------------------------------------------------------------
(* A proposal and its typed checks. *)

ClaimKinds == {"network_observed", "ssh_failure", "auth_succeeded", "associated"}

\* _supports; the destination ports and accounts of records are left out.
Supports(kind, rows, d) ==
  LET net == OfKind(rows, 0)
      ssh == OfKind(rows, 1)
  IN  \/ kind = "network_observed" /\ net # {} /\ ssh = {}
      \/ kind = "ssh_failure" /\ ssh # {} /\ net = {} /\ \A r \in ssh : r.type = "auth_failure"
      \/ kind = "auth_succeeded" /\ ssh # {} /\ net = {} /\ \A r \in ssh : r.type = "auth_success"
      \/ /\ kind = "associated" /\ net # {} /\ ssh # {} /\ d.available
         /\ d.association \in {"linked", "partial"}
         /\ d.limitations \cap {"temporal_unavailable", "span_exceeded", "clock_unverifiable"} = {}

\* validate: a proposal is a verdict, whether it names this dossier's revision, and one claim with
\* the rows it cites (or no claim, with rows = {}).
Reviewed(d, q) ==
  LET known == {e.row : e \in d.evidence}
  IN  \/ q.rows \ known # {}
      \/ ~q.sameRevision
      \/ q.claim # "none" /\ q.rows \subseteq known /\ ~Supports(q.claim, q.rows, d)
      \/ /\ q.verdict = "escalate"
         /\ \/ d.review # "current" \/ d.association \in {"stale", "retracted"}
            \/ d.evidence = {} \/ q.rows = {} \/ q.claim = "none"
Validate(d, q) == IF Reviewed(d, q) THEN "abstain" ELSE q.verdict

\* Every row a proposal may cite: those of the timeline, and one nobody has seen.
Unseen == [at |-> 0, mono |-> 0, kind |-> 1, source |-> 0, id |-> 0, type |-> "auth_success"]
Proposals(p) ==
  [verdict : {"escalate", "abstain"}, sameRevision : BOOLEAN, claim : ClaimKinds \cup {"none"},
   rows : SUBSET ({p.timeline[n] : n \in DOMAIN p.timeline} \cup {Unseen})]

-----------------------------------------------------------------------------
Saved == stage = "done" /\ projection # << >> /\ projection.state # "rejected"
Fresh == [pending |-> FALSE, latest |-> TRUE, refresh |-> "fresh", error |-> FALSE,
          freshness |-> "current"]

\* Every case the store's contract admits can be summarised: the builder and the dossier schema
\* agree however much of the timeline or of the summary is cut off.
EveryCaseHasADossier == Saved => Consistent(Build(projection, Fresh))

\* A proposal that escalates by associating the two kinds of evidence passes only if it cites SSH
\* evidence the store really held of this peer within the margin, and the case is linked or its
\* omissions are declared; and no context but a current one lets an escalation pass.
EscalationIsGrounded ==
  Saved =>
    \E d \in {Build(projection, Fresh)} :
      /\ \A q \in Proposals(projection) :
           Validate(d, q) = "escalate" /\ q.claim = "associated" =>
             /\ {[source |-> r.source, id |-> r.id] : r \in OfKind(q.rows, 1)} \subseteq
                  {[source |-> r.source, id |-> r.id] : r \in Related(anchor, atRead)}
             /\ anchor.active /\ ~anchor.stale /\ Cardinality(anchor.evidence) > 1
      /\ \A c \in Contexts \ {Fresh} : ReviewState(c, projection) # "current"

\* From the two stores to an accepted verdict (JointEvidenceReader, JointCaseContract, the dossier
\* and its validation): reader and contract agree, no false verdict, and every escalation that
\* passes is grounded in evidence that was there.
DossiersAreSound ==
  ReaderMeetsContract /\ NoFalseVerdict /\ EveryCaseHasADossier /\ EscalationIsGrounded
=============================================================================

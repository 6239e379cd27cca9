--------------------------- MODULE TriageEvidence ---------------------------
(***************************************************************************)
(* The checks on a model's verdict (src/backend/app/agents/                  *)
(* triage_evidence.py): a dossier of typed evidence, the proposal the model  *)
(* returns for it, and validate, which keeps the proposal's verdict or turns *)
(* it into an abstention.                                                    *)
(*                                                                           *)
(* A piece of evidence is a record with a `kind`; an HTTP operation is a     *)
(* method with a path, and an answer to it also has a status.  A record      *)
(* stands for its event_id: a dossier is a set, without duplicates.          *)
(***************************************************************************)
EXTENDS Integers, FiniteSets, FiniteSetsExt

CONSTANTS
  Evidence,        \* the records a dossier may be made of
  TriageProposals, \* what the model may answer
  MaxEvidence,     \* records of a dossier: 100 in the code
  RetryFailures,   \* failures of a known user's retry: 3 in the code
  RetrySpan        \* its length: 300 seconds in the code

ASSUME TriageEvidenceAssumption == RetryFailures \in Nat \ {0} /\ RetrySpan \in Nat /\ MaxEvidence \in Nat

(* Mutant of Logins: a login to the application is not taken for one. *)
SshLogins == {"auth_success"}
Logins == {"auth_success", "app_auth_success"}
IsAuth(r) == r.kind \in {"auth_failure", "invalid_user"} \cup Logins
IsHttp(r) == r.kind = "http_request"
IsExploit(r) == r.kind = "exploit_confirmation"

\* _observed: what was seen, as against the context that explains it.
Observed(rows) == {r \in rows : IsAuth(r) \/ IsHttp(r) \/ IsExploit(r)}

Account(r) == <<r.host, r.account>>
TriageOrigin(r) == <<r.source, r.host, r.account>>
TriageContexts(rows, kind) == {r \in rows : r.kind = kind}

\* What is observed, and the window of an authorization, have their times.
ASSUME EvidenceTimesAssumption ==
  /\ \A r \in Observed(Evidence) : r.time \in Int
  /\ \A r \in TriageContexts(Evidence, "authorization") : r.from \in Int /\ r.until \in Int

\* Dossier.unique_and_consistent.
TriageConsistent(d) ==
  LET seen == Observed(d.evidence) IN
  /\ seen # {}
  /\ d.kind = "ssh" => \A r \in seen : ~IsHttp(r) /\ r.kind # "app_auth_success"
  /\ d.kind = "http" => \A r \in seen : IsAuth(r) => r.kind = "app_auth_success"
  /\ \A r, s \in TriageContexts(d.evidence, "account_context") : Account(r) = Account(s) => r.class = s.class
  /\ \A r \in TriageContexts(d.evidence, "source_history") :
       /\ \A s \in TriageContexts(d.evidence, "source_history") : TriageOrigin(r) = TriageOrigin(s) => r.familiarity = s.familiarity
       /\ \A e \in seen : IsAuth(e) /\ TriageOrigin(e) = TriageOrigin(r) => r.end <= e.time

-----------------------------------------------------------------------------
\* _covers: an authorization names source, host, time and account or operation.
Covers(approval, e) ==
  /\ e.source = approval.source /\ e.host = approval.host
  /\ approval.from <= e.time /\ e.time <= approval.until
  /\ IF IsHttp(e) THEN e.operation \in approval.operations
     ELSE IsAuth(e) /\ e.account \in approval.accounts

\* _expected: host, operation and status as configured.
Expected(service, e) ==
  IsHttp(e) /\ e.host = service.host /\ <<e.operation, e.status>> \in service.routes

\* checks[kind] of _supports.
Direct(kind, r) ==
  CASE kind = "authentication_succeeded" -> r.kind \in Logins
    [] kind = "exploitation_confirmed" -> IsExploit(r)
    [] kind \in {"source_familiar", "source_unfamiliar"} ->
         r.kind = "source_history" /\ kind = (IF r.familiarity = "familiar" THEN "source_familiar"
                                              ELSE IF r.familiarity = "unfamiliar" THEN "source_unfamiliar" ELSE "")
    [] kind = "account_owned" -> r.kind = "account_context" /\ r.class = "organisation"
    [] kind = "generic_account" -> r.kind = "account_context" /\ r.class = "generic"
    [] kind = "activity_authorized" -> r.kind = "authorization"
    [] kind = "http_operation_expected" -> r.kind = "service_context"

\* _supports: a claim rests on records of its own kind and on observations; a
\* claim of coverage covers the observations it cites, or all of them.
Supported(claim, rows) ==
  LET direct == {r \in claim.proof : Direct(claim.kind, r)}
      scoped == IF Observed(claim.proof) # {} THEN Observed(claim.proof) ELSE Observed(rows)
  IN /\ direct # {}
     /\ claim.proof \ direct \subseteq Observed(rows)
     /\ claim.kind = "activity_authorized" => \A e \in scoped : \E a \in direct : Covers(a, e)
     /\ claim.kind = "http_operation_expected" => \A e \in scoped : \E s \in direct : Expected(s, e)

-----------------------------------------------------------------------------
(* _dismiss_supported: the preconditions of each basis for a dismissal. *)

KnownUserRetry(seen, context, asserted) ==
  LET failures == {r \in seen : r.kind = "auth_failure"}
      logins == {r \in seen : r.kind = "auth_success"}
      times == {r.time : r \in seen}
  IN /\ seen = failures \cup logins
     /\ Cardinality({TriageOrigin(r) : r \in seen}) = 1
     /\ \A r \in seen : \E h \in context : Direct("source_familiar", h) /\ TriageOrigin(h) = TriageOrigin(r)
     /\ \A r \in seen : \E a \in context : Direct("account_owned", a) /\ Account(a) = Account(r)
     /\ Cardinality(failures) \in 1 .. RetryFailures /\ Cardinality(logins) = 1
     /\ \A l \in logins, f \in failures : l.time > f.time
     /\ Max(times) - Min(times) <= RetrySpan
     /\ {"account_owned", "source_familiar", "authentication_succeeded"} \subseteq asserted

GenericScan(seen, context, asserted) ==
  /\ \A r \in seen : /\ r.kind \in {"auth_failure", "invalid_user"}
                     /\ \E a \in context : Direct("generic_account", a) /\ Account(a) = Account(r)
                     /\ \E s \in seen : s.kind = "invalid_user" /\ Account(s) = Account(r)
  /\ "generic_account" \in asserted

AuthorizedActivity(seen, context, asserted) ==
  /\ \A e \in seen : \E a \in TriageContexts(context, "authorization") : Covers(a, e)
  /\ "activity_authorized" \in asserted

ExpectedOperation(seen, context, asserted) ==
  /\ \A e \in seen : \E s \in TriageContexts(context, "service_context") : Expected(s, e)
  /\ "http_operation_expected" \in asserted

DismissSupported(basis, rows, cited, claims) ==
  LET seen == Observed(rows)
      context == rows \cap cited
      asserted == {c.kind : c \in claims}
  IN /\ \A r \in seen : ~IsExploit(r)
     /\ \/ basis = "known_user_retry" /\ KnownUserRetry(seen, context, asserted)
        \/ /\ \A r \in seen : r.kind \notin Logins
           /\ \/ basis = "generic_scan" /\ GenericScan(seen, context, asserted)
              \/ basis = "authorized_activity" /\ AuthorizedActivity(seen, context, asserted)
              \/ basis = "expected_http_operation" /\ ExpectedOperation(seen, context, asserted)

\* The codes with which validate rejects proposal p for dossier d.
TriageReasons(p, d) ==
  LET referenced == p.cited \cup UNION {c.proof : c \in p.claims}
      known(c) == c.proof \subseteq d.evidence
      when(condition, code) == IF condition THEN {code} ELSE {}
  IN IF ~p.wellFormed THEN {"invalid_schema"}
     ELSE UNION {
       when(~(referenced \subseteq d.evidence), "unknown_evidence"),
       when(p.revision # d.revision, "stale_revision"),
       when(d.status = "stale" /\ p.verdict # "abstain", "stale_evidence"),
       when(p.verdict # "abstain" /\ referenced \cap Observed(d.evidence) = {}, "missing_observed_evidence"),
       when(\E c \in p.claims : known(c) /\ ~Supported(c, d.evidence), "unsupported_claim"),
       when(p.verdict = "dismiss" /\ d.status # "complete", "incomplete_evidence"),
       when(p.verdict = "dismiss" /\ p.confidence = "low", "uncertain_dismissal"),
       when(p.verdict = "dismiss" /\ ~DismissSupported(p.basis, d.evidence, referenced, p.claims),
            "unsupported_dismissal"),
       when(p.verdict # "dismiss" /\ p.basis # "none", "unexpected_dismissal_basis")}

\* validate.
Validated(p, d) == IF TriageReasons(p, d) = {} THEN p.verdict ELSE "abstain"

-----------------------------------------------------------------------------
(* A dossier grows as evidence arrives, and the model answers it. *)

VARIABLES
  dossier,     \* [kind, revision, status, evidence]
  reply        \* the proposal and the verdict validate made of it

triageVars == <<dossier, reply>>
NoReply == [proposal |-> {}, verdict |-> "none"]

TriageInit ==
  /\ dossier \in [kind : {"ssh", "http"}, revision : {1}, status : {"complete", "gapped", "stale"}, evidence : {{}}]
  /\ reply = NoReply

AddEvidence ==
  /\ Cardinality(dossier.evidence) < MaxEvidence
  /\ \E r \in Evidence \ dossier.evidence : dossier' = [dossier EXCEPT !.evidence = @ \cup {r}]
  /\ reply' = NoReply

AnswerDossier ==
  /\ TriageConsistent(dossier)
  /\ \E p \in TriageProposals : reply' = [proposal |-> p, verdict |-> Validated(p, dossier)]
  /\ UNCHANGED dossier

TriageNext == AddEvidence \/ AnswerDossier
TriageSpec == TriageInit /\ [][TriageNext]_triageVars

-----------------------------------------------------------------------------
(* Properties. *)

\* Why one observation, taken by itself, may be left alone.
Explained(e, p) ==
  LET context == p.cited \cup UNION {c.proof : c \in p.claims}
      about(c) == c.host = e.host
  IN \/ \E a \in context : a.kind = "authorization" /\ about(a) /\ a.source = e.source
                             /\ e.time \in a.from .. a.until
                             /\ IF IsHttp(e) THEN e.operation \in a.operations ELSE e.account \in a.accounts
     \/ \E s \in context : s.kind = "service_context" /\ about(s) /\ IsHttp(e)
     \/ \E a \in context : a.kind = "account_context" /\ about(a) /\ IsAuth(e) /\ a.account = e.account
                             /\ a.class # "unknown"

\* A dismissal that passes rests on complete, current evidence and leaves no
\* observation without cited context about its own host and account; and there
\* is no login or confirmed exploit that, once in the dossier, would not take
\* the dismissal back: one model answer can never talk a success away
\* (triage_evidence.py:290-329, the bases listed to the model at :205-215).
DismissalIsGrounded ==
  reply.verdict = "dismiss" =>
    /\ dossier.status = "complete" /\ reply.proposal.confidence # "low"
    /\ \A e \in Observed(dossier.evidence) : Explained(e, reply.proposal)
    /\ \A e \in Evidence \ dossier.evidence :
         e.kind \in {"auth_success", "app_auth_success", "exploit_confirmation"} =>
           Validated(reply.proposal, [dossier EXCEPT !.evidence = @ \cup {e}]) # "dismiss"
=============================================================================

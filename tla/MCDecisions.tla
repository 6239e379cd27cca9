---------------------------- MODULE MCDecisions -----------------------------
(* Correlation, verdicts, reviews, lists, flows and plans for model         *)
(* checking.  Each behaviour is about one of them, its subject; what the    *)
(* others keep stays as it is.                                              *)
EXTENDS SshIncidents, HttpAnalysis, NetworkGuard, PagedReads, Reduction, SocWorkflow,
        Remediation, JointDossier, TriageEvidence, TLC

-----------------------------------------------------------------------------
(* SSH incidents: two sources, four records.  The thresholds are scaled    *)
(* down, so that each rule can match with the others or alone.             *)

TwoSources == <<"a", "b">>
SomeRules == <<[window |-> 0, records |-> 2, users |-> 0, sources |-> 1],
               [window |-> 2, records |-> 3, users |-> 0, sources |-> 1],
               [window |-> 2, records |-> 2, users |-> 2, sources |-> 1]>>
SomeCrossRule == [window |-> 1, records |-> 3, users |-> 0, sources |-> 2]
UserOf == <<"root", "none", "root", "admin">>

(* Times and sources from those of the first record on, not all at one     *)
(* instant; the second record is an aborted connection, the last one may   *)
(* be a success.                                                           *)
SomeRows ==
    {f \in {[e \in 1 .. 4 |-> [src |-> src[e], at |-> at[e], user |-> UserOf[e],
                             kind |-> IF e = 2 THEN "preauth_abort"
                                      ELSE IF e = 4 THEN last ELSE "auth_failure"]] :
               src \in {f \in [1 .. 4 -> {"a", "b"}] : f[1] = "a"},
               at \in {f \in [1 .. 4 -> 0 .. 2] : f[1] = 0 /\ f[4] > 0},
               last \in {"auth_failure", "auth_success"}} :
        \A e \in 1 .. 3 : \/ f[e].at < f[e + 1].at
                          \/ f[e].at = f[e + 1].at /\ (f[e].src = "a" \/ f[e + 1].src = "b")}
SomeUuids == {<<1, 2, 3, 4>>, <<4, 3, 2, 1>>}

(* HTTP: requests on both sides of an hour; two are of a sensitive path,   *)
(* two are denied.                                                         *)
RequestTimes == (1 :> 0) @@ (2 :> 3) @@ (3 :> 4) @@ (4 :> 5)
RequestPaths == (1 :> 1) @@ (2 :> 2) @@ (3 :> 3) @@ (4 :> 3)
SomeMatches == [sensitive |-> {1, 4}]
SomePoints == [sensitive |-> 25, scan |-> 30]

(* Firewall rules: a denying rule with and without more conditions, and    *)
(* rules the guard must refuse.                                            *)
Statement(s) == [statement |-> s]
Packets == [packets |-> 0]
OnPort == [static |-> "dport"]
Inverted == [test |-> "saddr", op |-> "!=", set |-> "banned"]
SomeShapes == {<<Lookup("banned"), Packets, Statement("drop")>>,
               <<OnPort, Lookup("banned"), Statement("reject")>>,
               <<Lookup("banned"), Statement("accept")>>, <<Inverted, Statement("drop")>>,
               <<Packets, Statement("drop")>>, <<Lookup("banned"), Inverted, Statement("drop")>>}
SomeObjects == {[kind |-> "map", refers |-> "banned"], [kind |-> "map", refers |-> "other"]}

(* Alerts of two sources and two rules over a short log, up to three of    *)
(* them with one or two records each.                                      *)
Entry(type, user, src, host, time) ==
    [type |-> type, user |-> user, src |-> src, host |-> host, time |-> time]
SomeStream == <<Entry("success", "u", 1, "h", 0), Entry("failure", "u", 1, "h", 3),
                Entry("invalid", "v", 1, "h", 5), Entry("success", "u", 1, "g", 8),
                Entry("failure", "root", 2, "h", 5), Entry("success", "w", 2, "h", 6)>>
AlertsFrom(src) ==
    {[rule |-> rule, src |-> src, evidence |-> e] :
        rule \in {1, 2},
        e \in {x \in SUBSET {k \in DOMAIN SomeStream : SomeStream[k].src = src} :
                 Cardinality(x) \in 1 .. 2}}
SomeAlerts == {a \in [1 .. 3 -> AlertsFrom(1) \cup AlertsFrom(2)] : a[1].rule = 1}
                \cup [1 .. 1 -> AlertsFrom(1) \cup AlertsFrom(2)]
SomeWeights == [success |-> 50, known |-> 40, account |-> 12, hosts |-> 10, persistent |-> 15,
                volume |-> 5]

(* Flows: a batch with duplicates, one that escalates nothing, one with a  *)
(* source nobody parses and one whose parser raises.                       *)
Alert(key, ssh, host, severity) == [key |-> key, ssh |-> ssh, host |-> host, severity |-> severity]
Source(known, broken, seen) == [known |-> known, broken |-> broken, alerts |-> seen]
SomeBatches ==
    {<<Source(TRUE, FALSE, <<Alert(1, TRUE, "web", 45), Alert(2, TRUE, "x", 45),
                             Alert(1, TRUE, "web", 45)>>),
       Source(TRUE, FALSE, <<Alert(1, TRUE, "web", 45), Alert(3, FALSE, "x", 70)>>)>>,
     <<Source(TRUE, FALSE, <<Alert(2, FALSE, "x", 20)>>)>>,
     <<Source(TRUE, FALSE, <<Alert(2, FALSE, "x", 20)>>), Source(FALSE, FALSE, <<>>)>>,
     <<Source(TRUE, TRUE, <<>>)>>}
SomeBonus == ("web" :> 10) @@ ("x" :> 0)

(* Plans: files with Include and Match lines, and one sshd cannot read;    *)
(* a scope nobody approved and one that opens later.                       *)
Scope(approved, from, until, autonomy) ==
    [approved |-> approved, bound |-> TRUE, actors |-> {"op"}, targets |-> {"h"},
     readable |-> TRUE, from |-> from, until |-> until, autonomy |-> autonomy]
SomeScopes == {Scope(TRUE, 0, 1, 3), Scope(FALSE, 0, 1, 3), Scope(TRUE, 1, 2, 4)}
SomeContents == {[type |-> "harden_ssh_access", wants |-> {1, 2}, medium |-> TRUE],
                 [type |-> "add_security_headers", wants |-> {}, medium |-> FALSE]}
SomeDefaults == (1 :> FALSE) @@ (2 :> TRUE)
SomeFiles == {<<SetLine(1, FALSE)>>, <<IncludeLine, SetLine(1, TRUE), MatchLine("c")>>,
              <<MatchLine("c"), SetLine(2, FALSE)>>, <<BadLine>>}
SomeDropins == {<<>>, <<SetLine(2, FALSE), MatchLine("d"), SetLine(1, FALSE)>>}

(* Joint evidence: anchors of every kind of clock and mapping, with        *)
(* evidence in one place, spread, out of order or not local.               *)
Packet(id, at, mono, local) == [id |-> id, at |-> at, mono |-> mono, local |-> local]
SomePackets ==
    {{}, {Packet(1, 0, 0, TRUE)}, {Packet(1, 3, 3, TRUE), Packet(2, 5, 5, TRUE)},
     {Packet(1, 2, 2, TRUE), Packet(2, 6, 6, TRUE)}, {Packet(1, 2, 2, TRUE), Packet(2, 4, 2, TRUE)},
     {Packet(1, 2, 2, TRUE), Packet(2, 4, 4, FALSE)},
     {Packet(1, 1, 1, TRUE), Packet(2, 2, 2, TRUE), Packet(3, 3, 3, TRUE)}, {Packet(1, 7, 7, TRUE)}}
SomeAnchors ==
    [mapping : {"ok"}, active : BOOLEAN, stale : BOOLEAN, discontinuity : BOOLEAN,
     sshClock : BOOLEAN, evidence : SomePackets]
    \cup [mapping : {"source", "destination", "profile"}, active : {TRUE}, stale : {FALSE},
          discontinuity : {FALSE}, sshClock : {FALSE}, evidence : SomePackets]
LogRow(source, id, peer, at, kind) ==
    [source |-> source, id |-> id, peer |-> peer, at |-> at, kind |-> kind]
SomeSshRows == {LogRow(1, 1, TRUE, 2, "auth_failure"), LogRow(2, 1, TRUE, 4, "auth_success"),
                LogRow(3, 1, TRUE, 3, "auth_failure"), LogRow(1, 2, FALSE, 3, "preauth_abort"),
                LogRow(1, 3, TRUE, 6, "preauth_abort")}

(* Triage: observations of one source on one host, what is known of its    *)
(* accounts, and a proposal for every basis a dismissal may have.          *)
Login(kind, time, account) ==
    [kind |-> kind, time |-> time, source |-> "s", host |-> "h", account |-> account]
Failure == Login("auth_failure", 2, "u")
Guess == Login("invalid_user", 2, "g")
Success == Login("auth_success", 4, "u")
Request == [kind |-> "http_request", time |-> 3, source |-> "s", host |-> "h",
            operation |-> "get", status |-> 200]
Confirmation == [kind |-> "exploit_confirmation", time |-> 4, source |-> "s", host |-> "h"]
OwnUser == [kind |-> "account_context", host |-> "h", account |-> "u", class |-> "organisation"]
Generic == [kind |-> "account_context", host |-> "h", account |-> "g", class |-> "generic"]
Familiar == [kind |-> "source_history", source |-> "s", host |-> "h", account |-> "u",
             familiarity |-> "familiar", end |-> 2]
Allowed == [kind |-> "authorization", source |-> "s", host |-> "h", accounts |-> {"u"},
            operations |-> {}, from |-> 1, until |-> 4]
AllowedGet == [Allowed EXCEPT !.accounts = {}, !.operations = {"get"}]
Service == [kind |-> "service_context", host |-> "h", routes |-> {<<"get", 200>>}]
SomeEvidence ==
    {Failure, Login("auth_failure", 3, "u"), Guess, Login("auth_failure", 4, "g"), Success,
     Login("app_auth_success", 3, "u"), Request, [Request EXCEPT !.time = 5], Confirmation,
     OwnUser, Generic, Familiar, Allowed, AllowedGet, Service}

Says(verdict, basis, cited, claims) ==
    [wellFormed |-> TRUE, verdict |-> verdict, confidence |-> "high", basis |-> basis,
     revision |-> 1, cited |-> cited, claims |-> claims]
Claim(kind, proof) == [kind |-> kind, proof |-> proof]
Sayings ==
    {Says("dismiss", "known_user_retry", {Failure, Success},
          {Claim("account_owned", {OwnUser}), Claim("source_familiar", {Familiar}),
           Claim("authentication_succeeded", {Success})}),
     Says("dismiss", "generic_scan", {Guess}, {Claim("generic_account", {Generic})}),
     Says("dismiss", "authorized_activity", {Failure}, {Claim("activity_authorized", {Allowed})}),
     Says("dismiss", "authorized_activity", {Request}, {Claim("activity_authorized", {Allowed})}),
     Says("dismiss", "authorized_activity", {Failure},
          {Claim("activity_authorized", {Allowed, Failure})}),
     Says("dismiss", "authorized_activity", {Request},
          {Claim("activity_authorized", {AllowedGet, Request})}),
     Says("dismiss", "expected_http_operation", {Request},
          {Claim("http_operation_expected", {Service})}),
     Says("escalate", "none", {Failure}, {Claim("exploitation_confirmed", {Confirmation})}),
     Says("escalate", "none", {Failure}, {}), Says("abstain", "none", {}, {})}
SomeProposals == Sayings \cup {[p EXCEPT !.confidence = "low", !.revision = 0] : p \in Sayings}

-----------------------------------------------------------------------------
VARIABLE subject

Subjects == {"ssh", "http", "guard", "lists", "feeds", "reduction", "flows", "plans", "joint",
             "triage"}
One(S) == CHOOSE x \in S : TRUE

(* Only the subject starts in all the ways it may.                         *)
MCInit ==
    /\ subject \in Subjects
    /\ IF subject = "ssh" THEN TRUE ELSE rawRows = One(Rows) /\ uuid = One(Uuids)
    /\ IF subject = "guard" THEN TRUE
       ELSE firewall = <<SetObject({}, "plain"), RuleObject(One(RuleShapes))>>
    /\ IF subject = "reduction" THEN TRUE ELSE alerts = One(AlertSets)
    /\ IF subject = "plans" THEN TRUE ELSE main = One(HostFiles) /\ dropin = One(Dropins)
    /\ IF subject = "joint" THEN TRUE ELSE anchor = One(AnchorCases)
    /\ IF subject = "triage" THEN TRUE
       ELSE dossier = [kind |-> "ssh", revision |-> 1, status |-> "stale", evidence |-> {}]
    /\ Init /\ AnalysisInit /\ GuardInit /\ PagedInit /\ RedInit /\ SocInit /\ RemInit
    /\ EvidenceInit /\ TriageInit

MCNext ==
    /\ UNCHANGED subject
    /\ \/ /\ subject = "ssh" /\ Next
          /\ UNCHANGED <<analysisVars, guardVars, pagedVars, redVars, socVars,
                         remVars, evidenceVars, triageVars>>
       \/ /\ subject = "http" /\ AnalysisNext
          /\ UNCHANGED <<vars, guardVars, pagedVars, redVars, socVars,
                         remVars, evidenceVars, triageVars>>
       \/ /\ subject = "guard" /\ GuardNext
          /\ UNCHANGED <<vars, analysisVars, pagedVars, redVars, socVars,
                         remVars, evidenceVars, triageVars>>
       \/ /\ subject = "lists" /\ ListStep
          /\ UNCHANGED <<vars, analysisVars, guardVars, redVars, socVars,
                         remVars, evidenceVars, triageVars>>
       \/ /\ subject = "feeds" /\ FeedStep
          /\ UNCHANGED <<vars, analysisVars, guardVars, redVars, socVars,
                         remVars, evidenceVars, triageVars>>
       \/ /\ subject = "reduction" /\ RedNext
          /\ UNCHANGED <<vars, analysisVars, guardVars, pagedVars, socVars,
                         remVars, evidenceVars, triageVars>>
       \/ /\ subject = "flows" /\ SocNext
          /\ UNCHANGED <<vars, analysisVars, guardVars, pagedVars, redVars,
                         remVars, evidenceVars, triageVars>>
       \/ /\ subject = "plans" /\ RemNext
          /\ UNCHANGED <<vars, analysisVars, guardVars, pagedVars, redVars,
                         socVars, evidenceVars, triageVars>>
       \/ /\ subject = "joint" /\ EvidenceNext
          /\ UNCHANGED <<vars, analysisVars, guardVars, pagedVars, redVars,
                         socVars, remVars, triageVars>>
       \/ /\ subject = "triage" /\ TriageNext
          /\ UNCHANGED <<vars, analysisVars, guardVars, pagedVars, redVars,
                         socVars, remVars, evidenceVars>>

MCSpec ==
    MCInit /\ [][MCNext]_<<vars, analysisVars, guardVars, pagedVars, redVars, socVars, remVars,
                           evidenceVars, triageVars, subject>>
=============================================================================

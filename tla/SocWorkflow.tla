---------------------------- MODULE SocWorkflow -----------------------------
(***************************************************************************)
(* The investigation flow of the API server: ingest, triage, incident,       *)
(* control mapping and a gated plan (src/backend/app/orchestrator.py and     *)
(* pipeline/), recorded by the workflow runtime and the hash-chained audit   *)
(* log (runtime/workflow.py, storage/audit_log.py).                          *)
(*                                                                           *)
(* POST /flows/run is a plain function, so the server runs each request in a *)
(* thread of its own, and all of them share one Services object; a handler   *)
(* here is such a thread.  An entry of the chain stands for its hash; of the *)
(* identifiers only the audit log's are drawn step by step.                  *)
(***************************************************************************)
EXTENDS Naturals, Sequences, FiniteSets, SequencesExt, FiniteSetsExt

CONSTANTS
  Handlers,   \* threads of the server that may run a flow at a time
  Batches,    \* inputs of a flow: sequences of [known, broken, alerts]
  InScope,    \* the hosts the default scope names
  Bonus,      \* host -> CRITICALITY_BONUS of its criticality
  MaxFlows

ASSUME SocWorkflowAssumption ==
  /\ IsFiniteSet(Handlers) /\ MaxFlows \in Nat
  /\ \A b \in Batches :
       /\ b \in Seq(ToSet(b))
       /\ \A k \in DOMAIN b :
            /\ b[k].known \in BOOLEAN /\ b[k].broken \in BOOLEAN
            /\ b[k].alerts \in Seq(ToSet(b[k].alerts))
            /\ \A j \in DOMAIN b[k].alerts : b[k].alerts[j].host \in DOMAIN Bonus

VARIABLES
  chain,     \* AuditLog._events: [id, kind, flow, about, prev]
  counter,   \* IdFactory: the last AUD number
  flows,     \* the flows collection: [status, batch]
  saved,     \* the other collections, as one set of [kind, flow, about, with]
  handler    \* thread -> [at, flow, groups, events, step, prev, waiting]

socVars == <<chain, counter, flows, saved, handler>>

Resting == [at |-> "idle", flow |-> 0, groups |-> <<>>, events |-> <<>>, step |-> "none",
            prev |-> 0, waiting |-> FALSE]

Event(kind, about) == [kind |-> kind, about |-> about]
Traced == <<Event("task.started", 0), Event("step.ran", 0)>>
Called == <<Event("tool.called", 0)>>
Object(h, kind, about, with) ==
  [kind |-> kind, flow |-> handler[h].flow, about |-> about, with |-> with]

\* A stage saves its objects and leaves the entries it must record.
Enter(h, place, events) ==
  handler' = [handler EXCEPT ![h] = [handler[h] EXCEPT !.at = place, !.events = events, !.step = "prev"]]
Free(h, place) == handler[h].at = place /\ handler[h].events = <<>>

(***************************************************************************)
(* AuditLog.record                                                           *)
(***************************************************************************)
\* The hash of the last entry is read first ...
ReadPrev(h) ==
  /\ handler[h].events # <<>> /\ handler[h].step = "prev"
  /\ handler' = [handler EXCEPT ![h] = [handler[h] EXCEPT !.prev = Len(chain), !.step = "number"]]
  /\ UNCHANGED <<chain, counter, flows, saved>>
\* ... then the counter moves on ...
Number(h) ==
  /\ handler[h].step = "number"
  /\ counter' = counter + 1
  /\ handler' = [handler EXCEPT ![h] = [handler[h] EXCEPT !.step = "append"]]
  /\ UNCHANGED <<chain, flows, saved>>
(* Mutant of AppendEntry: the entry commits to its own number. *)
AppendEntryOwn(h) ==
  /\ handler[h].step = "append"
  /\ chain' = Append(chain, [id |-> counter, kind |-> Head(handler[h].events).kind,
                             flow |-> handler[h].flow, about |-> Head(handler[h].events).about,
                             prev |-> counter])
  /\ handler' = [handler EXCEPT ![h] = [handler[h] EXCEPT !.events = Tail(handler[h].events), !.step = "prev"]]
  /\ UNCHANGED <<counter, flows, saved>>
\* ... and the entry is hashed and appended.
AppendEntry(h) ==
  /\ handler[h].step = "append"
  /\ chain' = Append(chain, [id |-> counter, kind |-> Head(handler[h].events).kind,
                             flow |-> handler[h].flow, about |-> Head(handler[h].events).about,
                             prev |-> handler[h].prev])
  /\ handler' = [handler EXCEPT ![h] = [handler[h] EXCEPT !.events = Tail(handler[h].events), !.step = "prev"]]
  /\ UNCHANGED <<counter, flows, saved>>

\* first_break
FirstBreak == {k \in DOMAIN chain : chain[k].prev # k - 1}

(***************************************************************************)
(* Ingest                                                                         *)
(***************************************************************************)
\* start_flow and the first task
StartFlow(h) ==
  /\ Free(h, "idle") /\ Len(flows) < MaxFlows
  /\ \E b \in Batches : flows' = Append(flows, [status |-> "running", batch |-> b])
  /\ handler' = [handler EXCEPT ![h] =
       [Resting EXCEPT !.at = "ingest", !.flow = Len(flows) + 1, !.step = "prev",
                       !.events = <<Event("flow.started", 0)>> \o Traced]]
  /\ UNCHANGED <<chain, counter, saved>>

\* The alerts of a batch, <<source, place>>, and the order they were parsed in.
AlertPlaces(batch) == UNION {{k} \X DOMAIN batch[k].alerts : k \in DOMAIN batch}
AlertAt(batch, p) == batch[p[1]].alerts[p[2]]
NotAfter(p, q) == p[1] < q[1] \/ (p[1] = q[1] /\ p[2] =< q[2])

\* _score and band_for_score
RiskScore(severity, count, host) == Min({100, severity + 5 * Min({count, 5}) + Bonus[host]})
\* Groups by dedup key, in the order of first appearance.
Group(batch, key) ==
  LET members == {p \in AlertPlaces(batch) : AlertAt(batch, p).key = key}
      first == AlertAt(batch, CHOOSE p \in members : \A q \in members : NotAfter(p, q))
      severity == Max({AlertAt(batch, p).severity : p \in members})
  IN  [key |-> key, ssh |-> first.ssh, host |-> first.host, count |-> Cardinality(members),
       severity |-> severity, evidence |-> {p[1] : p \in members},
       score |-> RiskScore(severity, Cardinality(members), first.host)]
Firsts(batch) ==
  {p \in AlertPlaces(batch) :
     \A q \in AlertPlaces(batch) : AlertAt(batch, q).key = AlertAt(batch, p).key => NotAfter(p, q)}
AlertGroups(batch) ==
  [k \in 1 .. Cardinality(Firsts(batch)) |->
     Group(batch, AlertAt(batch, CHOOSE p \in Firsts(batch) :
                                   Cardinality({q \in Firsts(batch) : NotAfter(q, p)}) = k).key)]

\* What a batch that parses leaves.
Ingested(h, batch) ==
  {Object(h, "evidence", k, {}) : k \in 1 .. Len(batch)}
    \cup {Object(h, "alert", p, {AlertAt(batch, p).key}) : p \in AlertPlaces(batch)}
    \cup {Object(h, "group", g.key, g.evidence) :
           g \in {AlertGroups(batch)[k] : k \in DOMAIN AlertGroups(batch)}}

\* ingest: evidence is stored source by source, before its parser runs; a source
\* nobody parses, or one whose parser raises, ends the request with the flow running.
IngestBatch(h) ==
  /\ Free(h, "ingest")
  /\ LET batch == flows[handler[h].flow].batch
         bad == {k \in DOMAIN batch : ~batch[k].known \/ batch[k].broken}
         upto == IF batch[Min(bad)].known THEN Min(bad) ELSE Min(bad) - 1
     IN  IF bad # {}
         THEN /\ saved' = saved \cup {Object(h, "evidence", k, {}) : k \in 1 .. upto}
              /\ handler' = [handler EXCEPT ![h] = Resting]
         ELSE /\ saved' = saved \cup Ingested(h, batch)
              /\ handler' = [handler EXCEPT ![h] = [handler[h] EXCEPT
                   !.at = "groups", !.groups = AlertGroups(batch), !.events = Called]]
  /\ UNCHANGED <<chain, counter, flows>>

(***************************************************************************)
(* Triage, mapping and plan of one group                                     *)
(***************************************************************************)
\* TriageAgent.run
Triage(g) ==
  IF g.evidence = {} THEN [escalate |-> FALSE, confidence |-> 30, act |-> FALSE]
  ELSE IF g.ssh /\ g.count >= 3 THEN [escalate |-> TRUE, confidence |-> 85, act |-> TRUE]
  ELSE IF g.score >= 60 THEN [escalate |-> TRUE, confidence |-> 70, act |-> FALSE]
  ELSE [escalate |-> FALSE, confidence |-> 60, act |-> FALSE]
\* _skeptic_allows_escalation
SkepticAllows(g) == g.evidence # {} /\ Triage(g).confidence >= 50

\* triage_group
TriageGroup(h) ==
  /\ Free(h, "groups") /\ handler[h].groups # <<>>
  /\ LET g == Head(handler[h].groups)
         incident == Triage(g).escalate /\ SkepticAllows(g)
     IN  /\ saved' = saved \cup {Object(h, "agent_run", g.key, {})}
                           \cup (IF incident THEN {Object(h, "incident", g.key, g.evidence)} ELSE {})
         /\ handler' = [handler EXCEPT ![h] = [handler[h] EXCEPT
              !.at = IF incident THEN "map" ELSE "groups",
              !.groups = IF incident THEN handler[h].groups ELSE Tail(handler[h].groups),
              !.events = Traced \o <<Event("agent.run", g.key)>> \o Called]]
  /\ UNCHANGED <<chain, counter, flows>>

\* map_incident: both signatures have a control.
MapIncident(h) ==
  /\ Free(h, "map")
  /\ LET g == Head(handler[h].groups)
     IN  saved' = saved \cup {Object(h, kind, g.key, g.evidence) : kind \in {"mapping", "risk"}}
  /\ Enter(h, "plan", Traced \o Called)
  /\ UNCHANGED <<chain, counter, flows>>

\* build_action_plan and evaluate_execution under default_scope, which approves
\* nothing on its own: the plan stays a proposal.
Gated(host) == IF host \in InScope THEN "APPROVAL_REQUIRED" ELSE "TARGET_NOT_IN_SCOPE"
PlanRemediation(h) ==
  /\ Free(h, "plan")
  /\ LET g == Head(handler[h].groups)
         drafted == Triage(g).act
     IN  /\ saved' = IF drafted
                     THEN saved \cup {Object(h, "plan", g.key, {"proposed"}),
                                      Object(h, "decision", g.key, {Gated(g.host)})}
                     ELSE saved
         /\ handler' = [handler EXCEPT ![h] = [handler[h] EXCEPT
              !.at = "groups", !.groups = Tail(handler[h].groups), !.waiting = handler[h].waiting \/ drafted,
              !.events = Traced \o
                 (IF drafted THEN <<Event("plan.created", g.key), Event("step.ran", 0),
                                    Event("policy.decision", g.key)>> \o Called
                  ELSE <<>>)]]
  /\ UNCHANGED <<chain, counter, flows>>

\* set_flow_status; the handler answers once the entry is recorded.
FinishFlow(h) ==
  /\ Free(h, "groups") /\ handler[h].groups = <<>>
  /\ flows' = [flows EXCEPT ![handler[h].flow].status =
                 IF handler[h].waiting THEN "waiting_for_approval" ELSE "completed"]
  /\ Enter(h, "idle", <<Event("flow.status_changed", 0)>>)
  /\ UNCHANGED <<chain, counter, saved>>

SocInit ==
  /\ chain = <<>> /\ counter = 0 /\ flows = <<>> /\ saved = {}
  /\ handler = [h \in Handlers |-> Resting]

SocNext ==
  \E h \in Handlers :
    \/ ReadPrev(h) \/ Number(h) \/ AppendEntry(h)
    \/ StartFlow(h) \/ IngestBatch(h) \/ TriageGroup(h) \/ MapIncident(h) \/ PlanRemediation(h)
    \/ FinishFlow(h)

SocSpec == SocInit /\ [][SocNext]_socVars

(***************************************************************************)
(* Properties                                                                *)
(***************************************************************************)
\* The audit chain the server itself writes verifies: verify_chain finds no entry
\* whose link does not hold while nobody has edited or removed one.
ChainIntact == FirstBreak = {}

Recorded(f, kind, about) ==
  {k \in DOMAIN chain : chain[k].flow = f /\ chain[k].kind = kind /\ chain[k].about = about}
Of(f, kind) == {o \in saved : o.flow = f /\ o.kind = kind}
Settled(f) == flows[f].status # "running" /\ \A h \in Handlers : handler[h].flow # f \/ Free(h, "idle")

\* A flow that says it has ended has one group for every dedup key of its alerts, an
\* agent run recorded for every group, incidents that rest on stored evidence, and
\* waits for an approval exactly when it drafted a plan; every plan's creation is
\* recorded before the policy's decision on it.
FlowRecordIsWhole ==
  \A f \in DOMAIN flows : Settled(f) =>
    /\ {o.about : o \in Of(f, "group")} = UNION {o.with : o \in Of(f, "alert")}
    /\ \A g \in Of(f, "group") : Cardinality(Recorded(f, "agent.run", g.about)) = 1
    /\ \A i \in Of(f, "incident") :
         i.with # {} /\ i.with \subseteq {o.about : o \in Of(f, "evidence")}
    /\ \A p \in Of(f, "plan") :
         \E j \in Recorded(f, "plan.created", p.about), k \in Recorded(f, "policy.decision", p.about) : j < k
    /\ (flows[f].status = "waiting_for_approval") <=> Of(f, "plan") # {}

\* One request at a time leaves a record that is whole and a chain that verifies.
FlowsAreRecorded == ChainIntact /\ FlowRecordIsWhole
=============================================================================

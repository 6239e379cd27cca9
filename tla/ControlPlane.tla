---------------------------- MODULE ControlPlane ----------------------------
(***************************************************************************)
(* The central control service of backend/app/telemetry/control.py and the *)
(* block helpers it drives.  An operator previews a plan and confirms it;  *)
(* that queues a durable job.  One worker thread takes the oldest          *)
(* unfinished job, sends its first open item to the helper of its source   *)
(* over a forced-command SSH session, records the outcome, and tells the   *)
(* incident store when a ban has been verified.  When there is nothing to  *)
(* do it reads the block lists of all hosts into a cache.                  *)
(*                                                                         *)
(* A lease only delays the worker, so it is held or not; the audit chain   *)
(* is left out (nothing reads it back).                                    *)
(***************************************************************************)
EXTENDS HostControl, Sequences

CONSTANTS
    Actors,             \* operators
    Bodies,             \* the preview requests operators make
    Incidents,          \* open incidents, [ip, sources]
    CentralProtected,   \* protected networks and the operator's own address
    PlanTtl,            \* 300 s in the code
    MaxAttempts,        \* 3 in the code
    MaxPlans,           \* bound on the number of previews
    MaxCrashes,         \* bound on restarts of the central process
    CentralFaults,      \* what else can fail, a subset of CentralFaultKinds
    NoCall

CentralFaultKinds == {"lost", "late_start", "listener_failed"}

ASSUME CentralFaultsAssumption == CentralFaults \subseteq CentralFaultKinds
ASSUME MaxAttemptsAssumption == MaxAttempts \in Nat \ {0}
ASSUME BoundsAssumption == PlanTtl \in Nat /\ MaxPlans \in Nat /\ MaxCrashes \in Nat

VARIABLES
    plans,      \* previewed plans, oldest first
    jobs,       \* confirmed jobs, oldest first
    cache,      \* cache[s][k]: the last verified deadline of a key
    checks,     \* checks[s]: how the last status query of a host went
    worker,     \* what the worker thread is doing
    wire,       \* sessions whose helper has not come to the lock yet
    serving,    \* serving[s]: the session of the run that holds the lock
    triage,     \* triage[n]: the triage state of an incident
    crashes     \* restarts of the central process so far

centralVars == <<plans, jobs, cache, checks, triage, crashes>>
vars == <<hostVars, centralVars, worker, wire, serving>>

Open == {"pending", "running"}
Final == {"ok", "rejected", "uncertain"}
Unfinished == {"queued", "running"}
WorkerIdle == [phase |-> "idle"]

(* A call is one attempt of one item of a job.                             *)
Calls == Nat \X Nat \X Nat
Plan == [actor : Actors, items : Seq([source : Sources, ip : IPs, channel : Channels,
                                      action : {"ban", "unban"}, duration : Deadlines]),
         expires : Times, job : Nat]
Job == [actor : Actors, status : Unfinished \cup {"done", "partial", "failed"}, leased : BOOLEAN,
        items : Seq([source : Sources, ip : IPs, channel : Channels, action : {"ban", "unban"},
                     expires : Deadlines \cup {Absent}, status : Open \cup Final,
                     attempts : Nat])]
WorkerStates ==
    {WorkerIdle}
    \cup [phase : {"calling"}, job : Nat, item : Nat, reply : Answers \cup {NoAnswer}]
    \cup [phase : {"notify"}, job : Nat, item : Nat]
    \cup [phase : {"asking"}, left : SUBSET Sources]
    \cup [phase : {"asked"}, left : SUBSET Sources, source : Sources,
          seen : BlockLists \cup {NoTable, NoAnswer}]

ControlTypeOK ==
    /\ TypeOK
    /\ plans \in Seq(Plan) /\ jobs \in Seq(Job)
    /\ cache \in [Sources -> BlockLists]
    /\ checks \in [Sources -> {"never", "ok", "error"}]
    /\ worker \in WorkerStates
    /\ wire \subseteq [source : Sources, req : Requests, call : Calls]
    /\ serving \in [Sources -> Calls \cup {NoCall}]
    /\ triage \in [Incidents -> {"pending", "acknowledged", "resolved"}]
    /\ crashes \in 0 .. MaxCrashes

Init ==
    /\ HostInit
    /\ plans = <<>> /\ jobs = <<>>
    /\ cache = [s \in Sources |-> Nothing]
    /\ checks = [s \in Sources |-> "never"]
    /\ worker = WorkerIdle
    /\ wire = {}
    /\ serving = [s \in Sources |-> NoCall]
    /\ triage = [n \in Incidents |-> "pending"]
    /\ crashes = 0

-----------------------------------------------------------------------------
(* The operator.                                                           *)

(* A TCP ban covers SSH, so it replaces it.                                *)
ChannelsOf(body) ==
    IF body.action = "ban" /\ "tcp" \in body.channels
    THEN body.channels \ {"ssh"} ELSE body.channels

(* One item per target and channel, in the order of the targets and, for a *)
(* target, in alphabetical order of the channels.                          *)
ItemsOf(body) ==
    LET ordered == SelectSeq(<<"ssh", "tcp", "udp">>, LAMBDA c : c \in ChannelsOf(body))
        width == Len(ordered)
    IN [n \in 1 .. Len(body.targets) * width |->
          LET target == body.targets[((n - 1) \div width) + 1]
          IN [source |-> target[1], ip |-> target[2],
              channel |-> ordered[((n - 1) % width) + 1],
              action |-> body.action, duration |-> body.duration]]

(* A request is checked before it is previewed: known sources, addresses   *)
(* and channels, one action and one duration; every item has an id.        *)
ASSUME BodiesAssumption ==
    \A body \in Bodies :
        /\ body.action \in {"ban", "unban"} /\ body.duration \in Deadlines
        /\ ItemsOf(body) \in Seq([source : Sources, ip : IPs, channel : Channels,
                                  action : {body.action}, duration : {body.duration}])
        /\ (1 .. MaxPlans) \X (1 .. Len(ItemsOf(body))) \subseteq RequestIds

(* Save a plan.  A ban of a protected address is refused.                  *)
Preview(actor, body) ==
    /\ Len(plans) < MaxPlans
    /\ body.action = "ban" =>
         \A n \in DOMAIN body.targets : body.targets[n][2] \notin CentralProtected
    /\ plans' = Append(plans, [actor |-> actor, items |-> ItemsOf(body),
                               expires |-> clock + PlanTtl, job |-> 0])
    /\ UNCHANGED <<hostVars, jobs, cache, checks, triage, crashes, worker, wire, serving>>

(* Confirm a plan of one's own that is fresh: queue its job with deadlines *)
(* fixed now.  Confirming it again only returns the job.                   *)
Execute(actor, p) ==
    /\ plans[p].actor = actor
    /\ plans[p].job = 0
    /\ clock <= plans[p].expires
    /\ jobs' = Append(jobs,
         [actor |-> actor, status |-> "queued", leased |-> FALSE,
          items |-> [n \in DOMAIN plans[p].items |->
            LET item == plans[p].items[n]
            IN [source |-> item.source, ip |-> item.ip, channel |-> item.channel,
                action |-> item.action, status |-> "pending", attempts |-> 0,
                expires |-> IF item.action = "unban" THEN Absent
                            ELSE IF item.duration = Permanent THEN Permanent
                            ELSE clock + item.duration]]])
    /\ plans' = [plans EXCEPT ![p].job = Len(jobs) + 1]
    /\ UNCHANGED <<hostVars, cache, checks, triage, crashes, worker, wire, serving>>

-----------------------------------------------------------------------------
(* The worker: taking an item and recording its outcome.                   *)

(* Mutant of OpenItems: an item that was being sent is forgotten.          *)
OpenItemsPending(j) == {i \in DOMAIN jobs[j].items : jobs[j].items[i].status = "pending"}

OpenItems(j) == {i \in DOMAIN jobs[j].items : jobs[j].items[i].status \in Open}
Pending == {j \in DOMAIN jobs : jobs[j].status \in Unfinished}

(* Mutant of IsHead: any unfinished job may be worked on.                  *)
IsHeadAny(j) == j \in Pending

(* Jobs are serialized: only the oldest unfinished job may be worked on.   *)
IsHead(j) == j \in Pending /\ \A other \in Pending : j <= other

CanTake(j, i) ==
    /\ IsHead(j) /\ ~jobs[j].leased
    /\ i \in OpenItems(j) /\ \A other \in OpenItems(j) : i <= other

Item(j, i) == jobs[j].items[i]
ItemKey(item) == <<item.ip, item.channel>>

Request(j, i) ==
    [id |-> <<j, i>>, action |-> IF Item(j, i).action = "ban" THEN "add" ELSE "delete",
     ip |-> Item(j, i).ip, channel |-> Item(j, i).channel, expires |-> Item(j, i).expires]

Call(j, i, attempt) == <<j, i, attempt>>
CurrentCall == Call(worker.job, worker.item, Item(worker.job, worker.item).attempts)

(* The attempt is counted, and the job leased, before anything is sent.    *)
Attempted(item) == [item EXCEPT !.status = "running", !.attempts = @ + 1]
Sending(job, i) ==
    [job EXCEPT !.status = "running", !.leased = TRUE,
                !.items = [job.items EXCEPT ![i] = Attempted(job.items[i])]]

Take(j, i) ==
    /\ worker = WorkerIdle
    /\ CanTake(j, i)
    /\ jobs' = [jobs EXCEPT ![j] = Sending(jobs[j], i)]
    /\ worker' = [phase |-> "calling", job |-> j, item |-> i, reply |-> NoAnswer]
    /\ wire' = wire \cup {[source |-> Item(j, i).source, req |-> Request(j, i),
                           call |-> Call(j, i, Item(j, i).attempts + 1)]}
    /\ UNCHANGED <<hostVars, plans, cache, checks, triage, crashes, serving>>

(* An answer counts as success only if it says what was asked for.         *)
Confirms(item, reply) ==
    /\ reply.status = "ok"
    /\ reply.blocked = (item.action = "ban")
    /\ item.action = "ban" => reply.expires = item.expires

Retried(item) == IF item.attempts < MaxAttempts THEN "pending" ELSE "uncertain"

Outcome(item, reply) ==
    IF reply.status = "rejected" THEN "rejected"
    ELSE IF Confirms(item, reply) THEN "ok"
    ELSE Retried(item)

JobStatus(items) ==
    LET states == {items[i].status : i \in DOMAIN items}
    IN IF states \cap Open # {} THEN "running"
       ELSE IF states = {"ok"} THEN "done"
       ELSE IF "ok" \in states THEN "partial" ELSE "failed"

(* The transaction that ends an attempt: item, job and cache together.     *)
Recorded(job, i, outcome) ==
    LET items == [job.items EXCEPT ![i].status = outcome]
    IN [job EXCEPT !.items = items, !.status = JobStatus(items), !.leased = outcome = "pending"]

Settle(outcome) ==
    LET j == worker.job
        i == worker.item
        item == Item(j, i)
    IN /\ jobs' = [jobs EXCEPT ![j] = Recorded(jobs[j], i, outcome)]
       /\ cache' = IF outcome = "ok"
                   THEN [cache EXCEPT ![item.source][ItemKey(item)] = item.expires]
                   ELSE cache
       /\ worker' = IF outcome = "ok" /\ item.action = "ban" /\ item.channel \in {"ssh", "tcp"}
                    THEN [phase |-> "notify", job |-> j, item |-> i]
                    ELSE WorkerIdle
       /\ UNCHANGED <<hostVars, plans, checks, triage, crashes>>

Record ==
    /\ worker.phase = "calling"
    /\ worker.reply # NoAnswer
    /\ Settle(Outcome(Item(worker.job, worker.item), worker.reply))
    /\ UNCHANGED <<wire, serving>>

(* The SSH client is gone.  A session that has not come to the lock ends   *)
(* with it, unless it was slow to start and goes on by itself.             *)
HangUp ==
    \/ wire' = {m \in wire : m.call # CurrentCall}
    \/ "late_start" \in CentralFaults /\ UNCHANGED wire

(* No usable answer: the connection broke, the call timed out, or the run  *)
(* on the host died.                                                       *)
CallFails ==
    /\ worker.phase = "calling"
    /\ \/ "lost" \in CentralFaults
       \/ /\ worker.reply = NoAnswer
          /\ \A m \in wire : m.call # CurrentCall
          /\ \A s \in Sources : serving[s] # CurrentCall
    /\ Settle(Retried(Item(worker.job, worker.item)))
    /\ HangUp
    /\ UNCHANGED serving

LeaseExpires(j) ==
    /\ jobs[j].leased
    /\ worker.phase = "calling" => worker.job # j
    /\ jobs' = [jobs EXCEPT ![j].leased = FALSE]
    /\ UNCHANGED <<hostVars, plans, cache, checks, triage, crashes, worker, wire, serving>>

(* The sources that hold an SSH-covering block of an address, by the cache.*)
Live(deadline) == deadline = Permanent \/ (deadline \in Times /\ deadline > clock)
Covered(ip) ==
    {s \in Sources : \E k \in Keys : k[1] = ip /\ k[2] \in {"ssh", "tcp"} /\ Live(cache[s][k])}

(* Mutant of NotifyBlock: one blocked source is enough.                    *)
NotifyBlockAny ==
    /\ worker.phase = "notify"
    /\ LET ip == Item(worker.job, worker.item).ip
       IN triage' = [n \in Incidents |->
                       IF n.ip = ip /\ n.sources \cap Covered(ip) # {}
                       THEN "resolved" ELSE triage[n]]
    /\ worker' = WorkerIdle
    /\ UNCHANGED <<hostVars, plans, jobs, cache, checks, crashes, wire, serving>>

(* Resolve the incidents of the address that involve no other source; the  *)
(* listener may fail, which changes nothing else.                          *)
NotifyBlock ==
    /\ worker.phase = "notify"
    /\ LET ip == Item(worker.job, worker.item).ip
       IN \/ triage' = [n \in Incidents |->
                         IF n.ip = ip /\ n.sources \subseteq Covered(ip)
                         THEN "resolved" ELSE triage[n]]
          \/ "listener_failed" \in CentralFaults /\ UNCHANGED triage
    /\ worker' = WorkerIdle
    /\ UNCHANGED <<hostVars, plans, jobs, cache, checks, crashes, wire, serving>>

-----------------------------------------------------------------------------
(* The worker: reading the hosts' block lists.                             *)

ReconcileStart ==
    /\ worker = WorkerIdle
    /\ ~\E j \in DOMAIN jobs : \E i \in DOMAIN jobs[j].items : CanTake(j, i)
    /\ worker' = [phase |-> "asking", left |-> Sources]
    /\ UNCHANGED <<hostVars, centralVars, wire, serving>>

(* A status reply lists the kernel's elements, a timed one with the saved  *)
(* deadline if there is one; NoTable says that the table is missing.       *)
StatusReply(s, networks) ==
    IF table[s] = NoTable THEN NoTable
    ELSE [k \in Keys |-> LET target == Desired(s, networks)[k]
                         IN IF table[s][k] \in Times /\ target \in Times
                            THEN target ELSE table[s][k]]

Ask(s) ==
    /\ worker.phase = "asking" /\ s \in worker.left
    /\ \/ /\ helper[s] = Idle
          /\ \E networks \in readings[s] :
               worker' = [phase |-> "asked", left |-> worker.left \ {s}, source |-> s,
                          seen |-> StatusReply(s, networks)]
       \/ /\ helper[s] # Idle \/ "read_failed" \in Faults \/ "lost" \in CentralFaults
          /\ worker' = [phase |-> "asked", left |-> worker.left \ {s}, source |-> s,
                        seen |-> NoAnswer]
    /\ UNCHANGED <<hostVars, centralVars, wire, serving>>

(* Mutant of ReconcileStore: only rows that are already cached are updated.*)
ReconcileStoreKnown ==
    /\ worker.phase = "asked"
    /\ LET s == worker.source
           usable == worker.seen \notin {NoTable, NoAnswer}
       IN /\ cache' = IF usable
                      THEN [cache EXCEPT ![s] = [k \in Keys |-> IF @[k] = Absent THEN Absent
                                                                ELSE worker.seen[k]]]
                      ELSE cache
          /\ checks' = [checks EXCEPT ![s] = IF usable THEN "ok" ELSE "error"]
    /\ worker' = IF worker.left = {} THEN WorkerIdle
                 ELSE [phase |-> "asking", left |-> worker.left]
    /\ UNCHANGED <<hostVars, plans, jobs, triage, crashes, wire, serving>>

(* Replace the cached list of the host by the answer; without one, keep it.*)
ReconcileStore ==
    /\ worker.phase = "asked"
    /\ LET s == worker.source
           usable == worker.seen \notin {NoTable, NoAnswer}
       IN /\ cache' = IF usable THEN [cache EXCEPT ![s] = worker.seen] ELSE cache
          /\ checks' = [checks EXCEPT ![s] = IF usable THEN "ok" ELSE "error"]
    /\ worker' = IF worker.left = {} THEN WorkerIdle
                 ELSE [phase |-> "asking", left |-> worker.left]
    /\ UNCHANGED <<hostVars, plans, jobs, triage, crashes, wire, serving>>

(* The central process stops and starts again; its database survives.      *)
Restart ==
    /\ crashes < MaxCrashes
    /\ worker # WorkerIdle
    /\ crashes' = crashes + 1
    /\ worker' = WorkerIdle
    /\ IF worker.phase = "calling" THEN HangUp ELSE UNCHANGED wire
    /\ UNCHANGED <<hostVars, plans, jobs, cache, checks, triage, serving>>

-----------------------------------------------------------------------------
(* The hosts, with the sessions that connect them to the worker.           *)

(* The answer of a session reaches the worker if it still waits for it.    *)
Deliver(s, call) ==
    worker' = IF worker.phase = "calling" /\ CurrentCall = call
              THEN [worker EXCEPT !.reply = answer'[s]] ELSE worker

(* The helper of a session asks for the lock.                              *)
Arrive(m) ==
    LET s == m.source IN
    /\ wire' = wire \ {m}
    /\ \/ /\ \/ Refuse(s, m.req) \/ StoreFails(s, m.req)
             \/ Busy(s, m.req) \/ Replay(s, m.req)
          /\ Deliver(s, m.call)
          /\ UNCHANGED serving
       \/ /\ Begin(s, m.req)
          /\ serving' = [serving EXCEPT ![s] = m.call]
          /\ UNCHANGED worker
    /\ UNCHANGED centralVars

HostRestore(s) ==
    /\ Restore(s)
    /\ UNCHANGED <<centralVars, worker, wire, serving>>

HostStep(s) ==
    /\ RunStep(s)
    /\ IF helper'[s] = Idle
       THEN /\ IF helper[s].req = NoRequest THEN UNCHANGED worker ELSE Deliver(s, serving[s])
            /\ serving' = [serving EXCEPT ![s] = NoCall]
       ELSE UNCHANGED <<worker, serving>>
    /\ UNCHANGED <<centralVars, wire>>

HostDisturbed(s) ==
    /\ Disturb(s)
    /\ serving' = IF helper'[s] = Idle THEN [serving EXCEPT ![s] = NoCall] ELSE serving
    /\ UNCHANGED <<centralVars, worker, wire>>

TimePasses == Tick /\ UNCHANGED <<centralVars, worker, wire, serving>>

-----------------------------------------------------------------------------
OperatorStep ==
    \/ \E actor \in Actors, body \in Bodies : Preview(actor, body)
    \/ \E actor \in Actors : \E p \in DOMAIN plans : Execute(actor, p)

WorkerStep ==
    \/ \E j \in DOMAIN jobs : \E i \in DOMAIN jobs[j].items : Take(j, i)
    \/ Record \/ CallFails \/ NotifyBlock
    \/ ReconcileStart \/ ReconcileStore
    \/ \E s \in Sources : Ask(s)

Next ==
    \/ OperatorStep \/ WorkerStep \/ Restart
    \/ \E j \in DOMAIN jobs : LeaseExpires(j)
    \/ \E m \in wire : Arrive(m)
    \/ \E s \in Sources : HostRestore(s) \/ HostStep(s) \/ HostDisturbed(s)
    \/ TimePasses

(* The worker thread loops, calls have timeouts, leases run out and the    *)
(* hosts run their processes; operators and failures owe nothing.          *)
Fairness ==
    /\ WF_vars(WorkerStep)
    /\ WF_vars(\E j \in DOMAIN jobs : LeaseExpires(j))
    /\ WF_vars(\E m \in wire : Arrive(m))
    /\ \A s \in Sources : WF_vars(HostStep(s))

Spec == Init /\ [][Next]_vars
FairSpec == Spec /\ Fairness

-----------------------------------------------------------------------------
(* Item i of job j is the newest operation on its key that was ever sent.  *)
Newest(j, i) ==
    \A later \in DOMAIN jobs : \A n \in DOMAIN jobs[later].items :
        /\ later > j
        /\ Item(later, n).attempts > 0
        => \/ Item(later, n).source # Item(j, i).source
           \/ ItemKey(Item(later, n)) # ItemKey(Item(j, i))

Persisted(j, i) == blocks[Item(j, i).source][ItemKey(Item(j, i))]

(* A ban that the central service shows as verified stays in the desired   *)
(* state of its host, with the deadline the operator confirmed, until it   *)
(* expires or a newer operation on the key is sent: retries, lost answers  *)
(* and restarts never leave it in the firewall only.                       *)
VerifiedBanIsPersisted ==
    \A j \in DOMAIN jobs : \A i \in DOMAIN jobs[j].items :
        /\ Item(j, i).status = "ok" /\ Item(j, i).action = "ban"
        /\ Newest(j, i) /\ Live(Item(j, i).expires)
        => Persisted(j, i) = Item(j, i).expires

(* "An uncertain old add cannot race a newer unban": once an unban is      *)
(* verified, no older operation brings the block back.                     *)
OldAddCannotRaceNewerUnban ==
    \A j \in DOMAIN jobs : \A i \in DOMAIN jobs[j].items :
        /\ Item(j, i).status = "ok" /\ Item(j, i).action = "unban"
        /\ Newest(j, i)
        => Persisted(j, i) = Absent

(* "A partially blocked peer is never shown as handled": an incident is    *)
(* resolved by a block only when every participating source holds an       *)
(* SSH-covering block of its peer, in its desired state or its firewall.   *)
ResolvedOnlyWhenBlockedEverywhere ==
    [][\A n \in Incidents : triage[n] # "resolved" /\ triage'[n] = "resolved" =>
         \A s \in n.sources : \E k \in Keys :
             /\ k[1] = n.ip /\ k[2] \in {"ssh", "tcp"}
             /\ Live(blocks[s][k]) \/ Present(s)[k] # Absent]_vars

(* Every confirmed job comes to an end: three attempts bound the retries,  *)
(* a lease outlives no crash for ever and the queue's head never blocks    *)
(* the jobs behind it.                                                     *)
EveryJobFinishes ==
    \A j \in 1 .. MaxPlans :
        j \in DOMAIN jobs ~> (j \in DOMAIN jobs /\ jobs[j].status \notin Unfinished)

(* The cached list of a host agrees with its firewall again and again, as  *)
(* long as the table is there: what happened on the host behind the back   *)
(* of the service (expiry, a restore, a late run) is noticed.              *)
CacheCatchesUp ==
    \A s \in Sources :
        []<>(table[s] # NoTable =>
               \A k \in Keys : (table[s][k] # Absent) <=> Live(cache[s][k]))

=============================================================================

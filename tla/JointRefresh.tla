----------------------------- MODULE JointRefresh ---------------------------
(***************************************************************************)
(* Who drives the joint store (src/backend/app/telemetry/joint_refresh.py,   *)
(* joint_refresh_state.py, joint_reconcile.py, joint_catalog.py,             *)
(* joint_cli.py): the scheduler's tick with its checkpoint file, the         *)
(* operator's discover and refresh commands, snapshot and restore, while the *)
(* network and SSH stores they read keep changing.                           *)
(*                                                                           *)
(* Writers hold an exclusive lock file, so one `job` runs at a time; it may  *)
(* die between any two of its transactions and writes of the checkpoint.  A  *)
(* read of the sources and the transaction that publishes it are one step:   *)
(* what a source does in between is the same as what it does right after.    *)
(***************************************************************************)
EXTENDS JointCases

CONSTANTS
  Scenarios,     \* what happens at most: [last: incident -> its last revision, upsets: reads that
                 \* fail, jobs that die and operator commands]
  MaxSsh,        \* versions of the SSH evidence
  PageLimit,     \* incidents of a catalog page
  ItemLimit      \* max_items of a reconcile step

ASSUME JointRefreshAssumption ==
  /\ Scenarios \subseteq [last : [Anchors -> Nat], upsets : Nat] /\ MaxSsh \in Nat
  /\ PageLimit \in Nat \ {0} /\ ItemLimit \in Nat \ {0}

VARIABLES
  heads,       \* network incident -> its current revision, 0 while it does not exist
  ssh,         \* the version of the retained SSH evidence
  store,       \* the derived store (JointCases)
  snapshot,    \* the operator's copy of a store, or the empty store
  checkpoint,  \* the refresh checkpoint file
  job,         \* the holder of the writer lock and where it is
  upsets,      \* faults and commands left
  last,        \* the scenario's last revisions
  seen,        \* history: what the sources held when the current discovery began
  failed       \* history: what they held when the store was marked for revalidation

jointVars == <<heads, ssh, store, snapshot, checkpoint, job, upsets, last, seen, failed>>

\* new_state.  `success` is last_success_at, as what the sources held when the discovery of that
\* round began.
Nothing == [heads |-> [i \in Anchors |-> 0], ssh |-> 0]
NewState == [phase |-> "idle", state |-> "not_started", qualified |-> FALSE, resume |-> FALSE,
             discovery |-> None, refresh |-> None, oldDiscovery |-> None, oldRefresh |-> None,
             success |-> Nothing]
NoJob == [by |-> "nobody", at |-> "idle", mem |-> NewState, left |-> 0]
Sources == [heads |-> heads, ssh |-> ssh]

JointInit ==
  /\ heads = [i \in Anchors |-> 0] /\ ssh = 0
  /\ store = EmptyStore /\ snapshot = EmptyStore
  /\ checkpoint = NewState /\ job = NoJob
  /\ \E sc \in Scenarios : upsets = sc.upsets /\ last = sc.last
  /\ seen = Nothing /\ failed = Nothing

-----------------------------------------------------------------------------
(* The sources. *)

ReviseIncident ==
  \E i \in Anchors :
    /\ heads[i] < last[i]
    /\ \A j \in 1 .. i - 1 : heads[j] > 0
    /\ heads' = [heads EXCEPT ![i] = @ + 1]
    /\ UNCHANGED <<last, ssh, store, snapshot, checkpoint, job, upsets, seen, failed>>

SshArrives ==
  /\ ssh < MaxSsh /\ ssh' = ssh + 1
  /\ UNCHANGED <<last, heads, store, snapshot, checkpoint, job, upsets, seen, failed>>

Upset == upsets > 0 /\ upsets' = upsets - 1
StillFailed == failed' = IF store'.runtime.pending THEN failed ELSE Nothing
ReadFails == Upset
ReadWorks == UNCHANGED upsets

\* A new discovery, a new cycle: the identities noted of the previous one are of no current one.
AgedDiscovery(m) == [m EXCEPT !.discovery = Aged(@), !.oldDiscovery = Aged(@)]
AgedRefresh(m) == [m EXCEPT !.refresh = Aged(@), !.oldRefresh = Aged(@)]

\* catalog_target
CatalogTarget == Cardinality({i \in Anchors : heads[i] > 0})

\* read_catalog_page: the heads of one page, those not mapped left out.
PageEnd(s) == IF s.discovery.cursor + PageLimit > s.discovery.target THEN s.discovery.target
              ELSE s.discovery.cursor + PageLimit
PageRequests(s) ==
  [i \in {j \in s.discovery.cursor + 1 .. PageEnd(s) : j \notin Unmapped} |-> heads[i]]
\* A full page that ends before the target leaves the rest, even when nothing is left.
PageIsLast(s) == PageEnd(s) = s.discovery.target

-----------------------------------------------------------------------------
(* The scheduler's checkpoint. *)

\* _start: adopts unfinished manual work without claiming its success.
Start(m, s) ==
  LET fresh == [m EXCEPT !.phase = "discover", !.discovery = None, !.refresh = None,
                         !.oldDiscovery = s.discovery.id, !.oldRefresh = s.cycle.id,
                         !.qualified = TRUE, !.resume = FALSE]
  IN  IF s.cycle.id # None /\ ~Attempted(s.cycle)
      THEN [fresh EXCEPT !.phase = "refresh", !.refresh = s.cycle.id, !.qualified = FALSE]
      ELSE IF s.discovery.id # None /\ ~s.discovery.complete
      THEN [fresh EXCEPT !.discovery = s.discovery.id, !.qualified = FALSE]
      ELSE fresh

\* _realign
Realign(m, s) == Start(m, s)

\* _finish: whether the round may claim success, and what comes next.
WholeRound(m, s) ==
  /\ m.qualified /\ ~m.resume
  /\ s.discovery.id # None /\ s.discovery.id = m.discovery
  /\ s.discovery.complete /\ s.discovery.error = "none"
  /\ s.cycle.finishedLast /\ AllRefreshed(s.cycle) /\ ~s.runtime.pending
  /\ \A i \in Registered(s) : s.regs[i].state = "fresh"
FinishRound(m, s) ==
  LET done == [m EXCEPT !.oldRefresh = s.cycle.id,
                        !.success = IF WholeRound(m, s) THEN seen ELSE @]
      error == IF StatusError(s) # "none" THEN StatusError(s)
               ELSE IF ~AllRefreshed(s.cycle) THEN "refresh_required" ELSE "none"
  IN  IF error = "capacity"
      THEN [done EXCEPT !.state = "blocked", !.qualified = FALSE]
      ELSE IF m.resume
      THEN [done EXCEPT !.phase = "discover", !.refresh = None, !.qualified = FALSE,
                        !.resume = FALSE, !.state = "backoff"]
      ELSE [done EXCEPT !.phase = "idle", !.qualified = FALSE, !.refresh = None,
                        !.state = IF error # "none" THEN "backoff" ELSE "waiting"]

\* _failure: a catalog page that fails does not keep registered anchors from being refreshed.
Failure(m, s, code) ==
  LET backoff == [m EXCEPT !.state = IF code = "capacity" THEN "blocked" ELSE "backoff",
                           !.qualified = FALSE]
  IN  IF m.phase = "discover" /\ Registered(s) # {} /\ code # "capacity"
      THEN [backoff EXCEPT !.phase = "refresh", !.resume = TRUE, !.refresh = None,
                           !.discovery = s.discovery.id, !.oldRefresh = s.cycle.id]
      ELSE backoff

-----------------------------------------------------------------------------
(* One tick of the scheduler. *)

\* tick, up to the save before any source is read.  A checkpoint that cannot be read or whose
\* times lie in the future starts afresh; it counts as one of the faults.
Tick ==
  \E lost \in BOOLEAN :
    /\ job = NoJob /\ (checkpoint.state # "blocked" \/ lost)
    /\ IF lost THEN Upset ELSE UNCHANGED upsets
    /\ LET old == IF lost THEN NewState ELSE checkpoint
           mem == [(IF old.phase = "idle" THEN Start(old, store) ELSE old)
                     EXCEPT !.state = "running"]
       IN  /\ checkpoint' = mem
           /\ job' = [by |-> "tick", at |-> mem.phase, mem |-> mem, left |-> 0]
    /\ UNCHANGED <<last, heads, ssh, store, snapshot, seen, failed>>

RefreshTo(at, mem) == job' = [job EXCEPT !.at = at, !.mem = mem]
EndWith(mem) ==
  RefreshTo("save", IF mem.state = "running" THEN [mem EXCEPT !.state = "waiting"] ELSE mem)

\* An error the tick catches; a command just ends.
Raise(s, code) ==
  IF job.by = "tick" THEN RefreshTo("save", Failure(job.mem, s, code)) ELSE job' = NoJob

\* _discovery_step, up to what it reads.
ToRefresh(m) == [m EXCEPT !.phase = "refresh", !.refresh = None, !.oldRefresh = store.cycle.id]
DiscoveryStep ==
  /\ job.at = "discover" /\ job.by = "tick"
  /\ LET d == store.discovery
         m == IF job.mem.discovery = None /\ d.id # job.mem.oldDiscovery
              THEN [job.mem EXCEPT !.discovery = d.id] ELSE job.mem
     IN  IF job.mem.discovery # None /\ d.id # job.mem.discovery
         THEN EndWith(Realign(job.mem, store))
         ELSE IF d.id # None /\ d.id = m.discovery /\ d.complete
         THEN IF d.error # "none" THEN RefreshTo("save", Failure(m, store, d.error))
              ELSE EndWith(ToRefresh(m))
         ELSE RefreshTo("begin", m)
  /\ UNCHANGED <<last, heads, ssh, store, snapshot, checkpoint, upsets, seen, failed>>

\* After a step of discover: the tick notes the discovery and goes on to refresh once it is over.
Discovered(mem, s) ==
  IF job.by = "tick"
  THEN LET m == [mem EXCEPT !.discovery = s.discovery.id]
       IN  EndWith(IF s.discovery.complete THEN ToRefresh(m) ELSE m)
  ELSE job' = NoJob

\* discover: captures the catalog's end and begins a discovery, unless one is under way.
Discover ==
  /\ job.at = "begin"
  /\ \/ /\ store.discovery.id # None /\ ~store.discovery.complete
        /\ RefreshTo("page", job.mem)
        /\ UNCHANGED <<store, checkpoint, upsets, seen, failed>>
     \/ /\ store.discovery.id = None \/ store.discovery.complete
        /\ ReadWorks
        /\ store' = BeginDiscovery(store, CatalogTarget)
        /\ seen' = Sources /\ checkpoint' = AgedDiscovery(checkpoint)
        /\ IF store'.discovery.complete THEN Discovered(AgedDiscovery(job.mem), store')
           ELSE RefreshTo("page", AgedDiscovery(job.mem))
        /\ UNCHANGED failed
     \/ /\ store.discovery.id = None \/ store.discovery.complete
        /\ ReadFails
        /\ store' = DiscoveryFailure(store, "read") /\ failed' = Sources
        /\ Raise(store', "read")
        /\ UNCHANGED <<checkpoint, seen>>
  /\ UNCHANGED <<last, heads, ssh, snapshot>>

\* discover: one page of the catalog.
DiscoverPage ==
  /\ job.at = "page"
  /\ LET d == store.discovery
         asked == PageRequests(store)
         code == IF FitsRegistrations(store, asked) THEN "none" ELSE "capacity"
     IN  \/ /\ code = "none" /\ ReadWorks
            /\ store' = ApplyPage(store, d.cursor, asked, PageEnd(store), PageIsLast(store))
            /\ Discovered(job.mem, store')
            /\ UNCHANGED failed
         \/ /\ \/ code = "capacity" /\ ReadWorks
               \/ code = "none" /\ ReadFails
            /\ \E c \in {IF code = "none" THEN "read" ELSE code} :
                 /\ store' = FailDiscovery(store, d.cursor, c)
                 /\ Raise(store', c)
            /\ failed' = Sources
  /\ UNCHANGED <<last, heads, ssh, snapshot, checkpoint, seen>>

\* _refresh_step of the tick, and refresh of the command, up to the cycle they work on.
Requalified(m) ==
  [m EXCEPT !.qualified = @ /\ store.discovery.id # None /\ store.discovery.id = m.discovery
                            /\ store.discovery.complete /\ store.discovery.error = "none"]
RefreshStep ==
  /\ job.at = "refresh" /\ job.by = "tick"
  /\ LET m == Requalified(job.mem)
         c == store.cycle
         adopted == IF m.refresh # None THEN m
                    ELSE IF c.id # None /\ c.id # m.oldRefresh THEN [m EXCEPT !.refresh = c.id]
                    ELSE IF c.id # None /\ ~Attempted(c)
                    THEN [m EXCEPT !.refresh = c.id, !.qualified = FALSE]
                    ELSE m
     IN  IF m.refresh # None /\ c.id # m.refresh THEN EndWith(Realign(m, store))
         ELSE IF adopted.refresh = None THEN RefreshTo("preflight", m)
         ELSE IF Attempted(c) THEN EndWith(FinishRound(adopted, store))
         ELSE job' = [job EXCEPT !.at = "items", !.mem = adopted, !.left = ItemLimit]
  /\ UNCHANGED <<last, heads, ssh, store, snapshot, checkpoint, upsets, seen, failed>>

\* preflight_sources, where the store must be revalidated (or holds nothing yet).
NeedsPreflight == store.runtime.pending \/ (job.by = "tick" /\ Registered(store) = {})
PreflightFails ==
  /\ job.at = "preflight" /\ NeedsPreflight /\ ReadFails
  /\ store' = DiscoveryFailure(store, "read") /\ failed' = Sources
  /\ Raise(store', "read")
  /\ UNCHANGED <<last, heads, ssh, snapshot, checkpoint, seen>>

OpenCycle ==
  /\ job.at = "preflight"
  /\ LET new == store.cycle.id = None \/ Attempted(store.cycle)
         mem == IF new THEN AgedRefresh(job.mem) ELSE job.mem
     IN  /\ store' = BeginCycle(store)
         /\ checkpoint' = IF new THEN AgedRefresh(checkpoint) ELSE checkpoint
         /\ job' = IF job.by = "tick"
                   THEN [job EXCEPT !.at = "begun", !.mem = [mem EXCEPT !.refresh = Now],
                                    !.left = ItemLimit]
                   ELSE [job EXCEPT !.at = "items", !.left = ItemLimit]
  /\ StillFailed
  /\ UNCHANGED <<last, heads, ssh, snapshot, upsets, seen>>

\* The tick saves the cycle's identity before it reads any source.
SaveCycle ==
  /\ job.at = "begun" /\ checkpoint' = job.mem /\ RefreshTo("items", job.mem)
  /\ UNCHANGED <<last, heads, ssh, store, snapshot, upsets, seen, failed>>

\* reconcile_step: the next item is read and published, or its failure recorded.
Reconcile ==
  /\ job.at = "items" /\ job.left > 0 /\ ~Attempted(store.cycle)
  /\ LET i == NextItem(store)
         read == [network |-> store.cycle.captured[i], ssh |-> ssh]
     IN  \/ ReadWorks /\ store' = Publish(store, i, read)
         \/ ReadFails /\ store' = FailItem(store, i, "read")
  /\ job' = [job EXCEPT !.left = @ - 1] /\ StillFailed
  /\ UNCHANGED <<last, heads, ssh, snapshot, checkpoint, seen>>

\* The end of a reconcile step: its items are used up, or its deadline stops it early.
OutOfSpace == \E i \in Anchors : store.regs[i].error = "capacity"
SettleRound ==
  /\ job.at = "items"
  /\ \/ job.left = 0 \/ Attempted(store.cycle)
     \/ upsets > 0 /\ job.left < ItemLimit
  /\ IF job.by # "tick" THEN job' = NoJob
     ELSE IF OutOfSpace THEN RefreshTo("save", Failure(job.mem, store, "capacity"))
     ELSE EndWith(IF Attempted(store.cycle) /\ store.cycle.id = job.mem.refresh
                  THEN FinishRound(job.mem, store) ELSE job.mem)
  /\ UNCHANGED <<last, heads, ssh, store, snapshot, checkpoint, upsets, seen, failed>>

\* save_state at the end of a tick, and the release of the lock.
Save ==
  /\ job.at = "save" /\ checkpoint' = job.mem /\ job' = NoJob
  /\ UNCHANGED <<last, heads, ssh, store, snapshot, upsets, seen, failed>>

\* A job dies: the lock goes with it, what it had committed stays.
Die ==
  /\ job # NoJob /\ Upset
  /\ job' = NoJob
  /\ UNCHANGED <<last, heads, ssh, store, snapshot, checkpoint, seen, failed>>

-----------------------------------------------------------------------------
(* The operator's commands. *)

Command == job = NoJob /\ Upset

DiscoverCommand ==
  /\ Command /\ job' = [NoJob EXCEPT !.by = "cli", !.at = "begin"]
  /\ UNCHANGED <<last, heads, ssh, store, snapshot, checkpoint, seen, failed>>

RefreshCommand ==
  /\ Command /\ job' = [NoJob EXCEPT !.by = "cli", !.at = "preflight"]
  /\ UNCHANGED <<last, heads, ssh, store, snapshot, checkpoint, seen, failed>>

SnapshotCommand ==
  /\ Command /\ snapshot = EmptyStore /\ snapshot' = store
  /\ UNCHANGED <<last, heads, ssh, store, checkpoint, job, seen, failed>>

\* restore, and the change of configuration that puts the restored store to use: its checkpoint
\* does not exist, or is bound to another store.
RestoreCommand ==
  /\ Command /\ snapshot # EmptyStore
  /\ store' = Restored(snapshot) /\ checkpoint' = NewState /\ failed' = Sources
  /\ UNCHANGED <<last, heads, ssh, snapshot, job, seen>>

-----------------------------------------------------------------------------
(* What a reader makes of checkpoint and store (read_refresh_status and, for an AI preview,        *)
(* joint_ai_preview._freshness).  Ages only ever turn "current" into "stale" and are left out.     *)

Noted(id, previous) == IF id # None THEN id ELSE previous
ChangedSince(m, s) ==
  \/ s.discovery.id # None /\ s.discovery.id # Noted(m.discovery, m.oldDiscovery)
  \/ s.cycle.id # None /\ s.cycle.id # Noted(m.refresh, m.oldRefresh)
Unfinished(s) ==
  \/ s.discovery.id # None /\ ~s.discovery.complete
  \/ s.cycle.id # None /\ ~Attempted(s.cycle)
Healthy(m, s) ==
  /\ m.state = "waiting" /\ m.phase = "idle" /\ m.success # Nothing
  /\ ~ChangedSince(m, s) /\ ~Unfinished(s)
  /\ StatusError(s) = "none" /\ ~s.runtime.pending
SaysCurrent(m, s, i) ==
  Healthy(m, s) /\ HasCase(s, i) /\ s.regs[i].state = "fresh" /\ s.regs[i].error = "none"

-----------------------------------------------------------------------------
JobStep ==
  \/ DiscoveryStep \/ Discover \/ DiscoverPage \/ RefreshStep \/ PreflightFails \/ OpenCycle
  \/ SaveCycle \/ Reconcile \/ SettleRound \/ Save

JointNext ==
  \/ ReviseIncident \/ SshArrives \/ Tick \/ JobStep \/ Die
  \/ DiscoverCommand \/ RefreshCommand \/ SnapshotCommand \/ RestoreCommand

\* A job that has the lock goes on; the scheduler's timer keeps firing.
JointFairness == WF_jointVars(JobStep) /\ WF_jointVars(Tick)
JointSpec == JointInit /\ [][JointNext]_jointVars /\ JointFairness

-----------------------------------------------------------------------------
JointTypeOK ==
  /\ (\A i \in Anchors : heads[i] \in 0 .. last[i]) /\ ssh \in 0 .. MaxSsh
  /\ \A i \in Anchors :
       /\ store.regs[i].state \in {"absent", "pending", "fresh", "unavailable", "needs_review",
                                   "not_eligible"}
       /\ store.cycle.items[i] \in Outcomes \cup {"pending", NoItem}
  /\ checkpoint.phase \in {"idle", "discover", "refresh"}
  /\ checkpoint.state \in {"not_started", "running", "waiting", "backoff", "blocked"}

\* Every store a job or a restore leaves behind can be opened and copied: its revisions number
\* 1 .. committed_generation without gap, counts agree and no limit is exceeded.
StoreStaysSound == OpensCleanly(store) /\ OpensCleanly(snapshot)

\* What is published of an anchor is at least as new as the sources were.
Covers(s, src) ==
  \A i \in Anchors : src.heads[i] > 0 /\ i \notin Unmapped =>
    HasCase(s, i) /\ Current(s, i).network >= src.heads[i] /\ Current(s, i).ssh >= src.ssh

\* A round claims success (last_success_at) only when every incident the catalog held as its
\* discovery began is published from evidence no older than that: deaths between transaction and
\* checkpoint, operator commands and restores in between cannot make a partial round look whole.
SuccessCoversTheRound == Covers(store, checkpoint.success) /\ Covers(store, job.mem.success)

\* A case is shown as current only when it is at least as new as the latest discovery, the
\* scheduler's or an operator's, found its incident, and as the SSH evidence was at the last
\* success: an old checkpoint never hides later work that is unfinished or failed.
NoFalseFreshness ==
  \A i \in Anchors : SaysCurrent(checkpoint, store, i) =>
    Current(store, i).network >= seen.heads[i] /\ Current(store, i).ssh >= checkpoint.success.ssh

\* The revalidation mark that a failed discovery or a restore sets is cleared only when what is
\* published is at least as new as the sources were at the failure.
RevalidationIsEarned ==
  [][store.runtime.pending /\ ~store'.runtime.pending => Covers(store', failed)]_jointVars

\* The joint store can be trusted (run_discovery_cycle, refresh, restore, the console's health):
\* it opens, success and freshness are never claimed for what is older, and revalidation is
\* earned.
JointStoreIsTrue ==
  /\ []StoreStaysSound /\ []SuccessCoversTheRound /\ []NoFalseFreshness
  /\ RevalidationIsEarned

\* The store has caught up with its sources, unless it is out of space or an anchor's evidence is
\* not eligible.
StoreIsCurrent ==
  \/ checkpoint.state = "blocked" \/ OutOfSpace
  \/ \E i \in Anchors : <<i, heads[i]>> \in Refused
  \/ Covers(store, Sources) /\ ~store.runtime.pending
=============================================================================

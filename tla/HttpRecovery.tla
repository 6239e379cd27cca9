---------------------------- MODULE HttpRecovery ----------------------------
(***************************************************************************)
(* Recovery packages of a running deployment: what build captures           *)
(* (src/scripts/recovery_package.py) while the collectors, the API and the   *)
(* HTTP worker go on, and what a restored package resumes from.  The parts   *)
(* it ties together are                                                      *)
(*   - the SSH collector's cursor files and the telemetry database, captured *)
(*     in that order and at different times;                                 *)
(*   - the HTTP cohort: the HTTP collector's files, captured under its lock, *)
(*     and the HTTP and telemetry databases, pinned together;                *)
(*   - the notice that http_worker.publish hands from the one database to    *)
(*     the other in two transactions.                                        *)
(***************************************************************************)
EXTENDS HttpCollection

CONSTANTS
  MaxSsh,        \* SSH records of a behaviour
  MaxNotices,    \* revisions of the one HTTP case
  MaxBuilds,     \* builds started
  MaxRestores    \* restores

ASSUME HttpRecoveryAssumption ==
  MaxSsh \in Nat /\ MaxNotices \in Nat /\ MaxBuilds \in Nat /\ MaxRestores \in Nat

VARIABLES
  sshStored,   \* records in the telemetry database
  sshCursor,   \* records the SSH cursor file has passed
  outbox,      \* http_notice_outbox: [revision, pending]
  imported,    \* the revision in notification_meta of the telemetry database
  publishing,  \* the revision publish is carrying, or 0
  build,       \* [at, files..., databases...]: the package in the making
  packages,    \* published packages
  marked,      \* restore markers in the live HTTP database: packages
  builds, restores

deploymentVars == <<sshStored, sshCursor, outbox, imported, publishing>>
packageVars == <<build, packages, marked, builds, restores>>
recoveryVars == <<httpVars, deploymentVars, packageVars>>

Files == [cursor |-> httpCursor, spool |-> httpSpool]
Databases == [rows |-> httpRows, declared |-> httpDeclared, seen |-> httpSeen,
              outbox |-> outbox, imported |-> imported, ssh |-> sshStored, marked |-> marked]
NoBuild == [at |-> "none", ssh |-> 0, files |-> [cursor |-> NoCursor, spool |-> NoSpool],
            databases |-> [rows |-> {}]]

RecoveryInit ==
  /\ HttpInit
  /\ sshStored = 0 /\ sshCursor = 0
  /\ outbox = [revision |-> 0, pending |-> FALSE] /\ imported = 0 /\ publishing = 0
  /\ build = NoBuild /\ packages = {} /\ marked = {} /\ builds = 0 /\ restores = 0

-----------------------------------------------------------------------------
(* The deployment. *)

\* SSH ingestion commits before the collector writes its cursor (see SshCollection).
SshStore ==
  /\ sshStored < MaxSsh
  /\ sshStored' = sshStored + 1
  /\ UNCHANGED <<httpVars, sshCursor, outbox, imported, publishing, packageVars>>
SshAdvance ==
  /\ sshCursor < sshStored
  /\ sshCursor' = sshStored
  /\ UNCHANGED <<httpVars, sshStored, outbox, imported, publishing, packageVars>>

\* _save_case of http_incidents: a new revision replaces the notice and is pending.
SaveNotice ==
  /\ outbox.revision < MaxNotices
  /\ outbox' = [revision |-> outbox.revision + 1, pending |-> TRUE]
  /\ UNCHANGED <<httpVars, sshStored, sshCursor, imported, publishing, packageVars>>

\* http_worker.publish: read, import where it is news, acknowledge what was read.
ReadNotice ==
  /\ publishing = 0 /\ outbox.pending
  /\ publishing' = outbox.revision
  /\ UNCHANGED <<httpVars, sshStored, sshCursor, outbox, imported, packageVars>>
ImportNotice ==
  /\ publishing > imported
  /\ imported' = publishing
  /\ UNCHANGED <<httpVars, sshStored, sshCursor, outbox, publishing, packageVars>>
AckNotice ==
  /\ publishing # 0 /\ publishing =< imported
  /\ outbox' = IF outbox.revision = publishing THEN [outbox EXCEPT !.pending = FALSE] ELSE outbox
  /\ publishing' = 0
  /\ UNCHANGED <<httpVars, sshStored, sshCursor, imported, packageVars>>

-----------------------------------------------------------------------------
(* build. *)

\* The state directories outside the cohort come first.
CaptureState ==
  /\ build.at = "none" /\ builds < MaxBuilds
  /\ builds' = builds + 1
  /\ build' = [NoBuild EXCEPT !.at = "state", !.ssh = sshCursor]
  /\ UNCHANGED <<httpVars, deploymentVars, packages, marked, restores>>

\* locked_http_collectors: a running collector fails the build at once.
LockCollectors ==
  /\ build.at = "state"
  /\ build' = IF httpAt = "idle" THEN [build EXCEPT !.at = "locked", !.files = Files] ELSE NoBuild
  /\ UNCHANGED <<httpVars, deploymentVars, packages, marked, builds, restores>>

\* pinned_http_databases: both writers are held while both snapshots begin.
PinDatabases ==
  /\ build.at = "locked"
  /\ build' = [build EXCEPT !.at = "pinned", !.databases = Databases]
  /\ UNCHANGED <<httpVars, deploymentVars, packages, marked, builds, restores>>

\* check_http_pair
Compatible(d) ==
  /\ d.imported =< d.outbox.revision
  /\ ~d.outbox.pending => d.imported = d.outbox.revision

\* Copy, archive, encrypt, sign; os.replace makes the finished directory visible.
Publish ==
  /\ build.at = "pinned" /\ Compatible(build.databases)
  /\ packages' = packages \cup {[id |-> builds, ssh |-> build.ssh, files |-> build.files,
                                 databases |-> build.databases]}
  /\ build' = NoBuild
  /\ UNCHANGED <<httpVars, deploymentVars, marked, builds, restores>>

\* Any step may fail: the working directory is removed, nothing is published.
BuildFails ==
  /\ build.at # "none"
  /\ build' = NoBuild
  /\ UNCHANGED <<httpVars, deploymentVars, packages, marked, builds, restores>>

-----------------------------------------------------------------------------
(* Restoring: services are stopped, the files and both databases of one verified
   package take the place of the live ones, the restore is marked and services start. *)

\* mark_http_restored on snapshots that match the package: recorded once for a package.
Marked(p) == p.databases.marked \cup {p.id}

Restore ==
  /\ restores < MaxRestores
  /\ restores' = restores + 1
  /\ \E p \in packages :
       /\ sshStored' = p.databases.ssh /\ sshCursor' = p.ssh
       /\ httpCursor' = p.files.cursor /\ httpSpool' = p.files.spool
       /\ httpRows' = p.databases.rows /\ httpDeclared' = p.databases.declared
       /\ httpSeen' = p.databases.seen
       /\ outbox' = p.databases.outbox /\ imported' = p.databases.imported
       /\ marked' = Marked(p)
  /\ httpAt' = "idle" /\ httpPosted' = {} /\ publishing' = 0
  /\ build' = NoBuild
  /\ UNCHANGED <<logVars, httpGens, httpFaults, packages, builds>>

\* The HTTP collector cannot start while a build holds its lock.
Collector ==
  /\ CollectorStep
  /\ build.at = "locked" => httpAt' = httpAt
  /\ UNCHANGED <<deploymentVars, packageVars>>
Logs == (WriteLine \/ RotateLog \/ ReopenLog \/ LogQuiet) /\ UNCHANGED <<deploymentVars, packageVars>>
CollectorFaults == (HttpAbort \/ HttpLose) /\ UNCHANGED <<deploymentVars, packageVars>>

Worker == ReadNotice \/ ImportNotice \/ AckNotice
Build == CaptureState \/ LockCollectors \/ PinDatabases \/ Publish

RecoveryNext == \/ Logs \/ Collector \/ CollectorFaults
                \/ SshStore \/ SshAdvance \/ SaveNotice \/ Worker
                \/ Build \/ BuildFails \/ Restore

RecoverySpec ==
  /\ RecoveryInit /\ [][RecoveryNext]_recoveryVars
  /\ WF_recoveryVars(Collector) /\ WF_recoveryVars(Worker) /\ WF_recoveryVars(Build)

-----------------------------------------------------------------------------
\* check_http_pair never has a reason to refuse a pinned pair, however the worker's two
\* transactions fall: only the simultaneous pin makes it so.
PinnedPairIsCompatible == build.at = "pinned" => Compatible(build.databases)

\* A restored SSH cursor never points past the restored records, so that the collector
\* reads what the restored database lacks again.
RestoredCursorIsBehind == sshCursor =< sshStored

\* No notice is lost by a restore: what the outbox counts as delivered is what the
\* console imported, or the delivery is still under way.
NoticeNotSuppressed == outbox.pending \/ imported = outbox.revision

\* The console has the latest notice.
NoticeImported == imported = outbox.revision

\* HTTP collection is sound, across builds and restores of recovery packages too
\* (collect_page, ingest, publish, build): lines are stored under one identity, a
\* caught-up stream was read, a pinned pair of databases is compatible, a restored
\* cursor points behind the restored records and no notice is suppressed.
HttpCollectionIsSound ==
  /\ HttpLineStoredOnce /\ HttpCaughtUpMeansRead
  /\ PinnedPairIsCompatible /\ RestoredCursorIsBehind /\ NoticeNotSuppressed

=============================================================================

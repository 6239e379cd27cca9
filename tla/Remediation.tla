---------------------------- MODULE Remediation -----------------------------
(***************************************************************************)
(* From a drafted plan to a changed host: decisions on a plan                *)
(* (src/backend/app/pipeline/remediation.py), the policy gates               *)
(* (src/backend/app/policy/engine.py, authorization.py), and the executor's  *)
(* apply, verify and rollback on a lab copy of a host                        *)
(* (src/backend/app/tools/harden_ssh.py).                                    *)
(*                                                                           *)
(* One thread of control decides and executes; the host's owner may edit its *)
(* files between any two of its steps, and the process may die there, which  *)
(* loses its repository and keeps the host's files and backups.              *)
(***************************************************************************)
EXTENDS SshdConfig

CONSTANTS
  Contents,      \* what a plan may ask for: [type, wants, medium]
  Scopes,        \* the assessment scopes in use
  Actors,        \* who approves and executes
  Target,        \* the host of the plan, and of the executor
  HostFiles,     \* what the owner may write into sshd_config
  Dropins,       \* what the drop-in directory may hold
  Radix, Width,  \* the digits of an identifier and how many it is padded to
  MaxDecisions, MaxConfigEdits, MaxDeaths, LastHour

ASSUME RemediationAssumption ==
  /\ \A c \in Contents : c.wants \subseteq Settings /\ c.medium \in BOOLEAN
  /\ \A s \in Scopes : s.from \in Nat /\ s.until \in Nat /\ s.autonomy \in 0..5
  /\ Radix \in Nat \ {0, 1} /\ Width \in Nat \ {0}
  /\ MaxDecisions \in Nat /\ MaxConfigEdits \in Nat /\ MaxDeaths \in Nat /\ LastHour \in Nat

VARIABLES
  main, dropin,   \* the files of the host
  backups,        \* contents under var/backups; the name holds a digest of the content
  human,          \* what a person last wrote into sshd_config before a plan read it
  decisions,      \* the approvals collection, in the order of recording
  status,         \* status of the saved plan
  run,            \* execute_plan: [at, content, scope, actor, hour, before, state]
  hour,
  configEdits, deaths

remVars == <<main, dropin, backups, human, decisions, status, run, hour, configEdits, deaths>>

Idle == [at |-> "idle"]
Statuses == {"proposed", "approved", "executed", "verified", "rolled_back"}

\* make_scope: the digest covers the fields a policy depends on, not the approval.
PolicyHash(s) == [s EXCEPT !.approved = TRUE]

(***************************************************************************)
(* Decisions on a plan                                                       *)
(***************************************************************************)
\* IdFactory.next numbers them; valid_approval compares the identifiers as text.
Digits(n) ==
  CHOOSE k \in Width .. Width + MaxDecisions :
    n < Radix^k /\ (k = Width \/ n >= Radix^(k - 1))
TextBefore(m, n) ==
  LET wide == Max({Digits(m), Digits(n)})
      Aligned(k) == k * Radix^(wide - Digits(k))
  IN  \/ Aligned(m) < Aligned(n)
      \/ Aligned(m) = Aligned(n) /\ Digits(m) < Digits(n)

\* valid_approval
Under(ds, s) == {k \in DOMAIN ds : ds[k].scope = PolicyHash(s)}
(* Mutant of ValidApproval: a later rejection does not take an approval back. *)
ApprovedOnce(ds, content, s) == \E k \in Under(ds, s) : ds[k].approved /\ ds[k].plan = content
ValidApproval(ds, content, s) ==
  /\ Under(ds, s) # {}
  /\ LET latest == CHOOSE k \in Under(ds, s) : \A j \in Under(ds, s) \ {k} : TextBefore(j, k)
     IN  ds[latest].approved /\ ds[latest].plan = content

\* record_approval
RecordApproval ==
  /\ run = Idle /\ Len(decisions) < MaxDecisions
  /\ \E c \in Contents, s \in Scopes, who \in Actors, verdict \in BOOLEAN :
       /\ who \in s.actors
       /\ decisions' = Append(decisions, [plan |-> c, scope |-> PolicyHash(s),
                                          approved |-> verdict, approver |-> who])
  /\ UNCHANGED <<main, dropin, backups, human, status, run, hour, configEdits, deaths>>

(***************************************************************************)
(* The policy gate                                                           *)
(***************************************************************************)
\* scope_problems
ScopeProblems(s) == ~s.readable \/ s.from >= s.until
\* _min_autonomy
MinAutonomy(content, has) == IF ~content.medium /\ ~has THEN 4 ELSE 3
\* PolicyEngine._decide: the first gate that fails names the reason.
PolicyDecision(s, actor, content, has, at) ==
  CASE ~s.approved -> "SCOPE_NOT_APPROVED"
    [] ~s.bound -> "SCOPE_UNBOUND"
    [] s.actors = {} \/ s.targets = {} -> "SCOPE_EMPTY"
    [] ScopeProblems(s) -> "SCOPE_AMBIGUOUS"
    [] at < s.from -> "SCOPE_WINDOW_INVALID"
    [] at > s.until -> "SCOPE_EXPIRED"
    [] actor \notin s.actors -> "ACTOR_NOT_PERMITTED"
    [] Target \notin s.targets -> "TARGET_NOT_IN_SCOPE"
    [] content.medium /\ ~has -> "APPROVAL_REQUIRED"
    [] s.autonomy < MinAutonomy(content, has) -> "AUTONOMY_LEVEL_INSUFFICIENT"
    [] OTHER -> "ALLOW_OK"

\* evaluate_execution alone, or as the first step of execute_plan.
EvaluateExecution ==
  /\ run = Idle
  /\ \E c \in Contents, s \in Scopes, who \in Actors, execute \in BOOLEAN :
     \E code \in {PolicyDecision(s, who, c, ValidApproval(decisions, c, s), hour)} :
       /\ status' = IF code = "ALLOW_OK" THEN "approved" ELSE "proposed"
       /\ run' = IF execute /\ code = "ALLOW_OK"
                 THEN [at |-> "apply", content |-> c, scope |-> s, actor |-> who, hour |-> hour,
                       before |-> main, state |-> HostState(main, dropin)]
                 ELSE Idle
  /\ UNCHANGED <<main, dropin, backups, human, decisions, hour, configEdits, deaths>>

(***************************************************************************)
(* The executor                                                              *)
(***************************************************************************)
\* The executor is asked for another action, for no change, or finds a file it
\* cannot read: execute_plan records the refusal and leaves the host alone.
Refuses(c) ==
  c.type # "harden_ssh_access" \/ c.wants = {} \/ Read(main, dropin).problems
Refused ==
  /\ run.at = "apply" /\ Refuses(run.content)
  /\ run' = Idle
  /\ UNCHANGED <<main, dropin, backups, human, decisions, status, hour, configEdits, deaths>>

\* apply up to the backup: the name of a backup holds a digest of its content.
SaveBackup(kept, content) == kept \cup {content}
Backup ==
  /\ run.at = "apply" /\ ~Refuses(run.content)
  /\ backups' = SaveBackup(backups, main)
  /\ run' = [run EXCEPT !.at = "swap", !.before = main]
  /\ UNCHANGED <<main, dropin, human, decisions, status, hour, configEdits, deaths>>

\* _replace, and the status execute_plan saves.
Swap ==
  /\ run.at = "swap"
  /\ main' = Edit(run.before, run.content.wants)
  /\ status' = "executed"
  /\ run' = [run EXCEPT !.at = "verify"]
  /\ UNCHANGED <<dropin, backups, human, decisions, hour, configEdits, deaths>>

VerifyHost ==
  /\ run.at = "verify"
  /\ IF Verify(main, dropin, run.content.wants)
     THEN status' = "verified" /\ run' = Idle
     ELSE status' = status /\ run' = [run EXCEPT !.at = "rollback"]
  /\ UNCHANGED <<main, dropin, backups, human, decisions, hour, configEdits, deaths>>

\* rollback: no look at what the file holds by now.
Rollback ==
  /\ run.at = "rollback"
  /\ main' = run.before
  /\ status' = "rolled_back"
  /\ run' = Idle
  /\ UNCHANGED <<dropin, backups, human, decisions, hour, configEdits, deaths>>

(***************************************************************************)
(* The host's owner, the clock and the process                               *)
(***************************************************************************)
OwnerEdits ==
  /\ configEdits < MaxConfigEdits /\ configEdits' = configEdits + 1
  /\ \/ \E f \in HostFiles \ {main} :
          /\ main' = f /\ dropin' = dropin
          /\ human' = IF run.at \in {"idle", "apply"} THEN f ELSE human
     \/ \E f \in Dropins \ {dropin} : dropin' = f /\ UNCHANGED <<main, human>>
  /\ UNCHANGED <<backups, decisions, status, run, hour, deaths>>

HourPasses ==
  /\ run = Idle /\ hour < LastHour /\ hour' = hour + 1
  /\ UNCHANGED <<main, dropin, backups, human, decisions, status, run, configEdits, deaths>>

\* The repository is in memory: a new process drafts the plan again.
ProcessDies ==
  /\ run # Idle /\ deaths < MaxDeaths /\ deaths' = deaths + 1
  /\ run' = Idle /\ decisions' = <<>> /\ status' = "proposed"
  /\ UNCHANGED <<main, dropin, backups, human, hour, configEdits>>

RemInit ==
  /\ main \in HostFiles /\ dropin \in Dropins
  /\ backups = {} /\ human = main
  /\ decisions = <<>> /\ status = "proposed" /\ run = Idle
  /\ hour = 0 /\ configEdits = 0 /\ deaths = 0

RemNext ==
  \/ RecordApproval \/ EvaluateExecution \/ Refused \/ Backup \/ Swap \/ VerifyHost \/ Rollback
  \/ OwnerEdits \/ HourPasses \/ ProcessDies

RemSpec == RemInit /\ [][RemNext]_remVars

(***************************************************************************)
(* Properties                                                                *)
(***************************************************************************)
\* The host's file is only ever rewritten by a plan whose latest decision under the
\* scope in use, latest by the time of recording, approves exactly that plan, under
\* an approved, readable scope that names the actor and the host, inside its hours
\* and at an autonomy level that executes; execute_plan reaches apply by no other way.
ChangeIsAuthorised ==
  [][Swap =>
       LET s == run.scope
           ds == Under(decisions, s)
       IN  /\ ds # {} /\ decisions[Max(ds)].approved /\ decisions[Max(ds)].plan = run.content
           /\ decisions[Max(ds)].approver \in s.actors
           /\ s.approved /\ s.bound /\ s.readable /\ run.actor \in s.actors /\ Target \in s.targets
           /\ s.from <= run.hour /\ run.hour <= s.until /\ s.autonomy >= 3]_remVars

\* A plan is only called verified when sshd, reading these files, would serve the
\* hardened value of every setting the plan names to every connection, whichever
\* Match blocks it meets and wherever drop-ins are included.
VerifiedMeansEnforced ==
  [][status' = "verified" /\ status # "verified" =>
       Enforced(main, dropin, run.content.wants)]_remVars

\* What a person last wrote into sshd_config before a plan read it is in the file or
\* in a backup: across failed verifications, deaths between two steps and repeated
\* executions, whose backups apply keeps apart by the digest in their names.
OriginalIsRecoverable == main = human \/ human \in backups

\* execute_plan changes the host only as far as it was authorised to, calls verified
\* only what is enforced, and loses nothing a person wrote.
RemediationIsSafe == ChangeIsAuthorised /\ VerifiedMeansEnforced /\ []OriginalIsRecoverable
=============================================================================

------------------------------- MODULE JointAi ------------------------------
(***************************************************************************)
(* Manual review of joint cases                                              *)
(* (src/backend/app/telemetry/joint_ai_service.py): a queue of its own       *)
(* (ai_jobs.py with queue_kind "joint") whose paid calls (agents/            *)
(* joint_triage_api.py) are accounted in the database of the SSH queue, so   *)
(* that both spend one budget.  The two databases commit apart, the owner's  *)
(* first.  Days, and so the daily limit, are in AiJobs.                      *)
(*                                                                           *)
(* A job stands for one dossier of a case; a dossier's number is above those *)
(* of the case's earlier ones, and jobs are created in the order of their    *)
(* numbers.                                                                  *)
(***************************************************************************)
EXTENDS Integers, FiniteSets, FiniteSetsExt, Functions

CONSTANTS
  CaseOf,          \* dossier -> its case
  Unfit,           \* dossiers whose review_state is not "current"
  JointWorkers,    \* worker threads, of one or more processes
  AttemptLimit,    \* settings.max_attempts
  JointQueueLimit, \* settings.queue_limit
  ReceiptScan,     \* uncertain jobs looked at per claim (100)
  JointCharges,    \* what a call may cost; a reservation is one unit
  SharedLimit,     \* total_limit of the shared budget
  MaxJointFaults   \* deaths, restarts, outages of the owner's database, late leases

Dossiers == DOMAIN CaseOf
ReviewCases == {CaseOf[j] : j \in Dossiers}
MaxReviewClaims == AttemptLimit + MaxJointFaults + 1    \* bounds the attempts of a job
JointCallIds == Dossiers \X (1 .. MaxReviewClaims)

ASSUME JointAiAssumption ==
  /\ IsFiniteSet(Dossiers) /\ Dossiers \subseteq Nat \ {0} /\ Unfit \subseteq Dossiers
  /\ AttemptLimit \in Nat \ {0} /\ JointQueueLimit \in Nat \ {0} /\ ReceiptScan \in Nat \ {0}
  /\ JointCharges \subseteq Nat /\ SharedLimit \in Nat /\ MaxJointFaults \in Nat

VARIABLES
  mode,         \* settings.mode: "api" or "recorded"
  dossier,      \* case -> the number of its present dossier, 0 before the first
  reviews,      \* the joint queue: dossier -> its row of ai_jobs
  receipts,     \* ai_calls of the owner that belong to joint jobs
  sshSpent,     \* what the SSH queue has committed
  overrun,      \* ai_meta 'halted' of the owner
  ownerUp,      \* the owner's database can be opened
  approved,     \* allow_external and approved_summary_version permit external calls
  threads,      \* worker -> what it holds in memory
  scanCursor,   \* receipt_recovery_cursor
  posts,        \* requests the provider has got: call -> number
  faults

reviewVars == <<mode, dossier, reviews, receipts, sshSpent, overrun, ownerUp, approved, threads,
                scanCursor, posts, faults>>

NoReceipt == [charged |-> -2]
Reserved == [charged |-> -1]
AtRest == [pc |-> "idle"]

ReviewInit ==
  /\ mode \in {"api", "recorded"}
  /\ dossier = [c \in ReviewCases |-> 0]
  /\ reviews = [j \in Dossiers |-> [state |-> "none", attempt |-> 0, token |-> 0, leased |-> FALSE]]
  /\ receipts = [id \in JointCallIds |-> NoReceipt]
  /\ sshSpent = 0 /\ overrun = FALSE /\ ownerUp = TRUE /\ approved = TRUE
  /\ threads = [w \in JointWorkers |-> AtRest]
  /\ scanCursor = 0 /\ posts = [id \in JointCallIds |-> 0] /\ faults = 0

-----------------------------------------------------------------------------
(* The shared budget and the service's pause. *)

JointCommitted(id) == IF receipts[id] = NoReceipt THEN 0
                 ELSE IF receipts[id] = Reserved THEN 1 ELSE receipts[id].charged
JointSpent == SumFunctionOnSet([id \in JointCallIds |-> JointCommitted(id)], JointCallIds)
JointAffordable == ~overrun /\ sshSpent + JointSpent + 1 <= SharedLimit

\* _api_state; every operation on the joint queue also opens the owner's database.
Reachable == mode # "api" \/ ownerUp
Paused == mode = "api" /\ (~ownerUp \/ ~approved \/ ~JointAffordable)

CallOf(j) == <<j, reviews[j].attempt>>
Paid(id) == id \in JointCallIds /\ receipts[id].charged >= 0
Known(id) == id \in JointCallIds /\ receipts[id] # NoReceipt

IsCurrent(j) == dossier[CaseOf[j]] = j

\* enqueue: only what the preview shows now, and for an external call only a current case.
EnqueueReview(j) ==
  /\ Reachable /\ IsCurrent(j) /\ reviews[j].state = "none"
  /\ \A later \in Dossiers : later > j => reviews[later].state = "none"
  /\ mode = "api" => ~Paused /\ j \notin Unfit
  /\ Cardinality({k \in Dossiers : reviews[k].state \in {"queued", "running", "recoverable"}})
       < JointQueueLimit
  /\ reviews' = [reviews EXCEPT ![j].state = "queued"]
  /\ UNCHANGED <<mode, dossier, receipts, sshSpent, overrun, ownerUp, approved, threads,
                 scanCursor, posts, faults>>

-----------------------------------------------------------------------------
(* claim. *)

\* _recover: all expired leases, and the next few uncertain jobs after a cursor that goes round.
Uncertain == {j \in Dossiers : reviews[j].state = "uncertain"}
Lowest(S) == {j \in S : Cardinality({k \in S : k < j}) < ReceiptScan}
Scanned == IF {j \in Uncertain : j > scanCursor} # {}
           THEN Lowest({j \in Uncertain : j > scanCursor}) ELSE Lowest(Uncertain)

(* Mutant of AfterRecovery: a reservation without an answer is tried again. *)
AfterRecoveryRetries(j) ==
  LET expired == reviews[j].state = "running" /\ ~reviews[j].leased
      looked == expired \/ (mode = "api" /\ j \in Scanned)
  IN  IF looked /\ Paid(CallOf(j)) THEN "recoverable"
      ELSE IF ~expired THEN reviews[j].state
      ELSE IF reviews[j].attempt < AttemptLimit THEN "queued" ELSE "failed"

AfterRecovery(j) ==
  LET expired == reviews[j].state = "running" /\ ~reviews[j].leased
      looked == expired \/ (mode = "api" /\ j \in Scanned)
  IN  IF looked /\ Paid(CallOf(j)) THEN "recoverable"
      ELSE IF ~expired THEN reviews[j].state
      ELSE IF Known(CallOf(j)) THEN "uncertain"
      ELSE IF reviews[j].attempt < AttemptLimit THEN "queued" ELSE "failed"
AdvancedCursor == IF mode = "api" /\ Scanned # {} THEN Max(Scanned) ELSE scanCursor

\* run_once looks at the pause before it claims.
Poll(w) ==
  /\ threads[w] = AtRest
  /\ threads' = [threads EXCEPT ![w] = [pc |-> "claim", recoverOnly |-> Paused]]
  /\ UNCHANGED <<mode, dossier, reviews, receipts, sshSpent, overrun, ownerUp, approved,
                 scanCursor, posts, faults>>

Claimable(w) ==
  {j \in Dossiers : AfterRecovery(j) \in
     (IF threads[w].recoverOnly THEN {"recoverable"} ELSE {"queued", "recoverable"})}
Claim(w) ==
  /\ threads[w].pc = "claim" /\ Reachable
  /\ scanCursor' = AdvancedCursor
  /\ \E recovered \in {[j \in Dossiers |-> [reviews[j] EXCEPT !.state = AfterRecovery(j)]]} :
       IF Claimable(w) = {}
       THEN reviews' = recovered /\ threads' = [threads EXCEPT ![w] = AtRest]
       ELSE \E j \in {Min(Claimable(w))} :
            \E row \in {[state |-> "running", token |-> reviews[j].token + 1, leased |-> TRUE,
                         attempt |-> IF recovered[j].state = "recoverable" THEN reviews[j].attempt
                                     ELSE reviews[j].attempt + 1]} :
              /\ row.attempt <= MaxReviewClaims
              /\ reviews' = [recovered EXCEPT ![j] = row]
              /\ threads' = [threads EXCEPT ![w] =
                   [pc |-> "lookup", job |-> j, attempt |-> row.attempt, token |-> row.token,
                    outcome |-> "none", fresh |-> IsCurrent(j)]]
  /\ UNCHANGED <<mode, dossier, receipts, sshSpent, overrun, ownerUp, approved, posts, faults>>

-----------------------------------------------------------------------------
(* _run_api. *)

JointAt(w, pc) == threads[w].pc = pc
Call(w) == <<threads[w].job, threads[w].attempt>>
Ended(thread, outcome) == [thread EXCEPT !.pc = "finish", !.outcome = outcome]
StepTo(w, pc) == threads' = [threads EXCEPT ![w].pc = pc]
EndAs(w, outcome) == threads' = [threads EXCEPT ![w] = Ended(threads[w], outcome)]

\* cached_call first: a paid answer is used whatever became of the case; then the case must be
\* the one that was approved, and current.
LookUp(w) ==
  /\ JointAt(w, "lookup") /\ mode = "api" /\ Reachable
  /\ IF Paid(Call(w)) THEN StepTo(w, "check")
     ELSE IF ~IsCurrent(threads[w].job) THEN EndAs(w, "stale")
     ELSE StepTo(w, "gate")
  /\ UNCHANGED <<mode, dossier, reviews, receipts, sshSpent, overrun, ownerUp, approved,
                 scanCursor, posts, faults>>

\* A pause that came in between puts the job back.
Gate(w) ==
  /\ JointAt(w, "gate")
  /\ IF Paused THEN EndAs(w, "queued") ELSE StepTo(w, "reserve")
  /\ UNCHANGED <<mode, dossier, reviews, receipts, sshSpent, overrun, ownerUp, approved,
                 scanCursor, posts, faults>>

\* Ledger.reserve: the owner's row is committed while the joint queue is locked.
LeaseHeld(w) ==
  LET row == reviews[threads[w].job]
  IN  row.state = "running" /\ row.token = threads[w].token /\ row.leased
ReserveShared(w) ==
  /\ JointAt(w, "reserve") /\ Reachable
  /\ IF Paid(Call(w)) THEN StepTo(w, "check") /\ UNCHANGED receipts
     ELSE IF Known(Call(w)) \/ ~LeaseHeld(w) THEN EndAs(w, "uncertain") /\ UNCHANGED receipts
     ELSE IF ~JointAffordable THEN EndAs(w, "budget_exhausted") /\ UNCHANGED receipts
     ELSE receipts' = [receipts EXCEPT ![Call(w)] = Reserved] /\ StepTo(w, "send")
  /\ UNCHANGED <<mode, dossier, reviews, sshSpent, overrun, ownerUp, approved, scanCursor, posts,
                 faults>>

Post(w) ==
  /\ JointAt(w, "send") /\ StepTo(w, "sent")
  /\ posts' = [posts EXCEPT ![Call(w)] = @ + 1]
  /\ UNCHANGED <<mode, dossier, reviews, receipts, sshSpent, overrun, ownerUp, approved,
                 scanCursor, faults>>

\* The answer is billed and its receipt saved before anything is made of it.
SettleCall(w) ==
  /\ JointAt(w, "sent") /\ Reachable
  /\ \E charge \in JointCharges :
       /\ receipts' = [receipts EXCEPT ![Call(w)] = [charged |-> charge]]
       /\ overrun' = (overrun \/ charge > 1)
  /\ StepTo(w, "check")
  /\ UNCHANGED <<mode, dossier, reviews, sshSpent, ownerUp, approved, scanCursor, posts, faults>>

\* No answer, or one that cannot be billed: Ledger.fail keeps the reservation.
CallFails(w) ==
  /\ JointAt(w, "sent") /\ Reachable /\ EndAs(w, "uncertain")
  /\ UNCHANGED <<mode, dossier, reviews, receipts, sshSpent, overrun, ownerUp, approved,
                 scanCursor, posts, faults>>

\* _checked and validate: a supported proposal completes the job, anything else is for review.
CheckReceipt(w) ==
  /\ JointAt(w, "check") /\ Reachable
  /\ \E outcome \in {"complete", "review"} : EndAs(w, outcome)
  /\ UNCHANGED <<mode, dossier, reviews, receipts, sshSpent, overrun, ownerUp, approved,
                 scanCursor, posts, faults>>

\* The recorded mode: the answer comes from a tape, which may lack it or be unreadable.
Replay(w) ==
  /\ JointAt(w, "lookup") /\ mode = "recorded"
  /\ IF ~IsCurrent(threads[w].job) THEN EndAs(w, "stale")
     ELSE \E outcome \in {"complete", "review", "failed",
                          IF threads[w].attempt < AttemptLimit THEN "queued" ELSE "failed"} :
            EndAs(w, outcome)
  /\ UNCHANGED <<mode, dossier, reviews, receipts, sshSpent, overrun, ownerUp, approved,
                 scanCursor, posts, faults>>

\* finish: only under the worker's own claim.
JointWritten(w, state) ==
  /\ threads' = [threads EXCEPT ![w] = AtRest]
  /\ \E row \in {reviews[threads[w].job]} :
       reviews' = IF row.token = threads[w].token /\ row.attempt = threads[w].attempt
                       /\ row.state \in {"running", "uncertain"}
                  THEN [reviews EXCEPT ![threads[w].job].state = state] ELSE reviews
  /\ UNCHANGED <<mode, dossier, receipts, sshSpent, overrun, ownerUp, approved, scanCursor, posts>>
FinishReview(w) ==
  JointAt(w, "finish") /\ Reachable /\ JointWritten(w, threads[w].outcome) /\ UNCHANGED faults

\* Any other exception (a key that cannot be read): retry_unsubmitted asks the owner.
RetryUnsent(w) ==
  /\ JointAt(w, "reserve") /\ Reachable /\ faults < MaxJointFaults /\ faults' = faults + 1
  /\ JointWritten(w, IF Known(Call(w)) THEN "uncertain"
                ELSE IF threads[w].attempt < AttemptLimit THEN "queued" ELSE "failed")

\* The owner's database is away: the error leaves run_once, the row keeps its lease.
Escapes(w) ==
  /\ threads[w] # AtRest /\ ~Reachable /\ ~JointAt(w, "gate") /\ ~JointAt(w, "send")
  /\ threads' = [threads EXCEPT ![w] = AtRest]
  /\ UNCHANGED <<mode, dossier, reviews, receipts, sshSpent, overrun, ownerUp, approved,
                 scanCursor, posts, faults>>

-----------------------------------------------------------------------------
(* The environment. *)

Fault == faults < MaxJointFaults /\ faults' = faults + 1

ThreadDies(w) ==
  /\ threads[w] # AtRest /\ Fault
  /\ threads' = [threads EXCEPT ![w] = AtRest]
  /\ UNCHANGED <<mode, dossier, reviews, receipts, sshSpent, overrun, ownerUp, approved,
                 scanCursor, posts>>

\* The service restarts with other settings: the approval is withdrawn, or given again.
Reconfigure ==
  /\ mode = "api" /\ Fault
  /\ approved' = ~approved /\ threads' = [w \in JointWorkers |-> AtRest]
  /\ UNCHANGED <<mode, dossier, reviews, receipts, sshSpent, overrun, ownerUp, scanCursor, posts>>

OwnerAway ==
  /\ mode = "api" /\ ownerUp /\ Fault /\ ownerUp' = FALSE
  /\ UNCHANGED <<mode, dossier, reviews, receipts, sshSpent, overrun, approved, threads,
                 scanCursor, posts>>
OwnerBack ==
  /\ ~ownerUp /\ ownerUp' = TRUE
  /\ UNCHANGED <<mode, dossier, reviews, receipts, sshSpent, overrun, approved, threads,
                 scanCursor, posts, faults>>

HolderOf(j) == {w \in JointWorkers : "job" \in DOMAIN threads[w] /\ threads[w].job = j
                                     /\ threads[w].token = reviews[j].token}
LeaseEnds(j) ==
  /\ reviews[j].state = "running" /\ reviews[j].leased
  /\ IF HolderOf(j) = {} THEN UNCHANGED faults ELSE Fault
  /\ reviews' = [reviews EXCEPT ![j].leased = FALSE]
  /\ UNCHANGED <<mode, dossier, receipts, sshSpent, overrun, ownerUp, approved, threads,
                 scanCursor, posts>>

\* A refresh publishes a new revision, or freshness passes: the case has another dossier.
NewDossier(c) ==
  /\ \E j \in Dossiers :
       /\ CaseOf[j] = c /\ j > dossier[c]
       /\ \A k \in Dossiers : CaseOf[k] = c /\ k > dossier[c] => j <= k
       /\ dossier' = [dossier EXCEPT ![c] = j]
  /\ UNCHANGED <<mode, reviews, receipts, sshSpent, overrun, ownerUp, approved, threads,
                 scanCursor, posts, faults>>

\* The SSH queue reserves from the same budget (AiJobs).
SshReserves ==
  /\ mode = "api" /\ JointAffordable /\ sshSpent = 0 /\ sshSpent' = sshSpent + 1
  /\ UNCHANGED <<mode, dossier, reviews, receipts, overrun, ownerUp, approved, threads,
                 scanCursor, posts, faults>>

ThreadStep(w) ==
  \/ Poll(w) \/ Claim(w) \/ LookUp(w) \/ Gate(w) \/ ReserveShared(w) \/ Post(w) \/ SettleCall(w)
  \/ CallFails(w) \/ CheckReceipt(w) \/ Replay(w) \/ FinishReview(w) \/ Escapes(w)
ReviewNext ==
  \/ \E w \in JointWorkers : ThreadStep(w) \/ RetryUnsent(w) \/ ThreadDies(w)
  \/ \E j \in Dossiers : EnqueueReview(j) \/ LeaseEnds(j)
  \/ \E c \in ReviewCases : NewDossier(c)
  \/ Reconfigure \/ OwnerAway \/ OwnerBack \/ SshReserves

\* Worker threads loop, calls time out, leases end by the clock, and the database returns.
ReviewFairness ==
  /\ \A w \in JointWorkers : WF_reviewVars(ThreadStep(w))
  /\ \A j \in Dossiers : WF_reviewVars(HolderOf(j) = {} /\ LeaseEnds(j))
  /\ WF_reviewVars(OwnerBack)
ReviewSpec == ReviewInit /\ [][ReviewNext]_reviewVars /\ ReviewFairness

-----------------------------------------------------------------------------
JointWithin(id) == IF JointCommitted(id) > 1 THEN 1 ELSE JointCommitted(id)

\* Whatever dies between the two databases, restarts or comes late: a dossier is submitted at most
\* once, only from a case that was still current when it was claimed, and both queues together
\* stay within the one budget (a call that costs more than its reservation halts all of them).
JointSpendIsSafe ==
  /\ \A j \in Dossiers :
       SumFunctionOnSet(posts, {id \in JointCallIds : id[1] = j}) <= 1
  /\ \A w \in JointWorkers : JointAt(w, "send") \/ JointAt(w, "sent") => threads[w].fresh
  /\ sshSpent + SumFunctionOnSet([id \in JointCallIds |-> JointWithin(id)], JointCallIds)
       <= SharedLimit
  /\ (\E id \in JointCallIds : JointCommitted(id) > 1) => overrun

\* Every paid answer is shown, also one that arrived after its job was called uncertain and
\* however many unresolved jobs the bounded scan meets first.
ReceiptsShown == \A j \in Dossiers : Paid(CallOf(j)) => reviews[j].state \in {"complete", "review"}
=============================================================================

------------------------------- MODULE AiJobs -------------------------------
(***************************************************************************)
(* The durable analysis queue and its budget ledger                        *)
(* (backend/app/telemetry/ai_jobs.py), with the worker loop of the manual  *)
(* triage service (ai_triage.py) and the paid call of its API adapter      *)
(* (agents/triage_api.py).  Workers, possibly of several processes, claim  *)
(* jobs under leases; a slow or frozen worker goes on after its lease has  *)
(* expired.  The money of a call is reserved before the provider is asked  *)
(* and settled when it answers; a worker can die between any two steps.    *)
(*                                                                         *)
(* Jobs are numbered in the order of their creation; a job stands for its  *)
(* cache key, so enqueueing it again changes nothing.  A call id is a job  *)
(* and an attempt number, a lease token a number that is new for its job.  *)
(***************************************************************************)
EXTENDS Integers, FiniteSets, FiniteSetsExt

CONSTANTS
    MaxJobs,        \* number of different cases that are ever enqueued
    Workers,
    MaxAttempts,    \* settings.max_attempts
    QueueLimit,     \* settings.queue_limit
    Reservation,    \* config.reservation(), in money units
    Charges,        \* what the provider may charge for a call
    TotalLimit, DailyLimit,
    MaxDay,         \* bound on the days of the model
    MaxCrashes,     \* bound on workers that die or fail to look a receipt up
    MaxLate,        \* bound on leases that expire under a living worker
    NoCall, Unpaid

ASSUME MaxJobsAssumption == MaxJobs \in Nat
ASSUME MaxAttemptsAssumption == MaxAttempts \in Nat \ {0}
ASSUME MoneyAssumption ==
    /\ Reservation \in Nat \ {0} /\ TotalLimit \in Nat /\ DailyLimit \in Nat
    /\ Charges \subseteq Nat /\ Unpaid \notin Nat

VARIABLES
    jobs,       \* jobs[j]: the row of ai_jobs
    calls,      \* calls[<<j, n>>]: the row of ai_calls of attempt n, or NoCall
    halted,     \* ai_meta 'halted'
    workers,    \* workers[w]: what a worker holds in memory
    stale,      \* jobs whose evidence or configuration has changed since
    sent,       \* sent[<<j, n>>]: requests the provider has got for a call
    today,
    crashes, late

vars == <<jobs, calls, halted, workers, stale, sent, today, crashes, late>>

Jobs == 1 .. MaxJobs
Attempts == 1 .. MaxAttempts
CallIds == Jobs \X Attempts
States == {"none", "queued", "running", "recoverable", "uncertain", "complete", "review",
           "stale", "budget_exhausted", "failed"}
Rows == [state : States, attempt : 0 .. MaxAttempts, token : Nat, leased : BOOLEAN]
CallRows == [day : Nat, charged : Nat \cup {Unpaid}, status : {"reserved", "uncertain", "complete"}]
ASSUME NoCallAssumption == NoCall \notin CallRows

Idle == [pc |-> "idle"]
Held == [pc : {"lookup", "reserve", "send", "sent", "settle", "finish"},
         job : Jobs, attempt : Attempts, token : Nat,
         outcome : {"complete", "stale", "uncertain", "budget_exhausted"}]

TypeOK ==
    /\ jobs \in [Jobs -> Rows]
    /\ calls \in [CallIds -> CallRows \cup {NoCall}]
    /\ halted \in BOOLEAN
    /\ workers \in [Workers -> Held \cup {Idle}]
    /\ stale \subseteq Jobs
    /\ sent \in [CallIds -> Nat]
    /\ today \in Nat /\ crashes \in Nat /\ late \in Nat

Init ==
    /\ jobs = [j \in Jobs |-> [state |-> "none", attempt |-> 0, token |-> 0, leased |-> FALSE]]
    /\ calls = [id \in CallIds |-> NoCall]
    /\ halted = FALSE
    /\ workers = [w \in Workers |-> Idle]
    /\ stale = {}
    /\ sent = [id \in CallIds |-> 0]
    /\ today = 0 /\ crashes = 0 /\ late = 0

-----------------------------------------------------------------------------
Charged(id) == calls[id] # NoCall /\ calls[id].charged # Unpaid

(* The current call of a job; it has none before its first attempt.        *)
HasCall(j) == jobs[j].attempt \in Attempts /\ calls[<<j, jobs[j].attempt>>] # NoCall
HasReceipt(j) == jobs[j].attempt \in Attempts /\ Charged(<<j, jobs[j].attempt>>)

Committed(id) ==
    IF calls[id] = NoCall THEN 0
    ELSE IF calls[id].charged = Unpaid THEN Reservation ELSE calls[id].charged
CommittedIn(ids) == SumFunctionOnSet([id \in CallIds |-> Committed(id)], ids)
CallsOf(day) == {id \in CallIds : calls[id] # NoCall /\ calls[id].day = day}

(* enqueue: a known cache key is returned as it is; a full queue refuses.  *)
Enqueue(j) ==
    /\ jobs[j].state = "none"
    /\ \A earlier \in 1 .. (j - 1) : jobs[earlier].state # "none"
    /\ Cardinality({other \in Jobs : jobs[other].state \in {"queued", "running", "recoverable"}})
         < QueueLimit
    /\ jobs' = [jobs EXCEPT ![j].state = "queued"]
    /\ UNCHANGED <<calls, halted, workers, stale, sent, today, crashes, late>>

(* Mutant of Recovered: a reservation without a receipt is retried.        *)
RecoveredRetries(j) ==
    LET expired == jobs[j].state = "running" /\ ~jobs[j].leased
    IN IF HasReceipt(j) /\ (expired \/ jobs[j].state = "uncertain") THEN "recoverable"
       ELSE IF ~expired THEN jobs[j].state
       ELSE IF jobs[j].attempt < MaxAttempts THEN "queued" ELSE "failed"

(* Mutant of Recovered: an uncertain job is never looked at again.         *)
RecoveredOnlyExpired(j) ==
    LET expired == jobs[j].state = "running" /\ ~jobs[j].leased
    IN IF HasReceipt(j) /\ expired THEN "recoverable"
       ELSE IF ~expired THEN jobs[j].state
       ELSE IF HasCall(j) THEN "uncertain"
       ELSE IF jobs[j].attempt < MaxAttempts THEN "queued" ELSE "failed"

(* _recover: what becomes of a job before a claim.  An expired lease is    *)
(* settled by the ledger: a receipt is recoverable, a reservation without  *)
(* one is uncertain, and only a job without either may try again.          *)
Recovered(j) ==
    LET expired == jobs[j].state = "running" /\ ~jobs[j].leased
    IN IF HasReceipt(j) /\ (expired \/ jobs[j].state = "uncertain") THEN "recoverable"
       ELSE IF ~expired THEN jobs[j].state
       ELSE IF HasCall(j) THEN "uncertain"
       ELSE IF jobs[j].attempt < MaxAttempts THEN "queued" ELSE "failed"

Ready == {j \in Jobs : Recovered(j) \in {"queued", "recoverable"}}

(* The row of a claimed job: a new attempt, unless it is to be recovered.  *)
Claimed(j) ==
    [state |-> "running", token |-> jobs[j].token + 1, leased |-> TRUE,
     attempt |-> IF Recovered(j) = "recoverable" THEN jobs[j].attempt ELSE jobs[j].attempt + 1]

Recover == [j \in Jobs |-> [jobs[j] EXCEPT !.state = Recovered(j)]]

(* claim: recover, then take the oldest job that is ready, if any.         *)
ClaimJob(w, j) ==
    /\ workers[w] = Idle
    /\ j \in Ready /\ \A other \in Ready : j <= other
    /\ jobs' = [Recover EXCEPT ![j] = Claimed(j)]
    /\ workers' = [workers EXCEPT ![w] =
         [pc |-> "lookup", job |-> j, attempt |-> Claimed(j).attempt, token |-> Claimed(j).token,
          outcome |-> "complete"]]
    /\ UNCHANGED <<calls, halted, stale, sent, today, crashes, late>>

ClaimNothing(w) ==
    /\ workers[w] = Idle
    /\ Ready = {}
    /\ jobs' = Recover
    /\ UNCHANGED <<calls, halted, workers, stale, sent, today, crashes, late>>

-----------------------------------------------------------------------------
(* The steps of a worker that holds a job.                                 *)

At(w, pc) == workers[w].pc = pc
CallId(w) == <<workers[w].job, workers[w].attempt>>
Goto(w, pc) == workers' = [workers EXCEPT ![w].pc = pc]
FinishAs(w, outcome) == workers' = [workers EXCEPT ![w].pc = "finish", ![w].outcome = outcome]

(* The row still belongs to the claim of this worker.                      *)
OwnsRow(w) ==
    /\ jobs[workers[w].job].token = workers[w].token
    /\ jobs[workers[w].job].attempt = workers[w].attempt

(* cached_call, then the comparison of the stored case with the present    *)
(* evidence: a paid result is used even if the case has changed.           *)
Lookup(w) ==
    /\ At(w, "lookup")
    /\ IF Charged(CallId(w)) THEN Goto(w, "settle")
       ELSE IF workers[w].job \in stale THEN FinishAs(w, "stale")
       ELSE Goto(w, "reserve")
    /\ UNCHANGED <<jobs, calls, halted, stale, sent, today, crashes, late>>

Active(w) ==
    /\ OwnsRow(w)
    /\ jobs[workers[w].job].state = "running" /\ jobs[workers[w].job].leased

(* Mutant of Affordable: the reservation asked for is not counted.         *)
AffordableBefore ==
    /\ ~halted
    /\ CommittedIn(CallIds) <= TotalLimit
    /\ CommittedIn(CallsOf(today)) <= DailyLimit

Affordable ==
    /\ ~halted
    /\ CommittedIn(CallIds) + Reservation <= TotalLimit
    /\ CommittedIn(CallsOf(today)) + Reservation <= DailyLimit

(* Ledger.reserve on a new call: the lease must still be active and the    *)
(* budget must cover the whole reservation.                                *)
Reserve(w) ==
    /\ At(w, "reserve")
    /\ calls[CallId(w)] = NoCall
    /\ Active(w) /\ Affordable
    /\ calls' = [calls EXCEPT ![CallId(w)] =
                   [day |-> today, charged |-> Unpaid, status |-> "reserved"]]
    /\ Goto(w, "send")
    /\ UNCHANGED <<jobs, halted, stale, sent, today, crashes, late>>

(* Otherwise the saved record of the call is used, or the job ends: out of *)
(* budget, or uncertain if the lease is lost or the call is known.         *)
ReserveRefused(w) ==
    /\ At(w, "reserve")
    /\ ~(calls[CallId(w)] = NoCall /\ Active(w) /\ Affordable)
    /\ IF Charged(CallId(w)) THEN Goto(w, "settle")
       ELSE FinishAs(w, IF calls[CallId(w)] = NoCall /\ Active(w)
                        THEN "budget_exhausted" ELSE "uncertain")
    /\ UNCHANGED <<jobs, calls, halted, stale, sent, today, crashes, late>>

(* The request leaves for the provider.                                    *)
Send(w) ==
    /\ At(w, "send")
    /\ sent' = [sent EXCEPT ![CallId(w)] = @ + 1]
    /\ Goto(w, "sent")
    /\ UNCHANGED <<jobs, calls, halted, stale, today, crashes, late>>

(* Ledger.complete: keep the receipt; more than was reserved halts it all. *)
Complete(w, charge) ==
    /\ At(w, "sent")
    /\ calls' = [calls EXCEPT ![CallId(w)].charged = charge, ![CallId(w)].status = "complete"]
    /\ halted' = (halted \/ charge > Reservation)
    /\ Goto(w, "settle")
    /\ UNCHANGED <<jobs, stale, sent, today, crashes, late>>

(* Ledger.fail: no usable answer; the reservation stays.                   *)
Fail(w) ==
    /\ At(w, "sent")
    /\ calls' = [calls EXCEPT ![CallId(w)].status = "uncertain"]
    /\ FinishAs(w, "uncertain")
    /\ UNCHANGED <<jobs, halted, stale, sent, today, crashes, late>>

(* Mutant of Written: the state of the row is not checked.                 *)
WrittenAlways(w, state) ==
    /\ jobs' = IF OwnsRow(w) THEN [jobs EXCEPT ![workers[w].job].state = state] ELSE jobs
    /\ workers' = [workers EXCEPT ![w] = Idle]
    /\ UNCHANGED <<calls, halted, stale, sent, today, late>>

(* _finish: a worker whose claim was replaced, or whose job is settled,    *)
(* changes nothing.                                                        *)
Written(w, state) ==
    /\ jobs' = IF OwnsRow(w) /\ jobs[workers[w].job].state \in {"running", "uncertain"}
               THEN [jobs EXCEPT ![workers[w].job].state = state] ELSE jobs
    /\ workers' = [workers EXCEPT ![w] = Idle]
    /\ UNCHANGED <<calls, halted, stale, sent, today, late>>

Settle(w) ==
    /\ At(w, "settle")
    /\ \E state \in {"complete", "review"} : Written(w, state)
    /\ UNCHANGED crashes

Finish(w) ==
    /\ At(w, "finish")
    /\ Written(w, workers[w].outcome)
    /\ UNCHANGED crashes

(* Mutant of Unsubmitted: the ledger is not asked.                         *)
UnsubmittedAlways(w) == IF workers[w].attempt < MaxAttempts THEN "queued" ELSE "failed"

(* Any other exception (no key, a failing database): retry_unsubmitted     *)
(* asks the ledger whether the call can have been submitted.               *)
Unsubmitted(w) ==
    IF calls[CallId(w)] # NoCall THEN "uncertain"
    ELSE IF workers[w].attempt < MaxAttempts THEN "queued" ELSE "failed"

RetryUnsubmitted(w) ==
    /\ At(w, "reserve") \/ At(w, "sent")
    /\ Written(w, Unsubmitted(w))
    /\ UNCHANGED crashes

(* The same for a failing lookup, which can repeat without an attempt      *)
(* being counted: the model bounds it as it bounds crashes.                *)
LookupFails(w) ==
    /\ At(w, "lookup")
    /\ crashes < MaxCrashes
    /\ Written(w, Unsubmitted(w))
    /\ crashes' = crashes + 1

-----------------------------------------------------------------------------
(* The environment.                                                        *)

Crash(w) ==
    /\ workers[w] # Idle
    /\ crashes < MaxCrashes
    /\ workers' = [workers EXCEPT ![w] = Idle]
    /\ crashes' = crashes + 1
    /\ UNCHANGED <<jobs, calls, halted, stale, sent, today, late>>

(* A lease runs out: always when its worker is gone, and a bounded number  *)
(* of times under a worker that is only slow.                              *)
Holder(j) == {w \in Workers : workers[w] # Idle /\ workers[w].job = j
                              /\ workers[w].token = jobs[j].token}
LeaseExpires(j) ==
    /\ jobs[j].state = "running" /\ jobs[j].leased
    /\ IF Holder(j) = {} THEN late' = late ELSE late < MaxLate /\ late' = late + 1
    /\ jobs' = [jobs EXCEPT ![j].leased = FALSE]
    /\ UNCHANGED <<calls, halted, workers, stale, sent, today, crashes>>

EvidenceChanges(j) ==
    /\ j \notin stale
    /\ stale' = stale \cup {j}
    /\ UNCHANGED <<jobs, calls, halted, workers, sent, today, crashes, late>>

DayPasses ==
    /\ today < MaxDay
    /\ today' = today + 1
    /\ UNCHANGED <<jobs, calls, halted, workers, stale, sent, crashes, late>>

WorkerStep(w) ==
    \/ \E j \in Jobs : ClaimJob(w, j)
    \/ ClaimNothing(w) \/ Lookup(w) \/ Reserve(w) \/ ReserveRefused(w)
    \/ Send(w) \/ Fail(w) \/ Settle(w) \/ Finish(w) \/ RetryUnsubmitted(w)
    \/ \E charge \in Charges : Complete(w, charge)

Next ==
    \/ \E w \in Workers : WorkerStep(w) \/ LookupFails(w) \/ Crash(w)
    \/ \E j \in Jobs : Enqueue(j) \/ LeaseExpires(j) \/ EvidenceChanges(j)
    \/ DayPasses

(* Worker threads loop for ever, provider calls have a timeout and leases  *)
(* expire by the clock.                                                    *)
Fairness ==
    /\ \A w \in Workers : WF_vars(WorkerStep(w))
    /\ \A j \in Jobs : WF_vars(Holder(j) = {} /\ LeaseExpires(j))

Spec == Init /\ [][Next]_vars
FairSpec == Spec /\ Fairness

-----------------------------------------------------------------------------
(* "Never automatically retried": whatever leases expire, workers die or   *)
(* come back late, at most one request of a job ever reaches the provider. *)
SubmittedOnce ==
    \A j \in Jobs : \A a, b \in Attempts :
        /\ sent[<<j, a>>] <= 1
        /\ sent[<<j, a>>] > 0 /\ sent[<<j, b>>] > 0 => a = b

(* A job for which money is reserved or spent is never put back into the   *)
(* queue or closed as failed, stale or out of budget.                      *)
PaidWorkIsNeverDropped ==
    \A j \in Jobs : \A a \in Attempts : calls[<<j, a>>] # NoCall =>
        /\ jobs[j].attempt = a
        /\ jobs[j].state \in {"running", "recoverable", "uncertain", "complete", "review"}

(* The limits bound what is committed, in total and per day.  A charge     *)
(* above its reservation can break them by its excess only, and then       *)
(* nothing is reserved any more.                                           *)
WithinReservation(id) ==
    IF Committed(id) > Reservation THEN Reservation ELSE Committed(id)
WithinReservationIn(ids) == SumFunctionOnSet([id \in CallIds |-> WithinReservation(id)], ids)
BudgetHolds ==
    /\ WithinReservationIn(CallIds) <= TotalLimit
    /\ \A day \in 0 .. MaxDay : WithinReservationIn(CallsOf(day)) <= DailyLimit
    /\ (\E id \in CallIds : Committed(id) > Reservation) => halted

(* A result is final: no late worker and no recovery replaces it.          *)
ResultsAreFinal ==
    [][\A j \in Jobs :
         jobs[j].state \in {"complete", "review", "stale", "budget_exhausted", "failed"} =>
           jobs'[j].state = jobs[j].state]_vars

(* Every paid answer is shown: a job with a saved receipt shows it, also   *)
(* when its worker died and the job was called uncertain meanwhile.        *)
PaidAnswersShown == \A j \in Jobs : HasReceipt(j) => jobs[j].state \in {"complete", "review"}

(* No job is left queued or running.                                       *)
JobsSettled == \A j \in Jobs : jobs[j].state \notin {"queued", "running", "recoverable"}

=============================================================================

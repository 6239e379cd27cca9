----------------------------- MODULE JointProofs ----------------------------
(***************************************************************************)
(* Theorems about the joint review and what it spends.  No call is paid    *)
(* for twice and no budget is overrun unseen: the analysis queue (AiJobs), *)
(* the ledger of the paid evaluations (EvaluationBudget) and the budget    *)
(* that the joint reviews share with the SSH queue (JointAi).  The store   *)
(* of joint cases can be trusted: it opens, and neither success nor        *)
(* freshness is claimed for what is older (JointCases, JointRefresh).      *)
(***************************************************************************)
EXTENDS AiJobs, EvaluationBudget, JointAi, JointRefresh, DataLemmas

-----------------------------------------------------------------------------
(* The analysis queue: for every number of jobs, workers and attempts and  *)
(* every sequence of crashes and late workers, a request of a job reaches  *)
(* the provider at most once, paid work is never dropped and a result is   *)
(* final.                                                                  *)

(* A job that may be claimed afresh has an attempt left, one that is       *)
(* claimed has had one, and one to be recovered has a receipt.             *)
AttemptsLeft ==
    \A j \in Jobs :
        /\ jobs[j].state \in {"none", "queued"} => jobs[j].attempt < MaxAttempts
        /\ jobs[j].state = "running" => jobs[j].attempt \in Attempts
        /\ jobs[j].state = "recoverable" => HasReceipt(j)

(* Every claim has a token of its own.                                     *)
TokensDiffer ==
    \A w \in Workers : workers[w] # Idle =>
        /\ workers[w].token <= jobs[workers[w].job].token
        /\ \A v \in Workers \ {w} :
             workers[v] # Idle /\ workers[v].job = workers[w].job =>
                 workers[v].token # workers[w].token

(* What the owner of a row knows of its call.                              *)
OwnersKnow ==
    \A w \in Workers : workers[w] # Idle /\ OwnsRow(w) =>
        /\ workers[w].pc \in {"lookup", "reserve"} =>
             calls[CallId(w)] = NoCall \/ Charged(CallId(w))
        /\ workers[w].pc = "finish" /\ workers[w].outcome \in {"stale", "budget_exhausted"} =>
             calls[CallId(w)] = NoCall

(* A request is sent after its reservation, and by one worker.             *)
SentWhenReserved ==
    /\ \A id \in CallIds : sent[id] <= 1 /\ (sent[id] > 0 => calls[id] # NoCall)
    /\ \A w \in Workers :
         /\ workers[w].pc \in {"send", "sent"} => calls[CallId(w)] # NoCall
         /\ workers[w].pc = "send" =>
              /\ sent[CallId(w)] = 0
              /\ \A v \in Workers \ {w} : workers[v].pc = "send" => CallId(v) # CallId(w)

QueueInv ==
    /\ TypeOK /\ AttemptsLeft /\ TokensDiffer /\ OwnersKnow /\ SentWhenReserved
    /\ PaidWorkIsNeverDropped

-----------------------------------------------------------------------------
(* A worker that is not idle has every field of a claim.                   *)
LEMMA HeldClaim ==
    ASSUME TypeOK, NEW w \in Workers, workers[w] # Idle
    PROVE  /\ workers[w] \in Held
           /\ workers[w].job \in Jobs
           /\ workers[w].attempt \in Attempts
           /\ workers[w].token \in Nat
           /\ CallId(w) \in CallIds
  <1>1. workers[w] \in Held
    BY DEF TypeOK
  <1>2. QED
    BY <1>1 DEF Held, CallId, CallIds

(* A worker at a step of its job is not idle.                              *)
LEMMA AtWork ==
    ASSUME NEW w \in Workers,
           workers[w].pc \in {"lookup", "reserve", "send", "sent", "settle", "finish"}
    PROVE  workers[w] # Idle
  BY DEF Idle

(* The numbers of the model are numbers.                                   *)
LEMMA RowParts ==
    ASSUME TypeOK, NEW j \in Jobs
    PROVE  /\ jobs[j] \in Rows
           /\ jobs[j].state \in States /\ jobs[j].leased \in BOOLEAN
           /\ jobs[j].attempt \in 0 .. MaxAttempts /\ jobs[j].attempt \in Int
           /\ jobs[j].token \in Nat
  BY MaxAttemptsAssumption DEF TypeOK, Rows

(* What recovery makes of a job: an outcome that is final stays, a job     *)
(* with a call is not put back, and a job to be claimed can be.            *)
LEMMA RecoveredFacts ==
    ASSUME TypeOK, AttemptsLeft, PaidWorkIsNeverDropped, NEW j \in Jobs
    PROVE  /\ Recovered(j) \in States
           /\ jobs[j].state \notin {"running", "uncertain"} => Recovered(j) = jobs[j].state
           /\ Recovered(j) \in {"none", "queued"} => jobs[j].attempt < MaxAttempts
           /\ Recovered(j) = "running" => jobs[j].attempt \in Attempts
           /\ (\E a \in Attempts : calls[<<j, a>>] # NoCall) =>
                Recovered(j) \in {"running", "recoverable", "uncertain", "complete", "review"}
           /\ Recovered(j) = "recoverable" => HasReceipt(j)
  <1>1. jobs[j].state \in States
    BY RowParts
  <1>2. ASSUME NEW a \in Attempts, calls[<<j, a>>] # NoCall
        PROVE  HasCall(j)
    BY <1>2 DEF PaidWorkIsNeverDropped, HasCall
  <1>3. HasReceipt(j) => jobs[j].attempt \in Attempts
    BY DEF HasReceipt
  <1>4. (\E a \in Attempts : calls[<<j, a>>] # NoCall) =>
          jobs[j].state \in {"running", "recoverable", "uncertain", "complete", "review"}
    BY DEF PaidWorkIsNeverDropped
  <1>5. QED
    BY <1>1, <1>2, <1>3, <1>4 DEF Recovered, States, AttemptsLeft

(* The steps of a worker.                                                  *)
QueueSteps == {"lookup", "reserve", "send", "sent", "settle", "finish"}

(* Only worker w moved, from pc to pc, with the claim it had.              *)
SameJobClaim(w, pc) ==
    /\ workers' \in [Workers -> Held \cup {Idle}]
    /\ \A v \in Workers \ {w} : workers'[v] = workers[v]
    /\ workers'[w] # Idle
    /\ workers'[w].pc = pc
    /\ workers'[w].job = workers[w].job
    /\ workers'[w].attempt = workers[w].attempt
    /\ workers'[w].token = workers[w].token

(* Going on to another step keeps the claim.                               *)
LEMMA GotoMoves ==
    ASSUME TypeOK, NEW w \in Workers, workers[w] # Idle, NEW pc \in QueueSteps, Goto(w, pc)
    PROVE  SameJobClaim(w, pc)
  <1>1. workers[w] \in Held
    BY HeldClaim
  <1>2. workers' = [workers EXCEPT ![w] = [workers[w] EXCEPT !.pc = pc]]
    BY DEF Goto
  <1>3. [workers[w] EXCEPT !.pc = pc] \in Held
    BY <1>1 DEF Held, QueueSteps
  <1>4. workers'[w] = [workers[w] EXCEPT !.pc = pc]
    BY <1>2 DEF TypeOK
  <1>5. /\ workers'[w].pc = pc
        /\ workers'[w].job = workers[w].job
        /\ workers'[w].attempt = workers[w].attempt
        /\ workers'[w].token = workers[w].token
    BY <1>1, <1>4 DEF Held
  <1>6. workers'[w] # Idle
    BY <1>5 DEF QueueSteps, Idle
  <1>7. QED
    BY <1>2, <1>3, <1>5, <1>6 DEF SameJobClaim, TypeOK

(* So does deciding on an outcome.                                         *)
LEMMA FinishMoves ==
    ASSUME TypeOK, NEW w \in Workers, workers[w] # Idle,
           NEW outcome \in {"complete", "stale", "uncertain", "budget_exhausted"},
           FinishAs(w, outcome)
    PROVE  SameJobClaim(w, "finish") /\ workers'[w].outcome = outcome
  <1> DEFINE r == [[workers[w] EXCEPT !.pc = "finish"] EXCEPT !.outcome = outcome]
  <1>1. workers[w] \in Held
    BY HeldClaim
  <1>2. workers' = [workers EXCEPT ![w] = r]
    <2>1. workers' = [[workers EXCEPT ![w].pc = "finish"] EXCEPT ![w].outcome = outcome]
      BY DEF FinishAs
    <2>2. QED
      BY <2>1 DEF TypeOK
  <1>3. /\ r \in Held
        /\ r.pc = "finish" /\ r.outcome = outcome
        /\ r.job = workers[w].job
        /\ r.attempt = workers[w].attempt
        /\ r.token = workers[w].token
    BY <1>1 DEF Held
  <1> HIDE DEF r
  <1>4. workers'[w] = r
    BY <1>2 DEF TypeOK
  <1>5. r # Idle
    BY <1>3 DEF Idle
  <1>6. QED
    BY <1>2, <1>3, <1>4, <1>5 DEF SameJobClaim, TypeOK

(* A worker goes on from a step, and nothing is written.  What it knows    *)
(* of its call at the new step is what the invariant asks for.             *)
LEMMA JobMoveKeeps ==
    ASSUME QueueInv, TypeOK', NEW w \in Workers, workers[w] # Idle,
           NEW pc \in {"reserve", "settle", "finish"}, SameJobClaim(w, pc),
           UNCHANGED <<jobs, calls, sent>>,
           pc = "reserve" => calls[CallId(w)] = NoCall \/ ~OwnsRow(w) \/ Charged(CallId(w)),
           pc = "finish" /\ workers'[w].outcome \in {"stale", "budget_exhausted"} =>
               calls[CallId(w)] = NoCall \/ ~OwnsRow(w)
    PROVE  QueueInv'
  <1>1. AttemptsLeft' /\ PaidWorkIsNeverDropped'
    BY DEF QueueInv, AttemptsLeft, PaidWorkIsNeverDropped, HasReceipt, Charged
  <1>2. TokensDiffer'
    BY DEF QueueInv, TokensDiffer, SameJobClaim
  <1>3. OwnersKnow'
    <2>1. SUFFICES ASSUME NEW v \in Workers, workers'[v] # Idle, OwnsRow(v)'
                   PROVE  (/\ workers[v].pc \in {"lookup", "reserve"} =>
                                calls[CallId(v)] = NoCall \/ Charged(CallId(v))
                           /\ (/\ workers[v].pc = "finish"
                               /\ workers[v].outcome \in {"stale", "budget_exhausted"})
                                => calls[CallId(v)] = NoCall)'
      BY DEF OwnersKnow
    <2>2. CASE v = w
      BY <2>1, <2>2 DEF SameJobClaim, OwnsRow, CallId, Charged
    <2>3. CASE v # w
      BY <2>1, <2>3 DEF QueueInv, OwnersKnow, SameJobClaim, OwnsRow, CallId, Charged
    <2>4. QED
      BY <2>2, <2>3
  <1>4. SentWhenReserved'
    BY DEF QueueInv, SentWhenReserved, SameJobClaim, CallId
  <1>5. QED
    BY <1>1, <1>2, <1>3, <1>4 DEF QueueInv

(* The steps that only decide how to go on.                                *)
LEMMA DecideKeeps ==
    ASSUME QueueInv, NEW w \in Workers, Lookup(w) \/ ReserveRefused(w)
    PROVE  QueueInv'
  <1>0. TypeOK /\ workers[w] # Idle
    BY AtWork DEF QueueInv, Lookup, ReserveRefused, At
  <1>1. UNCHANGED <<jobs, calls, halted, stale, sent, today, crashes, late>>
    BY DEF Lookup, ReserveRefused
  <1>2. ASSUME NEW pc \in QueueSteps, SameJobClaim(w, pc)
        PROVE  TypeOK'
    BY <1>0, <1>1, <1>2 DEF TypeOK, SameJobClaim
  <1>3. CASE Lookup(w)
    <2>1. OwnsRow(w) => calls[CallId(w)] = NoCall \/ Charged(CallId(w))
      BY <1>0, <1>3 DEF QueueInv, OwnersKnow, Lookup, At
    <2>2. CASE Goto(w, "settle")
      BY <1>0, <1>1, <1>2, <2>2, GotoMoves, JobMoveKeeps DEF QueueSteps
    <2>3. CASE Goto(w, "reserve")
      BY <1>0, <1>1, <1>2, <2>1, <2>3, GotoMoves, JobMoveKeeps DEF QueueSteps
    <2>4. CASE ~Charged(CallId(w)) /\ FinishAs(w, "stale")
      BY <1>0, <1>1, <1>2, <2>1, <2>4, FinishMoves, JobMoveKeeps DEF QueueSteps
    <2>5. QED
      BY <1>3, <2>2, <2>3, <2>4 DEF Lookup
  <1>4. CASE ReserveRefused(w)
    <2>1. CASE Goto(w, "settle")
      BY <1>0, <1>1, <1>2, <2>1, GotoMoves, JobMoveKeeps DEF QueueSteps
    <2>2. CASE FinishAs(w, "uncertain")
      BY <1>0, <1>1, <1>2, <2>2, FinishMoves, JobMoveKeeps DEF QueueSteps
    <2>3. CASE calls[CallId(w)] = NoCall /\ FinishAs(w, "budget_exhausted")
      BY <1>0, <1>1, <1>2, <2>3, FinishMoves, JobMoveKeeps DEF QueueSteps
    <2>4. QED
      BY <1>4, <2>1, <2>2, <2>3 DEF ReserveRefused
  <1>5. QED
    BY <1>3, <1>4

(* A worker lets go of its job, with or without writing its row.           *)
LEMMA ReleaseKeeps ==
    ASSUME QueueInv, TypeOK', NEW w \in Workers, workers[w] # Idle,
           workers' = [workers EXCEPT ![w] = Idle], UNCHANGED <<calls, sent>>,
           NEW j \in Jobs, NEW state,
           \/ UNCHANGED jobs
           \/ /\ jobs' = [jobs EXCEPT ![j].state = state]
              /\ state \notin {"none", "running", "recoverable"}
              /\ state = "queued" => jobs[j].attempt < MaxAttempts
              /\ \/ state \in {"uncertain", "complete", "review"}
                 \/ \A a \in Attempts : calls[<<j, a>>] = NoCall
    PROVE  QueueInv'
  <1>1. /\ \A i \in Jobs : jobs'[i].attempt = jobs[i].attempt /\ jobs'[i].token = jobs[i].token
        /\ \A i \in Jobs : jobs'[i].state = jobs[i].state \/ (i = j /\ jobs'[j].state = state)
    BY DEF QueueInv, TypeOK, Rows
  <1>2. \A v \in Workers : workers'[v] = workers[v] \/ workers'[v] = Idle
    BY DEF QueueInv, TypeOK
  <1>3. \A v \in Workers : workers'[v] # Idle => workers[v] # Idle /\ workers[v].job \in Jobs
    BY <1>2, HeldClaim DEF QueueInv
  <1>4. AttemptsLeft'
    <2>1. \A i \in Jobs : HasReceipt(i) => HasReceipt(i)'
      BY <1>1 DEF HasReceipt, Charged
    <2>2. QED
      BY <1>1, <2>1 DEF QueueInv, AttemptsLeft
  <1>5. PaidWorkIsNeverDropped'
    BY <1>1 DEF QueueInv, PaidWorkIsNeverDropped
  <1>6. TokensDiffer'
    BY <1>1, <1>2, <1>3 DEF QueueInv, TokensDiffer
  <1>7. OwnersKnow'
    BY <1>1, <1>2, <1>3 DEF QueueInv, OwnersKnow, OwnsRow, CallId, Charged
  <1>8. SentWhenReserved'
    BY <1>2 DEF QueueInv, SentWhenReserved, CallId, Idle
  <1>9. QED
    BY <1>4, <1>5, <1>6, <1>7, <1>8 DEF QueueInv

(* The owner of a row whose call is not reserved has no call at all.       *)
LEMMA NoCallAtAll ==
    ASSUME QueueInv, NEW w \in Workers, workers[w] # Idle, OwnsRow(w), calls[CallId(w)] = NoCall
    PROVE  \A a \in Attempts : calls[<<workers[w].job, a>>] = NoCall
  <1>1. workers[w].job \in Jobs
    BY HeldClaim DEF QueueInv
  <1>2. QED
    BY <1>1 DEF QueueInv, PaidWorkIsNeverDropped, OwnsRow, CallId

(* Writing an outcome keeps the invariant.                                 *)
LEMMA WrittenKeeps ==
    ASSUME QueueInv, NEW w \in Workers, workers[w] # Idle, NEW state \in States,
           Written(w, state), crashes' \in Nat,
           state \notin {"none", "running", "recoverable"},
           state = "queued" => workers[w].attempt < MaxAttempts,
           OwnsRow(w) => \/ state \in {"uncertain", "complete", "review"}
                         \/ calls[CallId(w)] = NoCall
    PROVE  QueueInv'
  <1> DEFINE j == workers[w].job
  <1>1. TypeOK /\ j \in Jobs
    BY HeldClaim DEF QueueInv
  <1>2. /\ workers' = [workers EXCEPT ![w] = Idle]
        /\ UNCHANGED <<calls, halted, stale, sent, today, late>>
        /\ \/ UNCHANGED jobs
           \/ OwnsRow(w) /\ jobs' = [jobs EXCEPT ![j].state = state]
    BY DEF Written
  <1>3. jobs' \in [Jobs -> Rows]
    <2>1. CASE UNCHANGED jobs
      BY <1>1, <2>1 DEF TypeOK
    <2>2. CASE jobs' = [jobs EXCEPT ![j].state = state]
      BY <1>1, <2>2 DEF TypeOK, Rows
    <2>3. QED
      BY <1>2, <2>1, <2>2
  <1>4. TypeOK'
    BY <1>1, <1>2, <1>3 DEF TypeOK, Idle
  <1>5. OwnsRow(w) => jobs[j].attempt = workers[w].attempt
    BY DEF OwnsRow
  <1>6. OwnsRow(w) /\ calls[CallId(w)] = NoCall => \A a \in Attempts : calls[<<j, a>>] = NoCall
    BY NoCallAtAll
  <1> HIDE DEF j
  <1>7. QED
    BY <1>1, <1>2, <1>4, <1>5, <1>6, ReleaseKeeps

(* Every end of a worker's claim keeps the invariant.                      *)
LEMMA JobEndKeeps ==
    ASSUME QueueInv, NEW w \in Workers,
           \/ Settle(w) \/ Finish(w) \/ RetryUnsubmitted(w) \/ LookupFails(w) \/ Crash(w)
    PROVE  QueueInv'
  <1>0. TypeOK /\ workers[w] # Idle
    BY AtWork DEF QueueInv, Settle, Finish, RetryUnsubmitted, LookupFails, Crash, At
  <1>1. crashes' \in Nat
    BY <1>0 DEF TypeOK, Settle, Finish, RetryUnsubmitted, LookupFails, Crash
  <1>2. CASE Settle(w)
    BY <1>0, <1>1, <1>2, WrittenKeeps DEF Settle, States
  <1>3. CASE Finish(w)
    <2>1. workers[w].outcome \in {"complete", "stale", "uncertain", "budget_exhausted"}
      BY <1>0, HeldClaim DEF Held
    <2>2. OwnsRow(w) => \/ workers[w].outcome \in {"uncertain", "complete", "review"}
                        \/ calls[CallId(w)] = NoCall
      BY <1>0, <1>3, <2>1 DEF QueueInv, OwnersKnow, Finish, At
    <2>3. QED
      BY <1>0, <1>1, <1>3, <2>1, <2>2, WrittenKeeps DEF Finish, States
  <1>4. CASE RetryUnsubmitted(w) \/ LookupFails(w)
    <2>1. Written(w, Unsubmitted(w))
      BY <1>4 DEF RetryUnsubmitted, LookupFails
    <2>2. /\ Unsubmitted(w) \in States
          /\ Unsubmitted(w) \notin {"none", "running", "recoverable"}
          /\ Unsubmitted(w) = "queued" => workers[w].attempt < MaxAttempts
          /\ Unsubmitted(w) = "uncertain" \/ calls[CallId(w)] = NoCall
      BY DEF Unsubmitted, States
    <2>3. QED
      BY <1>0, <1>1, <2>1, <2>2, WrittenKeeps
  <1>5. CASE Crash(w)
    <2>1. TypeOK'
      BY <1>0, <1>1, <1>5 DEF TypeOK, Crash
    <2>2. PICK j \in Jobs : TRUE
      BY <1>0, HeldClaim
    <2>3. QED
      BY <1>0, <1>5, <2>1, <2>2, ReleaseKeeps DEF Crash
  <1>6. QED
    BY <1>2, <1>3, <1>4, <1>5

(* A worker that works on the call it owns is the only one.                *)
LEMMA OneOwner ==
    ASSUME QueueInv, NEW w \in Workers, NEW v \in Workers, v # w,
           workers[w] # Idle, workers[v] # Idle, OwnsRow(w), OwnsRow(v)
    PROVE  workers[v].job # workers[w].job
  BY DEF QueueInv, TokensDiffer, OwnsRow

(* Reserving the money of a call keeps the invariant.                      *)
LEMMA JobReserveKeeps ==
    ASSUME QueueInv, NEW w \in Workers, Reserve(w)
    PROVE  QueueInv'
  <1> DEFINE id == CallId(w)
             row == [day |-> today, charged |-> Unpaid, status |-> "reserved"]
  <1>0. TypeOK /\ workers[w] # Idle
    BY AtWork DEF QueueInv, Reserve, At
  <1>1. /\ SameJobClaim(w, "send")
        /\ UNCHANGED <<jobs, halted, stale, sent, today, crashes, late>>
        /\ calls[id] = NoCall /\ Active(w)
        /\ calls' = [calls EXCEPT ![id] = row]
    BY <1>0, GotoMoves DEF Reserve, QueueSteps
  <1>2. id \in CallIds /\ workers[w].job \in Jobs /\ workers[w].attempt \in Attempts
    BY <1>0, HeldClaim
  <1>3. row \in CallRows /\ row # NoCall
    BY <1>0, NoCallAssumption DEF TypeOK, CallRows
  <1>4. TypeOK'
    BY <1>0, <1>1, <1>3 DEF TypeOK, SameJobClaim
  <1>5. /\ calls'[id] # NoCall
        /\ \A other \in CallIds : other # id => calls'[other] = calls[other]
    BY <1>0, <1>1, <1>2, <1>3 DEF TypeOK
  <1>6. AttemptsLeft'
    <2>1. ASSUME NEW i \in Jobs, HasReceipt(i)
          PROVE  HasReceipt(i)'
      <3>1. <<i, jobs[i].attempt>> \in CallIds /\ <<i, jobs[i].attempt>> # id
        BY <1>1, <2>1 DEF HasReceipt, Charged, CallIds
      <3>2. QED
        BY <1>1, <1>5, <2>1, <3>1 DEF HasReceipt, Charged
    <2>2. QED
      BY <1>1, <2>1 DEF QueueInv, AttemptsLeft
  <1>7. PaidWorkIsNeverDropped'
    <2>1. SUFFICES ASSUME NEW i \in Jobs, NEW a \in Attempts, calls'[<<i, a>>] # NoCall
                   PROVE  /\ jobs[i].attempt = a
                          /\ jobs[i].state \in {"running", "recoverable", "uncertain",
                                                "complete", "review"}
      BY <1>1 DEF PaidWorkIsNeverDropped
    <2>2. <<i, a>> \in CallIds
      BY DEF CallIds
    <2>3. CASE <<i, a>> = id
      BY <1>1, <2>3 DEF Active, OwnsRow, CallId
    <2>4. CASE <<i, a>> # id
      BY <1>5, <2>1, <2>2, <2>4 DEF QueueInv, PaidWorkIsNeverDropped
    <2>5. QED
      BY <2>3, <2>4
  <1>8. TokensDiffer'
    BY <1>0, <1>1 DEF QueueInv, TokensDiffer, SameJobClaim
  <1>9. OwnersKnow'
    <2>1. SUFFICES ASSUME NEW v \in Workers, workers'[v] # Idle, OwnsRow(v)'
                   PROVE  (/\ workers[v].pc \in {"lookup", "reserve"} =>
                                calls[CallId(v)] = NoCall \/ Charged(CallId(v))
                           /\ (/\ workers[v].pc = "finish"
                               /\ workers[v].outcome \in {"stale", "budget_exhausted"})
                                => calls[CallId(v)] = NoCall)'
      BY DEF OwnersKnow
    <2>2. CASE v = w
      BY <1>1, <2>2 DEF SameJobClaim
    <2>3. CASE v # w
      <3>1. workers'[v] = workers[v] /\ workers[v] # Idle /\ OwnsRow(v)
        BY <1>1, <2>1, <2>3 DEF SameJobClaim, OwnsRow
      <3>2. workers[v].job # workers[w].job
        BY <1>0, <1>1, <2>3, <3>1, OneOwner DEF Active
      <3>3. CallId(v) \in CallIds /\ CallId(v) # id
        BY <1>0, <3>1, <3>2, HeldClaim DEF CallId
      <3>4. calls'[CallId(v)] = calls[CallId(v)]
        BY <1>5, <3>3
      <3>5. CallId(v)' = CallId(v)
        BY <3>1 DEF CallId
      <3>6. QED
        BY <3>1, <3>4, <3>5 DEF QueueInv, OwnersKnow, Charged
    <2>4. QED
      BY <2>2, <2>3
  <1>10. SentWhenReserved'
    <2>1. sent[id] = 0
      <3>1. sent[id] \in Nat /\ ~(sent[id] > 0)
        BY <1>0, <1>1, <1>2 DEF QueueInv, SentWhenReserved, TypeOK
      <3>2. QED
        BY <3>1
    <2>2. \A other \in CallIds : calls[other] # NoCall => calls'[other] # NoCall
      BY <1>5
    <2>3. CallId(w)' = id
      BY <1>1 DEF SameJobClaim, CallId
    <2>4. ASSUME NEW v \in Workers, v # w
          PROVE  workers'[v] = workers[v] /\ CallId(v)' = CallId(v)
      BY <1>1, <2>4 DEF SameJobClaim, CallId
    <2>5. ASSUME NEW v \in Workers, v # w, workers[v].pc \in {"send", "sent"}
          PROVE  CallId(v) # id /\ CallId(v) \in CallIds /\ calls'[CallId(v)] # NoCall
      <3>1. CallId(v) \in CallIds
        BY <1>0, <2>5, AtWork, HeldClaim
      <3>2. calls[CallId(v)] # NoCall
        BY <2>5 DEF QueueInv, SentWhenReserved
      <3>3. QED
        BY <1>1, <2>2, <3>1, <3>2
    <2>6. \A other \in CallIds : sent'[other] <= 1 /\ (sent'[other] > 0 => calls'[other] # NoCall)
      BY <1>1, <2>2 DEF QueueInv, SentWhenReserved
    <2> HIDE DEF id
    <2>7. ASSUME NEW v \in Workers, workers'[v].pc \in {"send", "sent"}
          PROVE  calls'[CallId(v)'] # NoCall
      BY <1>5, <2>3, <2>4, <2>5, <2>7
    <2>8. ASSUME NEW v \in Workers, workers'[v].pc = "send"
          PROVE  /\ sent'[CallId(v)'] = 0
                 /\ \A u \in Workers \ {v} : workers'[u].pc = "send" => CallId(u)' # CallId(v)'
      BY <1>1, <2>1, <2>3, <2>4, <2>5, <2>8 DEF QueueInv, SentWhenReserved
    <2>9. QED
      BY <2>6, <2>7, <2>8 DEF SentWhenReserved
  <1>11. QED
    BY <1>4, <1>6, <1>7, <1>8, <1>9, <1>10 DEF QueueInv

(* A worker goes on with a call that is reserved: it sends the request, or *)
(* the ledger records how it ended.                                        *)
LEMMA CallKeeps ==
    ASSUME QueueInv, TypeOK', NEW w \in Workers, workers[w].pc \in {"send", "sent"},
           NEW pc \in {"sent", "settle", "finish"}, SameJobClaim(w, pc),
           pc = "finish" => workers'[w].outcome = "uncertain",
           UNCHANGED jobs,
           \A id \in CallIds : /\ calls'[id] = NoCall <=> calls[id] = NoCall
                               /\ Charged(id) => Charged(id)'
                               /\ sent'[id] <= 1
                               /\ sent'[id] > 0 => calls[id] # NoCall
                               /\ id # CallId(w) \/ pc # "sent" => sent'[id] = sent[id],
           pc = "sent" => workers[w].pc = "send"
    PROVE  QueueInv'
  <1>0. TypeOK /\ workers[w] # Idle
    BY AtWork DEF QueueInv
  <1>1. AttemptsLeft'
    <2>1. ASSUME NEW i \in Jobs, HasReceipt(i)
          PROVE  HasReceipt(i)'
      <3>1. <<i, jobs[i].attempt>> \in CallIds
        BY <2>1 DEF HasReceipt, CallIds
      <3>2. Charged(<<i, jobs[i].attempt>>)'
        BY <2>1, <3>1 DEF HasReceipt
      <3>3. QED
        BY <2>1, <3>2 DEF HasReceipt, Charged
    <2>2. QED
      BY <2>1 DEF QueueInv, AttemptsLeft
  <1>2. PaidWorkIsNeverDropped'
    <2>1. \A i \in Jobs : \A a \in Attempts : <<i, a>> \in CallIds
      BY DEF CallIds
    <2>2. QED
      BY <2>1 DEF QueueInv, PaidWorkIsNeverDropped
  <1>3. TokensDiffer'
    BY <1>0 DEF QueueInv, TokensDiffer, SameJobClaim
  <1>4. ASSUME NEW v \in Workers \ {w}
        PROVE  workers'[v] = workers[v] /\ CallId(v)' = CallId(v) /\ (OwnsRow(v)' <=> OwnsRow(v))
    BY DEF SameJobClaim, CallId, OwnsRow
  <1>5. OwnersKnow'
    <2>1. SUFFICES ASSUME NEW v \in Workers, workers'[v] # Idle, OwnsRow(v)'
                   PROVE  (/\ workers[v].pc \in {"lookup", "reserve"} =>
                                calls[CallId(v)] = NoCall \/ Charged(CallId(v))
                           /\ (/\ workers[v].pc = "finish"
                               /\ workers[v].outcome \in {"stale", "budget_exhausted"})
                                => calls[CallId(v)] = NoCall)'
      BY DEF OwnersKnow
    <2>2. CASE v = w
      BY <2>2 DEF SameJobClaim
    <2>3. CASE v # w
      <3>1. workers'[v] = workers[v] /\ OwnsRow(v) /\ CallId(v)' = CallId(v)
        BY <1>4, <2>1, <2>3
      <3>2. CallId(v) \in CallIds
        BY <1>0, <2>1, <3>1, HeldClaim
      <3>3. /\ calls'[CallId(v)] = NoCall <=> calls[CallId(v)] = NoCall
            /\ Charged(CallId(v)) => calls'[CallId(v)] # NoCall
                                       /\ calls'[CallId(v)].charged # Unpaid
        BY <3>2 DEF Charged
      <3>4. QED
        BY <2>1, <3>1, <3>3 DEF QueueInv, OwnersKnow, Charged
    <2>4. QED
      BY <2>2, <2>3
  <1>6. SentWhenReserved'
    <2>1. CallId(w)' = CallId(w)
      BY DEF SameJobClaim, CallId
    <2>2. ASSUME NEW v \in Workers, workers'[v].pc \in {"send", "sent"}
          PROVE  CallId(v)' = CallId(v) /\ CallId(v) \in CallIds /\ calls[CallId(v)] # NoCall
      <3>1. workers[v].pc \in {"send", "sent"} /\ CallId(v)' = CallId(v)
        BY <1>4, <2>1, <2>2
      <3>2. QED
        BY <1>0, <3>1, AtWork, HeldClaim DEF QueueInv, SentWhenReserved
    <2>3. ASSUME NEW v \in Workers, workers'[v].pc = "send"
          PROVE  /\ sent'[CallId(v)'] = 0
                 /\ \A u \in Workers \ {v} : workers'[u].pc = "send" => CallId(u)' # CallId(v)'
      <3>1. v # w /\ workers[v].pc = "send"
        BY <1>4, <2>3 DEF SameJobClaim
      <3>2. sent[CallId(v)] = 0
        BY <3>1 DEF QueueInv, SentWhenReserved
      <3>3. \A u \in Workers \ {v} : workers[u].pc = "send" => CallId(u) # CallId(v)
        BY <3>1 DEF QueueInv, SentWhenReserved
      <3>4. \A u \in Workers : workers'[u].pc = "send" =>
                                  workers[u].pc = "send" /\ CallId(u)' = CallId(u)
        BY <1>4 DEF SameJobClaim
      <3>5. CallId(v) # CallId(w) \/ pc # "sent"
        BY <3>1, <3>3
      <3>6. QED
        BY <2>2, <2>3, <3>2, <3>3, <3>4, <3>5
    <2>4. QED
      BY <2>2, <2>3 DEF SentWhenReserved
  <1>7. QED
    BY <1>1, <1>2, <1>3, <1>5, <1>6 DEF QueueInv

(* Sending a request keeps the invariant.                                  *)
LEMMA SendKeeps ==
    ASSUME QueueInv, NEW w \in Workers, Send(w)
    PROVE  QueueInv'
  <1>0. TypeOK /\ workers[w] # Idle /\ workers[w].pc = "send"
    BY AtWork DEF QueueInv, Send, At
  <1>1. /\ SameJobClaim(w, "sent")
        /\ UNCHANGED <<jobs, calls, halted, stale, today, crashes, late>>
        /\ sent' = [sent EXCEPT ![CallId(w)] = sent[CallId(w)] + 1]
    BY <1>0, GotoMoves DEF Send, QueueSteps
  <1>2. CallId(w) \in CallIds /\ sent[CallId(w)] = 0 /\ calls[CallId(w)] # NoCall
    BY <1>0, HeldClaim DEF QueueInv, SentWhenReserved
  <1>3. TypeOK'
    BY <1>0, <1>1, <1>2 DEF TypeOK, SameJobClaim
  <1>4. \A id \in CallIds :
          /\ calls'[id] = NoCall <=> calls[id] = NoCall
          /\ Charged(id) => Charged(id)'
          /\ sent'[id] <= 1
          /\ sent'[id] > 0 => calls[id] # NoCall
          /\ id # CallId(w) => sent'[id] = sent[id]
    <2>1. \A id \in CallIds : sent[id] <= 1 /\ (sent[id] > 0 => calls[id] # NoCall)
      BY DEF QueueInv, SentWhenReserved
    <2>2. \A id \in CallIds : sent'[id] = IF id = CallId(w) THEN 1 ELSE sent[id]
      BY <1>0, <1>1, <1>2 DEF TypeOK
    <2>3. QED
      BY <1>1, <1>2, <2>1, <2>2 DEF Charged
  <1>5. QED
    BY <1>0, <1>1, <1>3, <1>4, CallKeeps

(* So does recording how the call ended.                                   *)
LEMMA AnswerKeeps ==
    ASSUME QueueInv, NEW w \in Workers, Fail(w) \/ \E charge \in Charges : Complete(w, charge)
    PROVE  QueueInv'
  <1> DEFINE id == CallId(w)
  <1>0. TypeOK /\ workers[w] # Idle /\ workers[w].pc = "sent"
    BY AtWork DEF QueueInv, Fail, Complete, At
  <1>1. id \in CallIds /\ calls[id] # NoCall
    BY <1>0, HeldClaim DEF QueueInv, SentWhenReserved
  <1>2. calls[id] \in CallRows
    BY <1>0, <1>1 DEF TypeOK
  <1>3. UNCHANGED <<jobs, stale, sent, today, crashes, late>>
    BY DEF Fail, Complete
  <1>4. ASSUME NEW row \in CallRows, calls' = [calls EXCEPT ![id] = row],
               calls[id].charged # Unpaid => row.charged # Unpaid,
               halted' \in BOOLEAN,
               \/ SameJobClaim(w, "settle")
               \/ SameJobClaim(w, "finish") /\ workers'[w].outcome = "uncertain"
        PROVE  QueueInv'
    <2>1. TypeOK'
      BY <1>0, <1>3, <1>4 DEF TypeOK, SameJobClaim
    <2>2. row # NoCall
      BY NoCallAssumption
    <2>3. \A other \in CallIds : calls'[other] = IF other = id THEN row ELSE calls[other]
      BY <1>0, <1>1, <1>4 DEF TypeOK
    <2>4. \A other \in CallIds : sent[other] <= 1 /\ (sent[other] > 0 => calls[other] # NoCall)
      BY DEF QueueInv, SentWhenReserved
    <2>5. ASSUME NEW other \in CallIds
          PROVE  /\ calls'[other] = NoCall <=> calls[other] = NoCall
                 /\ Charged(other) => Charged(other)'
                 /\ sent'[other] <= 1
                 /\ sent'[other] > 0 => calls[other] # NoCall
                 /\ sent'[other] = sent[other]
      BY <1>1, <1>3, <1>4, <2>2, <2>3, <2>4 DEF Charged
    <2>6. QED
      BY <1>0, <1>3, <1>4, <2>1, <2>5, CallKeeps
  <1>5. CASE Fail(w)
    <2>1. calls' = [calls EXCEPT ![id] = [calls[id] EXCEPT !.status = "uncertain"]]
      BY <1>5 DEF Fail
    <2>2. /\ [calls[id] EXCEPT !.status = "uncertain"] \in CallRows
          /\ [calls[id] EXCEPT !.status = "uncertain"].charged = calls[id].charged
      BY <1>2 DEF CallRows
    <2>3. SameJobClaim(w, "finish") /\ workers'[w].outcome = "uncertain"
      BY <1>0, <1>5, FinishMoves DEF Fail
    <2>4. halted' \in BOOLEAN
      BY <1>0, <1>5 DEF Fail, TypeOK
    <2> HIDE DEF id
    <2>5. QED
      BY <1>4, <2>1, <2>2, <2>3, <2>4
  <1>6. ASSUME NEW charge \in Charges, Complete(w, charge)
        PROVE  QueueInv'
    <2> DEFINE row == [[calls[id] EXCEPT !.charged = charge] EXCEPT !.status = "complete"]
    <2>1. calls' = [calls EXCEPT ![id] = row]
      <3>1. calls' = [[calls EXCEPT ![id].charged = charge] EXCEPT ![id].status = "complete"]
        BY <1>6 DEF Complete
      <3>2. QED
        BY <1>0, <1>1, <3>1 DEF TypeOK
    <2>2. charge \in Nat /\ charge # Unpaid
      BY MoneyAssumption
    <2>3. row \in CallRows /\ row.charged = charge
      BY <1>2, <2>2 DEF CallRows
    <2>4. SameJobClaim(w, "settle")
      BY <1>0, <1>6, GotoMoves DEF Complete, QueueSteps
    <2>5. halted' \in BOOLEAN
      BY <1>6 DEF Complete
    <2> HIDE DEF id, row
    <2>6. QED
      BY <1>4, <2>1, <2>2, <2>3, <2>4, <2>5
  <1>7. QED
    BY <1>5, <1>6

(* A row that is recovered is as the invariant wants it.                   *)
LEMMA RecoverKeeps ==
    ASSUME QueueInv, NEW i \in Jobs, jobs'[i] = [jobs[i] EXCEPT !.state = Recovered(i)],
           UNCHANGED calls
    PROVE  /\ jobs'[i] \in Rows
           /\ jobs'[i].attempt = jobs[i].attempt /\ jobs'[i].token = jobs[i].token
           /\ jobs'[i].state \in {"none", "queued"} => jobs'[i].attempt < MaxAttempts
           /\ jobs'[i].state = "running" => jobs'[i].attempt \in Attempts
           /\ jobs'[i].state = "recoverable" => HasReceipt(i)'
           /\ \A a \in Attempts : calls[<<i, a>>] # NoCall =>
                /\ jobs'[i].attempt = a
                /\ jobs'[i].state \in {"running", "recoverable", "uncertain", "complete", "review"}
  <1>1. jobs[i] \in Rows
    BY RowParts DEF QueueInv
  <1>2. /\ jobs'[i].state = Recovered(i) /\ jobs'[i].attempt = jobs[i].attempt
        /\ jobs'[i].token = jobs[i].token
    BY <1>1 DEF Rows
  <1>3. /\ Recovered(i) \in States
        /\ Recovered(i) \in {"none", "queued"} => jobs[i].attempt < MaxAttempts
        /\ Recovered(i) = "running" => jobs[i].attempt \in Attempts
        /\ (\E a \in Attempts : calls[<<i, a>>] # NoCall) =>
             Recovered(i) \in {"running", "recoverable", "uncertain", "complete", "review"}
        /\ Recovered(i) = "recoverable" => HasReceipt(i)
    BY RecoveredFacts DEF QueueInv
  <1>4. jobs'[i] \in Rows
    BY <1>1, <1>3 DEF Rows
  <1>5. HasReceipt(i) => HasReceipt(i)'
    BY <1>2 DEF HasReceipt, Charged
  <1>6. \A a \in Attempts : calls[<<i, a>>] # NoCall => jobs[i].attempt = a
    BY DEF QueueInv, PaidWorkIsNeverDropped
  <1>7. QED
    BY <1>2, <1>3, <1>4, <1>5, <1>6

(* Looking for work without finding any keeps the invariant.               *)
LEMMA ClaimNothingKeeps ==
    ASSUME QueueInv, NEW w \in Workers, ClaimNothing(w)
    PROVE  QueueInv'
  <1>1. jobs' = Recover /\ UNCHANGED <<calls, halted, workers, stale, sent, today, crashes, late>>
    BY DEF ClaimNothing
  <1>2. \A i \in Jobs : jobs'[i] = [jobs[i] EXCEPT !.state = Recovered(i)]
    BY <1>1 DEF Recover
  <1>3. TypeOK'
    <2>1. \A i \in Jobs : jobs'[i] \in Rows
      BY <1>1, <1>2, RecoverKeeps
    <2>2. jobs' \in [Jobs -> Rows]
      BY <1>1, <2>1 DEF Recover
    <2>3. QED
      BY <1>1, <2>2 DEF QueueInv, TypeOK
  <1>4. \A i \in Jobs : jobs'[i].attempt = jobs[i].attempt /\ jobs'[i].token = jobs[i].token
    BY <1>1, <1>2, RecoverKeeps
  <1>5. AttemptsLeft'
    BY <1>1, <1>2, RecoverKeeps DEF AttemptsLeft
  <1>6. PaidWorkIsNeverDropped'
    BY <1>1, <1>2, RecoverKeeps DEF PaidWorkIsNeverDropped
  <1>7. \A v \in Workers : workers[v] # Idle => workers[v].job \in Jobs
    BY HeldClaim DEF QueueInv
  <1>8. TokensDiffer'
    BY <1>1, <1>4, <1>7 DEF QueueInv, TokensDiffer
  <1>9. OwnersKnow'
    BY <1>1, <1>4, <1>7 DEF QueueInv, OwnersKnow, OwnsRow, CallId, Charged
  <1>10. SentWhenReserved'
    BY <1>1 DEF QueueInv, SentWhenReserved, CallId
  <1>11. QED
    BY <1>3, <1>5, <1>6, <1>8, <1>9, <1>10 DEF QueueInv

(* A fresh claim has an attempt of its own and no call; one that recovers  *)
(* has a receipt.                                                          *)
LEMMA ClaimedFacts ==
    ASSUME QueueInv, NEW j \in Jobs, j \in Ready
    PROVE  /\ Claimed(j) \in Rows
           /\ Claimed(j).state = "running"
           /\ Claimed(j).attempt \in Attempts
           /\ Claimed(j).token = jobs[j].token + 1
           /\ \A a \in Attempts : calls[<<j, a>>] # NoCall => Claimed(j).attempt = a
           /\ \/ calls[<<j, Claimed(j).attempt>>] = NoCall
              \/ Charged(<<j, Claimed(j).attempt>>)
  <1>0. /\ jobs[j].attempt \in 0 .. MaxAttempts /\ jobs[j].attempt \in Int
        /\ jobs[j].token \in Nat
    BY RowParts DEF QueueInv
  <1>1. Recovered(j) \in {"queued", "recoverable"}
    BY DEF Ready
  <1>2. /\ Recovered(j) = "queued" => jobs[j].attempt < MaxAttempts
        /\ Recovered(j) = "recoverable" => HasReceipt(j)
        /\ (\E a \in Attempts : calls[<<j, a>>] # NoCall) => Recovered(j) # "queued"
    BY RecoveredFacts DEF QueueInv
  <1>3. \A a \in Attempts : calls[<<j, a>>] # NoCall => jobs[j].attempt = a
    BY DEF QueueInv, PaidWorkIsNeverDropped
  <1>4. CASE Recovered(j) = "recoverable"
    <2>1. Claimed(j) = [state |-> "running", token |-> jobs[j].token + 1, leased |-> TRUE,
                        attempt |-> jobs[j].attempt]
      BY <1>4 DEF Claimed
    <2>2. jobs[j].attempt \in Attempts /\ Charged(<<j, jobs[j].attempt>>)
      BY <1>2, <1>4 DEF HasReceipt
    <2>3. QED
      BY <1>0, <1>3, <2>1, <2>2, MaxAttemptsAssumption DEF Rows, States, Attempts
  <1>5. CASE Recovered(j) = "queued"
    <2>1. Claimed(j) = [state |-> "running", token |-> jobs[j].token + 1, leased |-> TRUE,
                        attempt |-> jobs[j].attempt + 1]
      BY <1>5 DEF Claimed
    <2>2. jobs[j].attempt + 1 \in Attempts /\ jobs[j].attempt + 1 \in 0 .. MaxAttempts
      BY <1>0, <1>2, <1>5, MaxAttemptsAssumption DEF Attempts
    <2>3. \A a \in Attempts : calls[<<j, a>>] = NoCall
      BY <1>2, <1>5
    <2>4. QED
      BY <1>0, <2>1, <2>2, <2>3 DEF Rows, States
  <1>6. QED
    BY <1>1, <1>4, <1>5

(* Claiming a job keeps the invariant: the new token replaces every older  *)
(* claim of the job.                                                       *)
LEMMA ClaimJobKeeps ==
    ASSUME QueueInv, NEW w \in Workers, NEW j \in Jobs, ClaimJob(w, j)
    PROVE  QueueInv'
  <1> DEFINE claim == [pc |-> "lookup", job |-> j, attempt |-> Claimed(j).attempt,
                       token |-> Claimed(j).token, outcome |-> "complete"]
  <1>0. TypeOK /\ workers[w] = Idle /\ j \in Ready
    BY DEF QueueInv, ClaimJob
  <1>1. /\ jobs' = [Recover EXCEPT ![j] = Claimed(j)]
        /\ workers' = [workers EXCEPT ![w] = claim]
        /\ UNCHANGED <<calls, halted, stale, sent, today, crashes, late>>
    BY DEF ClaimJob
  <1>2. /\ Claimed(j) \in Rows
        /\ Claimed(j).state = "running"
        /\ Claimed(j).attempt \in Attempts
        /\ Claimed(j).token = jobs[j].token + 1
        /\ \A a \in Attempts : calls[<<j, a>>] # NoCall => Claimed(j).attempt = a
        /\ \/ calls[<<j, Claimed(j).attempt>>] = NoCall
           \/ Charged(<<j, Claimed(j).attempt>>)
    BY <1>0, ClaimedFacts
  <1>3. jobs'[j] = Claimed(j)
    BY <1>1 DEF Recover
  <1>4. \A i \in Jobs \ {j} : jobs'[i] = [jobs[i] EXCEPT !.state = Recovered(i)]
    BY <1>1 DEF Recover
  <1>5. jobs[j].token \in Nat
    BY <1>0, RowParts
  <1>6. claim \in Held /\ claim # Idle
    BY <1>2, <1>5 DEF Held, Idle
  <1>7. workers'[w] = claim /\ \A v \in Workers \ {w} : workers'[v] = workers[v]
    BY <1>0, <1>1 DEF TypeOK
  <1>8. TypeOK'
    <2>1. \A i \in Jobs : jobs'[i] \in Rows
      BY <1>1, <1>2, <1>3, <1>4, RecoverKeeps
    <2>2. jobs' \in [Jobs -> Rows]
      BY <1>1, <2>1 DEF Recover
    <2>3. workers' \in [Workers -> Held \cup {Idle}]
      BY <1>0, <1>1, <1>6 DEF TypeOK
    <2>4. QED
      BY <1>0, <1>1, <2>2, <2>3 DEF TypeOK
  <1>9. AttemptsLeft'
    BY <1>1, <1>2, <1>3, <1>4, RecoverKeeps DEF AttemptsLeft
  <1>10. PaidWorkIsNeverDropped'
    <2>1. ASSUME NEW i \in Jobs, NEW a \in Attempts, calls[<<i, a>>] # NoCall
          PROVE  /\ jobs'[i].attempt = a
                 /\ jobs'[i].state \in {"running", "recoverable", "uncertain", "complete", "review"}
      <3>1. CASE i = j
        BY <1>2, <1>3, <2>1, <3>1
      <3>2. CASE i # j
        BY <1>1, <1>4, <2>1, <3>2, RecoverKeeps
      <3>3. QED
        BY <3>1, <3>2
    <2>2. QED
      BY <1>1, <2>1 DEF PaidWorkIsNeverDropped
  <1>11. claim.job = j /\ claim.token = jobs[j].token + 1 /\ claim.attempt = Claimed(j).attempt
         /\ claim.pc = "lookup"
    BY <1>2
  <1> HIDE DEF claim
  <1>12. ASSUME NEW v \in Workers \ {w}, workers'[v] # Idle
         PROVE  /\ workers'[v] = workers[v] /\ workers[v] # Idle
                /\ workers[v].job \in Jobs /\ workers[v].token \in Nat
                /\ workers[v].token <= jobs[workers[v].job].token
    BY <1>0, <1>7, <1>12, HeldClaim DEF QueueInv, TokensDiffer
  <1>13. \A i \in Jobs \ {j} : jobs'[i].attempt = jobs[i].attempt /\ jobs'[i].token = jobs[i].token
    BY <1>1, <1>4, RecoverKeeps
  <1>14. jobs'[j].token = jobs[j].token + 1
    BY <1>2, <1>3
  <1>15. TokensDiffer'
    <2>1. ASSUME NEW v \in Workers, workers'[v] # Idle
          PROVE  workers'[v].token <= jobs'[workers'[v].job].token
      <3>1. CASE v = w
        BY <1>5, <1>7, <1>11, <1>14, <3>1
      <3>2. CASE v # w
        BY <1>5, <1>12, <1>13, <1>14, <2>1, <3>2
      <3>3. QED
        BY <3>1, <3>2
    <2>2. ASSUME NEW v \in Workers, NEW u \in Workers, u # v, workers'[v] # Idle,
                 workers'[u] # Idle, workers'[u].job = workers'[v].job
          PROVE  workers'[u].token # workers'[v].token
      <3>1. CASE v # w /\ u # w
        BY <1>7, <2>2, <3>1 DEF QueueInv, TokensDiffer
      <3>2. CASE v = w
        BY <1>5, <1>7, <1>11, <1>12, <2>2, <3>2
      <3>3. CASE u = w
        BY <1>5, <1>7, <1>11, <1>12, <2>2, <3>3
      <3>4. QED
        BY <3>1, <3>2, <3>3
    <2>3. QED
      BY <2>1, <2>2 DEF TokensDiffer
  <1>16. OwnersKnow'
    <2>1. SUFFICES ASSUME NEW v \in Workers, workers'[v] # Idle, OwnsRow(v)'
                   PROVE  (/\ workers[v].pc \in {"lookup", "reserve"} =>
                                calls[CallId(v)] = NoCall \/ Charged(CallId(v))
                           /\ (/\ workers[v].pc = "finish"
                               /\ workers[v].outcome \in {"stale", "budget_exhausted"})
                                => calls[CallId(v)] = NoCall)'
      BY DEF OwnersKnow
    <2>2. CASE v = w
      BY <1>1, <1>2, <1>7, <1>11, <2>2 DEF CallId, Charged
    <2>3. CASE v # w
      <3>1. workers'[v] = workers[v] /\ workers[v] # Idle /\ workers[v].job \in Jobs
        BY <1>12, <2>1, <2>3
      <3>2. workers[v].token = jobs'[workers[v].job].token
            /\ workers[v].attempt = jobs'[workers[v].job].attempt
        BY <2>1, <3>1 DEF OwnsRow
      <3>3. workers[v].job # j
        BY <1>5, <1>12, <1>14, <2>1, <2>3, <3>1, <3>2
      <3>4. OwnsRow(v)
        BY <1>13, <3>1, <3>2, <3>3 DEF OwnsRow
      <3>5. QED
        BY <1>1, <3>1, <3>4 DEF QueueInv, OwnersKnow, CallId, Charged
    <2>4. QED
      BY <2>2, <2>3
  <1>17. SentWhenReserved'
    <2>1. workers'[w].pc \notin {"send", "sent"}
      BY <1>7, <1>11
    <2>2. QED
      BY <1>1, <1>7, <2>1 DEF QueueInv, SentWhenReserved, CallId
  <1>18. QED
    BY <1>8, <1>9, <1>10, <1>15, <1>16, <1>17 DEF QueueInv

(* Enqueueing a job and the end of a lease keep the invariant.             *)
LEMMA JobRowKeeps ==
    ASSUME QueueInv, NEW j \in Jobs, Enqueue(j) \/ LeaseExpires(j)
    PROVE  QueueInv'
  <1>0. TypeOK
    BY DEF QueueInv
  <1>1. /\ UNCHANGED <<calls, halted, workers, stale, sent, today, crashes>>
        /\ late' \in Nat
    BY <1>0 DEF Enqueue, LeaseExpires, TypeOK
  <1>2. jobs[j] \in Rows
    BY <1>0, RowParts
  <1>3. PICK row \in Rows :
          /\ jobs' = [jobs EXCEPT ![j] = row]
          /\ row.attempt = jobs[j].attempt /\ row.token = jobs[j].token
          /\ row.state = jobs[j].state \/ (jobs[j].state = "none" /\ row.state = "queued")
    <2>1. CASE Enqueue(j)
      <3> DEFINE new == [jobs[j] EXCEPT !.state = "queued"]
      <3>1. jobs' = [jobs EXCEPT ![j] = new] /\ jobs[j].state = "none"
        BY <2>1 DEF Enqueue
      <3>2. /\ new \in Rows /\ new.state = "queued"
            /\ new.attempt = jobs[j].attempt /\ new.token = jobs[j].token
        BY <1>2 DEF Rows, States
      <3> HIDE DEF new
      <3>3. QED
        BY <3>1, <3>2
    <2>2. CASE LeaseExpires(j)
      <3> DEFINE new == [jobs[j] EXCEPT !.leased = FALSE]
      <3>1. jobs' = [jobs EXCEPT ![j] = new]
        BY <2>2 DEF LeaseExpires
      <3>2. /\ new \in Rows /\ new.state = jobs[j].state
            /\ new.attempt = jobs[j].attempt /\ new.token = jobs[j].token
        BY <1>2 DEF Rows
      <3> HIDE DEF new
      <3>3. QED
        BY <3>1, <3>2
    <2>3. QED
      BY <2>1, <2>2
  <1>4. TypeOK'
    BY <1>0, <1>1, <1>3 DEF TypeOK
  <1>5. \A i \in Jobs : /\ jobs'[i].attempt = jobs[i].attempt /\ jobs'[i].token = jobs[i].token
                         /\ \/ jobs'[i].state = jobs[i].state
                            \/ jobs[i].state = "none" /\ jobs'[i].state = "queued"
    BY <1>0, <1>3 DEF TypeOK
  <1>6. AttemptsLeft'
    <2>1. \A i \in Jobs : HasReceipt(i) => HasReceipt(i)'
      BY <1>1, <1>5 DEF HasReceipt, Charged
    <2>2. QED
      BY <1>5, <2>1 DEF QueueInv, AttemptsLeft
  <1>7. PaidWorkIsNeverDropped'
    BY <1>1, <1>5 DEF QueueInv, PaidWorkIsNeverDropped
  <1>8. \A v \in Workers : workers[v] # Idle => workers[v].job \in Jobs
    BY <1>0, HeldClaim
  <1>9. TokensDiffer'
    BY <1>1, <1>5, <1>8 DEF QueueInv, TokensDiffer
  <1>10. OwnersKnow'
    BY <1>1, <1>5, <1>8 DEF QueueInv, OwnersKnow, OwnsRow, CallId, Charged
  <1>11. SentWhenReserved'
    BY <1>1 DEF QueueInv, SentWhenReserved, CallId
  <1>12. QED
    BY <1>4, <1>6, <1>7, <1>9, <1>10, <1>11 DEF QueueInv

(* Nothing else matters to the invariant.                                  *)
LEMMA OtherKeeps ==
    ASSUME QueueInv, UNCHANGED <<jobs, calls, workers, sent, halted, crashes, late>>,
           stale' \subseteq Jobs, today' \in Nat
    PROVE  QueueInv'
  BY DEF QueueInv, TypeOK, AttemptsLeft, HasReceipt, Charged, TokensDiffer, OwnersKnow,
         OwnsRow, CallId, SentWhenReserved, PaidWorkIsNeverDropped

(* Every step keeps the invariant.                                         *)
LEMMA QueueStep ==
    ASSUME QueueInv, [Next]_vars
    PROVE  QueueInv'
  <1>1. ASSUME NEW w \in Workers, WorkerStep(w)
        PROVE  QueueInv'
    BY <1>1, ClaimJobKeeps, ClaimNothingKeeps, DecideKeeps, JobReserveKeeps, SendKeeps,
       AnswerKeeps, JobEndKeeps DEF WorkerStep
  <1>2. ASSUME NEW w \in Workers, LookupFails(w) \/ Crash(w)
        PROVE  QueueInv'
    BY <1>2, JobEndKeeps
  <1>3. ASSUME NEW j \in Jobs, Enqueue(j) \/ LeaseExpires(j)
        PROVE  QueueInv'
    BY <1>3, JobRowKeeps
  <1>4. ASSUME NEW j \in Jobs, EvidenceChanges(j)
        PROVE  QueueInv'
    BY <1>4, OtherKeeps DEF EvidenceChanges, QueueInv, TypeOK
  <1>5. CASE DayPasses
    BY <1>5, OtherKeeps DEF DayPasses, QueueInv, TypeOK
  <1>6. CASE UNCHANGED vars
    BY <1>6, OtherKeeps DEF vars, QueueInv, TypeOK
  <1>7. QED
    BY <1>1, <1>2, <1>3, <1>4, <1>5, <1>6 DEF Next

(* An empty queue satisfies the invariant.                                 *)
LEMMA QueueInit ==
    ASSUME Init
    PROVE  QueueInv
  <1>. DEFINE empty == [state |-> "none", attempt |-> 0, token |-> 0, leased |-> FALSE]
  <1>0. empty \in Rows
    BY MaxAttemptsAssumption DEF Rows, States
  <1>1. TypeOK
    BY <1>0 DEF Init, TypeOK, Idle
  <1>2. \A j \in Jobs : jobs[j].state = "none" /\ jobs[j].attempt = 0
    BY DEF Init
  <1>3. AttemptsLeft
    BY <1>2, MaxAttemptsAssumption DEF AttemptsLeft
  <1>4. PaidWorkIsNeverDropped
    BY DEF Init, PaidWorkIsNeverDropped, CallIds
  <1>5. TokensDiffer /\ OwnersKnow
    BY DEF Init, TokensDiffer, OwnersKnow
  <1>6. SentWhenReserved
    BY DEF Init, SentWhenReserved, Idle
  <1>7. QED
    BY <1>1, <1>3, <1>4, <1>5, <1>6 DEF QueueInv

(* The invariant holds always.                                             *)
LEMMA QueueAlways == Spec => []QueueInv
  <1>1. Init => QueueInv
    BY QueueInit
  <1>2. QueueInv /\ [Next]_vars => QueueInv'
    BY QueueStep
  <1>3. QED
    BY <1>1, <1>2, PTL DEF Spec

(* Money that is reserved or spent is never forgotten: the job of a call   *)
(* is running, recoverable, uncertain or shows its result.                 *)
THEOREM PaidWorkIsKept == Spec => []PaidWorkIsNeverDropped
  <1>1. QueueInv => PaidWorkIsNeverDropped
    BY DEF QueueInv
  <1>2. QED
    BY <1>1, QueueAlways, PTL

(* At most one request of a job ever reaches the provider, whatever leases *)
(* expire and however many workers die or come back late.                  *)
THEOREM AtMostOneSubmission == Spec => []SubmittedOnce
  <1>1. ASSUME QueueInv
        PROVE  SubmittedOnce
    <2>1. ASSUME NEW j \in Jobs, NEW a \in Attempts
          PROVE  /\ sent[<<j, a>>] <= 1
                 /\ sent[<<j, a>>] > 0 => jobs[j].attempt = a
      <3>1. <<j, a>> \in CallIds
        BY DEF CallIds
      <3>2. QED
        BY <1>1, <3>1 DEF QueueInv, SentWhenReserved, PaidWorkIsNeverDropped
    <2>2. QED
      BY <2>1 DEF SubmittedOnce
  <1>2. QED
    BY <1>1, QueueAlways, PTL

(* A result, once shown, is never replaced.                                *)
THEOREM FinalResults == Spec => ResultsAreFinal
  <1> DEFINE Done == {"complete", "review", "stale", "budget_exhausted", "failed"}
             Final == \A j \in Jobs : jobs[j].state \in Done => jobs'[j].state = jobs[j].state
  <1>1. ASSUME QueueInv, Next
        PROVE  Final
    <2>0. TypeOK
      BY <1>1 DEF QueueInv
    <2>a. ASSUME NEW j \in Jobs, NEW state, jobs[j].state \notin Done,
                 jobs' = [jobs EXCEPT ![j].state = state]
          PROVE  Final
      BY <2>0, <2>a DEF TypeOK
    <2>b. ASSUME UNCHANGED jobs
          PROVE  Final
      BY <2>b
    <2>1. ASSUME NEW w \in Workers, NEW state, workers[w] # Idle, Written(w, state)
          PROVE  Final
      <3>1. workers[w].job \in Jobs
        BY <2>0, <2>1, HeldClaim
      <3>2. QED
        BY <2>1, <2>a, <2>b, <3>1 DEF Written
    <2>2. ASSUME NEW j \in Jobs
          PROVE  /\ jobs[j].state \in Done => Recovered(j) = jobs[j].state
                 /\ [jobs[j] EXCEPT !.state = Recovered(j)].state = Recovered(j)
                 /\ j \in Ready => jobs[j].state \notin Done
      <3>1. jobs[j].state \in Done => Recovered(j) = jobs[j].state
        BY <1>1, RecoveredFacts DEF QueueInv
      <3>2. [jobs[j] EXCEPT !.state = Recovered(j)].state = Recovered(j)
        BY <2>0, RowParts DEF Rows
      <3>3. QED
        BY <3>1, <3>2 DEF Ready
    <2>3. ASSUME NEW w \in Workers, ClaimNothing(w)
          PROVE  Final
      BY <2>2, <2>3 DEF ClaimNothing, Recover
    <2>4. ASSUME NEW w \in Workers, NEW j \in Jobs, ClaimJob(w, j)
          PROVE  Final
      BY <2>2, <2>4 DEF ClaimJob, Recover
    <2>5. ASSUME NEW w \in Workers,
                 Settle(w) \/ Finish(w) \/ RetryUnsubmitted(w) \/ LookupFails(w)
          PROVE  Final
      <3>1. workers[w] # Idle
        BY <2>5, AtWork DEF Settle, Finish, RetryUnsubmitted, LookupFails, At
      <3>2. QED
        BY <2>1, <2>5, <3>1 DEF Settle, Finish, RetryUnsubmitted, LookupFails
    <2>6. ASSUME NEW j \in Jobs, Enqueue(j)
          PROVE  Final
      BY <2>6, <2>a DEF Enqueue
    <2>7. ASSUME NEW j \in Jobs, LeaseExpires(j)
          PROVE  Final
      <3>1. \A i \in Jobs : jobs[i] \in Rows
        BY <2>0, RowParts
      <3>2. jobs' = [jobs EXCEPT ![j] = [jobs[j] EXCEPT !.leased = FALSE]]
        BY <2>7 DEF LeaseExpires
      <3>3. [jobs[j] EXCEPT !.leased = FALSE].state = jobs[j].state
        BY <3>1 DEF Rows
      <3>4. QED
        BY <2>0, <3>2, <3>3 DEF TypeOK
    <2> HIDE DEF Final
    <2>8. QED
      BY <1>1, <2>b, <2>3, <2>4, <2>5, <2>6, <2>7
         DEF Next, WorkerStep, Lookup, Reserve, ReserveRefused, Send, Complete, Fail, Crash,
             EvidenceChanges, DayPasses
  <1>2. QueueInv /\ [Next]_vars => [Final]_vars
    BY <1>1
  <1>3. Spec => [][Final]_vars
    <2> HIDE DEF Final
    <2> QED BY <1>2, QueueAlways, PTL DEF Spec
  <1>4. QED
    BY <1>3 DEF ResultsAreFinal

-----------------------------------------------------------------------------
(* The budget.  A call on its way is reserved, not yet charged, and in the *)
(* hands of one worker: an answer never replaces another one's charge.     *)
Flying == {"send", "sent"}
JobInFlight ==
    \A w \in Workers : workers[w].pc \in Flying =>
        /\ calls[CallId(w)] # NoCall /\ calls[CallId(w)].charged = Unpaid
        /\ \A v \in Workers \ {w} : workers[v].pc \in Flying => CallId(v) # CallId(w)

BudgetInv == JobInFlight /\ BudgetHolds

LEMMA CallIdsFinite ==
    /\ IsFiniteSet(CallIds)
    /\ \A S \in SUBSET CallIds : IsFiniteSet(S)
  <1>1. MaxJobs \in Int /\ MaxAttempts \in Int
    BY MaxJobsAssumption, MaxAttemptsAssumption
  <1>2. IsFiniteSet(Jobs) /\ IsFiniteSet(Attempts)
    BY <1>1, FS_Interval DEF Jobs, Attempts
  <1>3. IsFiniteSet(CallIds)
    BY <1>2, FS_Product DEF CallIds
  <1>4. QED
    BY <1>3, FS_Subset

(* What a call costs, and the part of it within its reservation.           *)
LEMMA Costs ==
    ASSUME TypeOK, NEW id \in CallIds
    PROVE  /\ Committed(id) \in Nat /\ WithinReservation(id) \in Nat
           /\ WithinReservation(id) =< Committed(id) /\ WithinReservation(id) =< Reservation
           /\ calls[id] = NoCall => Committed(id) = 0 /\ WithinReservation(id) = 0
  <1>1. calls[id] = NoCall \/ calls[id].charged \in Nat \cup {Unpaid}
    BY DEF TypeOK, CallRows
  <1>2. Committed(id) \in Nat
    BY <1>1, MoneyAssumption DEF Committed
  <1>3. calls[id] = NoCall => Committed(id) = 0
    BY DEF Committed
  <1>4. QED
    BY <1>2, <1>3, MoneyAssumption DEF WithinReservation

LEMMA CostsAfter ==
    ASSUME TypeOK', NEW id \in CallIds
    PROVE  /\ Committed(id)' \in Nat /\ WithinReservation(id)' \in Nat
           /\ WithinReservation(id)' =< Reservation
  <1>1. calls'[id] = NoCall \/ calls'[id].charged \in Nat \cup {Unpaid}
    BY DEF TypeOK, CallRows
  <1>2. Committed(id)' \in Nat
    BY <1>1, MoneyAssumption DEF Committed
  <1>3. QED
    BY <1>2, MoneyAssumption DEF WithinReservation

(* What is within the reservations is no more than what is committed.      *)
LEMMA WithinCommitted ==
    ASSUME TypeOK, NEW ids \in SUBSET CallIds
    PROVE  /\ WithinReservationIn(ids) \in Nat /\ CommittedIn(ids) \in Nat
           /\ WithinReservationIn(ids) =< CommittedIn(ids)
  <1> DEFINE f == [id \in CallIds |-> WithinReservation(id)]
             g == [id \in CallIds |-> Committed(id)]
  <1>1. \A id \in ids : f[id] \in Nat /\ g[id] \in Nat /\ f[id] =< g[id]
    BY Costs
  <1>2. IsFiniteSet(ids)
    BY CallIdsFinite
  <1> HIDE DEF f, g
  <1>3. SumFunctionOnSet(f, ids) \in Nat /\ SumFunctionOnSet(g, ids) \in Nat
    BY <1>1, <1>2, SumType
  <1>4. SumFunctionOnSet(f, ids) =< SumFunctionOnSet(g, ids)
    BY <1>1, <1>2, SumMonotone
  <1>5. QED
    BY <1>3, <1>4 DEF f, g, WithinReservationIn, CommittedIn

(* When one call changes, the sum over calls that include it changes with  *)
(* it, and any other sum stays.                                            *)
LEMMA WithinChanged ==
    ASSUME TypeOK, TypeOK', NEW id \in CallIds, NEW ids \in SUBSET CallIds,
           \A other \in CallIds : other # id => calls'[other] = calls[other]
    PROVE  WithinReservationIn(ids)' =
             IF id \in ids
             THEN WithinReservationIn(ids) - WithinReservation(id) + WithinReservation(id)'
             ELSE WithinReservationIn(ids)
  <1> DEFINE f == [x \in CallIds |-> WithinReservation(x)]
             g == [x \in CallIds |-> WithinReservation(x)']
  <1>1. \A x \in ids : f[x] \in Nat /\ g[x] \in Nat
    BY Costs, CostsAfter
  <1>2. \A x \in ids : x # id => g[x] = f[x]
    BY DEF WithinReservation, Committed
  <1>3. IsFiniteSet(ids)
    BY CallIdsFinite
  <1>4. /\ WithinReservationIn(ids) = SumFunctionOnSet(f, ids)
        /\ WithinReservationIn(ids)' = SumFunctionOnSet(g, ids)
    BY DEF WithinReservationIn
  <1>5. f[id] = WithinReservation(id) /\ g[id] = WithinReservation(id)'
    OBVIOUS
  <1> HIDE DEF f, g
  <1>6. CASE id \in ids
    BY <1>1, <1>2, <1>3, <1>4, <1>5, <1>6, SumOneChanged
  <1>7. CASE id \notin ids
    <2>1. \A x \in ids : f[x] \in Nat /\ g[x] = f[x]
      BY <1>1, <1>2, <1>7
    <2>2. SumFunctionOnSet(g, ids) = SumFunctionOnSet(f, ids)
      BY <1>3, <2>1, SumSame
    <2>3. QED
      BY <1>4, <1>7, <2>2
  <1>8. QED
    BY <1>6, <1>7

(* Workers that stay in flight keep their calls as they are.               *)
LEMMA FlightKeeps ==
    ASSUME JobInFlight,
           \A v \in Workers : workers'[v].pc \in Flying =>
               /\ workers[v].pc \in Flying /\ CallId(v)' = CallId(v)
               /\ calls'[CallId(v)] = calls[CallId(v)]
    PROVE  JobInFlight'
  BY DEF JobInFlight

(* A step that leaves the ledger alone.                                    *)
LEMMA LedgerKeeps ==
    ASSUME BudgetInv, UNCHANGED <<calls, halted>>,
           \A v \in Workers : workers'[v].pc \in Flying =>
               workers[v].pc \in Flying /\ CallId(v)' = CallId(v)
    PROVE  BudgetInv'
  <1>1. JobInFlight'
    BY FlightKeeps DEF BudgetInv
  <1>2. BudgetHolds'
    BY DEF BudgetInv, BudgetHolds, WithinReservationIn, WithinReservation, Committed, CallsOf
  <1>3. QED
    BY <1>1, <1>2 DEF BudgetInv

LEMMA ClaimedCosts ==
    ASSUME QueueInv, BudgetInv, NEW w \in Workers, NEW pc, SameJobClaim(w, pc),
           UNCHANGED <<calls, halted>>, pc \in Flying => workers[w].pc \in Flying
    PROVE  BudgetInv'
  <1>1. ASSUME NEW v \in Workers, workers'[v].pc \in Flying
        PROVE  workers[v].pc \in Flying /\ CallId(v)' = CallId(v)
    BY <1>1 DEF SameJobClaim, CallId
  <1>2. QED
    BY <1>1, LedgerKeeps

LEMMA ReleasedCosts ==
    ASSUME QueueInv, BudgetInv, NEW w \in Workers, workers' = [workers EXCEPT ![w] = Idle],
           UNCHANGED <<calls, halted>>
    PROVE  BudgetInv'
  <1>1. ASSUME NEW v \in Workers, workers'[v].pc \in Flying
        PROVE  workers[v].pc \in Flying /\ CallId(v)' = CallId(v)
    BY <1>1 DEF QueueInv, TypeOK, CallId, Idle, Flying
  <1>2. QED
    BY <1>1, LedgerKeeps

(* A reservation is made only where it fits, in total and on its day.      *)
LEMMA ReserveCosts ==
    ASSUME QueueInv, QueueInv', BudgetInv, NEW w \in Workers, Reserve(w),
           NEW id, id = CallId(w)
    PROVE  BudgetInv'
  <1> DEFINE row == [day |-> today, charged |-> Unpaid, status |-> "reserved"]
  <1>0. TypeOK /\ TypeOK' /\ workers[w] # Idle
    BY AtWork DEF QueueInv, Reserve, At
  <1>1. SameJobClaim(w, "send") /\ UNCHANGED halted /\ calls[id] = NoCall /\ Affordable
        /\ calls' = [calls EXCEPT ![id] = row]
    BY <1>0, GotoMoves DEF Reserve, QueueSteps
  <1>2. id \in CallIds
    BY <1>0, HeldClaim
  <1>3. row \in CallRows /\ row # NoCall /\ row.charged = Unpaid /\ row.day = today
    BY <1>0, NoCallAssumption DEF TypeOK, CallRows
  <1>4. /\ calls'[id] = row
        /\ \A other \in CallIds : other # id => calls'[other] = calls[other]
    BY <1>0, <1>1, <1>2 DEF TypeOK
  <1> HIDE DEF row
  <1>5. /\ \A v \in Workers \ {w} : workers'[v] = workers[v] /\ CallId(v)' = CallId(v)
        /\ CallId(w)' = id
    BY <1>1 DEF SameJobClaim, CallId
  <1>6. JobInFlight'
    <2>1. ASSUME NEW v \in Workers \ {w}, workers[v].pc \in Flying
          PROVE  /\ CallId(v) # id /\ CallId(v) \in CallIds
                 /\ calls'[CallId(v)] = calls[CallId(v)]
      <3>1. CallId(v) \in CallIds
        BY <1>0, <2>1, AtWork, HeldClaim DEF Flying
      <3>2. CallId(v) # id
        BY <1>1, <2>1 DEF BudgetInv, JobInFlight
      <3>3. QED
        BY <1>4, <3>1, <3>2
    <2>2. QED
      BY <1>3, <1>4, <1>5, <2>1 DEF BudgetInv, JobInFlight
  <1>7. WithinReservation(id) = 0 /\ Committed(id)' = Reservation
        /\ WithinReservation(id)' = Reservation /\ Reservation \in Nat
    BY <1>0, <1>1, <1>2, <1>3, <1>4, Costs, MoneyAssumption DEF WithinReservation, Committed
  <1>8. WithinReservationIn(CallIds)' =< TotalLimit
    <2>1. WithinReservationIn(CallIds)' = WithinReservationIn(CallIds) - 0 + Reservation
      BY <1>0, <1>2, <1>4, <1>7, WithinChanged
    <2>2. /\ WithinReservationIn(CallIds) =< CommittedIn(CallIds)
          /\ WithinReservationIn(CallIds) \in Nat /\ CommittedIn(CallIds) \in Nat
      BY <1>0, WithinCommitted
    <2>3. CommittedIn(CallIds) + Reservation =< TotalLimit /\ TotalLimit \in Nat
      BY <1>1, MoneyAssumption DEF Affordable
    <2>4. QED
      BY <1>7, <2>1, <2>2, <2>3
  <1>9. ASSUME NEW day \in 0 .. MaxDay
        PROVE  WithinReservationIn(CallsOf(day))' =< DailyLimit
    <2>1. CallsOf(day) \in SUBSET CallIds /\ id \notin CallsOf(day)
      BY <1>1 DEF CallsOf
    <2>2. CASE day # today
      <3>1. CallsOf(day)' = CallsOf(day)
        BY <1>1, <1>2, <1>3, <1>4, <2>2 DEF CallsOf
      <3>2. WithinReservationIn(CallsOf(day))' = SumFunctionOnSet([x \in CallIds |-> WithinReservation(x)'], CallsOf(day))
        BY <3>1 DEF WithinReservationIn
      <3>3. WithinReservationIn(CallsOf(day))' = WithinReservationIn(CallsOf(day))
        <4> DEFINE ids == CallsOf(day)
        <4>1. ASSUME NEW s \in SUBSET CallIds, id \notin s
              PROVE  SumFunctionOnSet([x \in CallIds |-> WithinReservation(x)'], s) = WithinReservationIn(s)
          <5>1. WithinReservationIn(s)' = WithinReservationIn(s)
            BY <1>0, <1>2, <1>4, <4>1, WithinChanged
          <5>2. QED
            BY <5>1 DEF WithinReservationIn
        <4>2. QED
          BY <2>1, <3>2, <4>1
      <3>4. QED
        BY <3>3 DEF BudgetInv, BudgetHolds
    <2>3. CASE day = today
      <3>1. CallsOf(day)' = CallsOf(day) \cup {id}
        BY <1>1, <1>2, <1>3, <1>4, <2>3 DEF CallsOf
      <3>2. /\ WithinReservationIn(CallsOf(day)) =< CommittedIn(CallsOf(day))
            /\ WithinReservationIn(CallsOf(day)) \in Nat /\ CommittedIn(CallsOf(day)) \in Nat
        BY <1>0, <2>1, WithinCommitted
      <3>3. CommittedIn(CallsOf(day)) + Reservation =< DailyLimit /\ DailyLimit \in Nat
        BY <1>1, <2>3, MoneyAssumption DEF Affordable
      <3>4. WithinReservationIn(CallsOf(day))' = Reservation + WithinReservationIn(CallsOf(day))
        <4> DEFINE g == [x \in CallIds |-> WithinReservation(x)']
                   ids == CallsOf(day)
                   all == ids \cup {id}
        <4>1. all \in SUBSET CallIds /\ all \ {id} = ids /\ id \in all
          BY <1>2, <2>1
        <4>2. \A x \in all : g[x] \in Nat
          BY <1>0, <4>1, CostsAfter
        <4>3. g[id] = Reservation
          BY <1>2, <1>7
        <4>4. WithinReservationIn(CallsOf(day))' = SumFunctionOnSet(g, all)
          BY <3>1 DEF WithinReservationIn
        <4>5. ASSUME NEW s \in SUBSET CallIds, id \notin s
              PROVE  SumFunctionOnSet(g, s) = WithinReservationIn(s)
          <5>1. WithinReservationIn(s)' = WithinReservationIn(s)
            BY <1>0, <1>2, <1>4, <4>5, WithinChanged
          <5>2. QED
            BY <5>1 DEF WithinReservationIn
        <4>6. SumFunctionOnSet(g, ids) = WithinReservationIn(ids)
          BY <2>1, <4>5
        <4> HIDE DEF g, all
        <4>7. SumFunctionOnSet(g, all) = g[id] + SumFunctionOnSet(g, all \ {id})
          BY <4>1, <4>2, CallIdsFinite, SumOut
        <4>8. QED
          BY <4>1, <4>3, <4>4, <4>6, <4>7
      <3>5. QED
        BY <1>7, <3>2, <3>3, <3>4
    <2>4. QED
      BY <2>2, <2>3
  <1>10. (\E x \in CallIds : Committed(x)' > Reservation) => halted'
    <2>1. ASSUME NEW x \in CallIds, Committed(x)' > Reservation
          PROVE  halted
      <3>1. x # id
        BY <1>7, <2>1
      <3>2. Committed(x) > Reservation
        BY <1>4, <2>1, <3>1 DEF Committed
      <3>3. QED
        BY <3>2 DEF BudgetInv, BudgetHolds
    <2>2. QED
      BY <1>1, <2>1
  <1>11. QED
    BY <1>6, <1>8, <1>9, <1>10 DEF BudgetInv, BudgetHolds

(* An answer takes the place of its own reservation.                       *)
LEMMA AnswerCosts ==
    ASSUME QueueInv, QueueInv', BudgetInv, NEW w \in Workers, workers[w].pc = "sent",
           NEW id, id = CallId(w),
           NEW pc \in {"settle", "finish"}, SameJobClaim(w, pc),
           NEW row \in CallRows, calls' = [calls EXCEPT ![id] = row],
           row.day = calls[id].day,
           row.charged \in Nat /\ row.charged > Reservation => halted',
           halted => halted'
    PROVE  BudgetInv'
  <1>0. TypeOK /\ TypeOK' /\ workers[w] # Idle
    BY AtWork DEF QueueInv
  <1>1. id \in CallIds /\ row # NoCall /\ calls[id] # NoCall /\ calls[id].charged = Unpaid
    BY <1>0, HeldClaim, NoCallAssumption DEF BudgetInv, JobInFlight, Flying
  <1>2. /\ calls'[id] = row
        /\ \A other \in CallIds : other # id => calls'[other] = calls[other]
    BY <1>0, <1>1 DEF TypeOK
  <1>3. JobInFlight'
    <2>1. ASSUME NEW v \in Workers, workers'[v].pc \in Flying
          PROVE  /\ workers[v].pc \in Flying /\ CallId(v)' = CallId(v)
                 /\ calls'[CallId(v)] = calls[CallId(v)]
      <3>1. v # w
        BY <2>1 DEF SameJobClaim, Flying
      <3>2. workers[v].pc \in Flying /\ CallId(v)' = CallId(v)
        BY <2>1, <3>1 DEF SameJobClaim, CallId
      <3>3. CallId(v) # id
        BY <3>1, <3>2 DEF BudgetInv, JobInFlight, Flying
      <3>4. CallId(v) \in CallIds
        BY <1>0, <3>2, AtWork, HeldClaim DEF Flying
      <3>5. QED
        BY <1>2, <3>2, <3>3, <3>4
    <2>2. QED
      BY <2>1, FlightKeeps DEF BudgetInv
  <1>4. \A day : CallsOf(day)' = CallsOf(day)
    BY <1>1, <1>2 DEF CallsOf
  <1>5. WithinReservation(id) = Reservation /\ Reservation \in Nat
        /\ WithinReservation(id)' =< Reservation /\ WithinReservation(id)' \in Nat
    BY <1>0, <1>1, CostsAfter, MoneyAssumption DEF WithinReservation, Committed
  <1>6. ASSUME NEW ids \in SUBSET CallIds
        PROVE  WithinReservationIn(ids)' =< WithinReservationIn(ids)
    <2>1. WithinReservationIn(ids)' =
            IF id \in ids
            THEN WithinReservationIn(ids) - WithinReservation(id) + WithinReservation(id)'
            ELSE WithinReservationIn(ids)
      BY <1>0, <1>1, <1>2, WithinChanged
    <2>2. WithinReservationIn(ids) \in Nat
      BY <1>0, WithinCommitted
    <2>3. QED
      BY <1>5, <2>1, <2>2
  <1>7. ASSUME NEW ids \in SUBSET CallIds, NEW n \in Nat, WithinReservationIn(ids) =< n
        PROVE  SumFunctionOnSet([x \in CallIds |-> WithinReservation(x)'], ids) =< n
    <2>1. WithinReservationIn(ids)' =< WithinReservationIn(ids) /\ WithinReservationIn(ids) \in Nat
      BY <1>0, <1>6, WithinCommitted
    <2>2. WithinReservationIn(ids)' \in Nat
      <3>1. \A x \in ids : [y \in CallIds |-> WithinReservation(y)'][x] \in Nat
        BY <1>0, CostsAfter
      <3>2. SumFunctionOnSet([y \in CallIds |-> WithinReservation(y)'], ids) \in Nat
        BY <3>1, CallIdsFinite, SumType
      <3>3. QED
        BY <3>2 DEF WithinReservationIn
    <2>3. WithinReservationIn(ids)' =< n
      BY <1>7, <2>1, <2>2
    <2>4. QED
      BY <2>3 DEF WithinReservationIn
  <1>8. WithinReservationIn(CallIds)' =< TotalLimit
    <2>1. WithinReservationIn(CallIds) =< TotalLimit /\ TotalLimit \in Nat
      BY MoneyAssumption DEF BudgetInv, BudgetHolds
    <2>2. QED
      BY <1>7, <2>1 DEF WithinReservationIn
  <1>9. ASSUME NEW day \in 0 .. MaxDay
        PROVE  WithinReservationIn(CallsOf(day))' =< DailyLimit
    <2>1. WithinReservationIn(CallsOf(day)) =< DailyLimit /\ DailyLimit \in Nat
          /\ CallsOf(day) \in SUBSET CallIds
      BY MoneyAssumption DEF BudgetInv, BudgetHolds, CallsOf
    <2>2. QED
      BY <1>4, <1>7, <2>1 DEF WithinReservationIn
  <1>10. (\E x \in CallIds : Committed(x)' > Reservation) => halted'
    <2>1. ASSUME NEW x \in CallIds, Committed(x)' > Reservation
          PROVE  halted'
      <3>1. CASE x = id
        <4>1. row.charged # Unpaid
          BY <1>1, <1>2, <1>5, <2>1, <3>1 DEF Committed
        <4>2. row.charged \in Nat /\ row.charged > Reservation
          BY <1>1, <1>2, <2>1, <3>1, <4>1 DEF Committed, CallRows
        <4>3. QED
          BY <4>2
      <3>2. CASE x # id
        <4>1. Committed(x) > Reservation
          BY <1>2, <2>1, <3>2 DEF Committed
        <4>2. QED
          BY <4>1 DEF BudgetInv, BudgetHolds
      <3>3. QED
        BY <3>1, <3>2
    <2>2. QED
      BY <2>1
  <1>11. QED
    BY <1>3, <1>8, <1>9, <1>10 DEF BudgetInv, BudgetHolds

(* Every step keeps to the budget.                                         *)
LEMMA BudgetStep ==
    ASSUME QueueInv, QueueInv', BudgetInv, [Next]_vars
    PROVE  BudgetInv'
  <1>0. TypeOK
    BY DEF QueueInv
  <1>1. ASSUME NEW w \in Workers, NEW j \in Jobs, ClaimJob(w, j)
        PROVE  BudgetInv'
    <2>1. ASSUME NEW v \in Workers, workers'[v].pc \in Flying
          PROVE  workers[v].pc \in Flying /\ CallId(v)' = CallId(v)
      <3>1. v # w
        BY <1>0, <1>1, <2>1 DEF ClaimJob, TypeOK, Flying
      <3>2. workers'[v] = workers[v]
        BY <1>0, <1>1, <3>1 DEF ClaimJob, TypeOK
      <3>3. QED
        BY <2>1, <3>2 DEF CallId
    <2>2. QED
      BY <1>1, <2>1, LedgerKeeps DEF ClaimJob
  <1>2. ASSUME NEW w \in Workers, ClaimNothing(w)
        PROVE  BudgetInv'
    BY <1>2, LedgerKeeps DEF ClaimNothing, CallId
  <1>3. ASSUME NEW w \in Workers, Lookup(w) \/ ReserveRefused(w)
        PROVE  BudgetInv'
    <2>1. workers[w] # Idle /\ UNCHANGED <<calls, halted>>
      BY <1>3, AtWork DEF Lookup, ReserveRefused, At
    <2>2. \/ Goto(w, "settle") \/ Goto(w, "reserve")
          \/ \E outcome \in {"complete", "stale", "uncertain", "budget_exhausted"} :
               FinishAs(w, outcome)
      BY <1>3 DEF Lookup, ReserveRefused
    <2>3. SameJobClaim(w, "settle") \/ SameJobClaim(w, "reserve") \/ SameJobClaim(w, "finish")
      BY <1>0, <2>1, <2>2, GotoMoves, FinishMoves DEF QueueSteps
    <2>4. QED
      BY <2>1, <2>3, ClaimedCosts DEF Flying
  <1>4. ASSUME NEW w \in Workers, Reserve(w)
        PROVE  BudgetInv'
    BY <1>4, ReserveCosts
  <1>5. ASSUME NEW w \in Workers, Send(w)
        PROVE  BudgetInv'
    <2>1. workers[w] # Idle /\ UNCHANGED <<calls, halted>> /\ workers[w].pc = "send"
      BY <1>5, AtWork DEF Send, At
    <2>2. SameJobClaim(w, "sent")
      BY <1>0, <1>5, <2>1, GotoMoves DEF Send, QueueSteps
    <2>3. QED
      BY <2>1, <2>2, ClaimedCosts DEF Flying
  <1>6. ASSUME NEW w \in Workers, NEW charge \in Charges, Complete(w, charge)
        PROVE  BudgetInv'
    <2> DEFINE old == calls[CallId(w)]
               row == [[old EXCEPT !.charged = charge] EXCEPT !.status = "complete"]
    <2>1. workers[w] # Idle /\ workers[w].pc = "sent" /\ CallId(w) \in CallIds
      BY <1>0, <1>6, AtWork, HeldClaim DEF Complete, At
    <2>2. SameJobClaim(w, "settle") /\ halted' = (halted \/ charge > Reservation)
      BY <1>0, <1>6, <2>1, GotoMoves DEF Complete, QueueSteps
    <2>3. old \in CallRows
      BY <1>0, <2>1 DEF TypeOK, BudgetInv, JobInFlight, Flying
    <2>4. /\ row \in CallRows /\ row.day = old.day /\ row.charged = charge
      BY <2>3, MoneyAssumption DEF CallRows
    <2>5. calls' = [calls EXCEPT ![CallId(w)] = row]
      <3>1. calls' = [[calls EXCEPT ![CallId(w)].charged = charge]
                        EXCEPT ![CallId(w)].status = "complete"]
        BY <1>6 DEF Complete
      <3>2. QED
        BY <1>0, <2>1, <3>1 DEF TypeOK
    <2> HIDE DEF row, old
    <2>6. QED
      BY <2>1, <2>2, <2>4, <2>5, AnswerCosts DEF old
  <1>7. ASSUME NEW w \in Workers, Fail(w)
        PROVE  BudgetInv'
    <2> DEFINE old == calls[CallId(w)]
               row == [old EXCEPT !.status = "uncertain"]
    <2>1. workers[w] # Idle /\ workers[w].pc = "sent" /\ CallId(w) \in CallIds
      BY <1>0, <1>7, AtWork, HeldClaim DEF Fail, At
    <2>2. SameJobClaim(w, "finish") /\ halted' = halted
      BY <1>0, <1>7, <2>1, FinishMoves DEF Fail
    <2>3. old \in CallRows /\ old.charged = Unpaid
      BY <1>0, <2>1 DEF TypeOK, BudgetInv, JobInFlight, Flying
    <2>4. /\ row \in CallRows /\ row.day = old.day /\ row.charged \notin Nat
      BY <2>3, MoneyAssumption DEF CallRows
    <2>5. calls' = [calls EXCEPT ![CallId(w)] = row]
      BY <1>7 DEF Fail
    <2> HIDE DEF row, old
    <2>6. QED
      BY <2>1, <2>2, <2>4, <2>5, AnswerCosts DEF old
  <1>8. ASSUME NEW w \in Workers,
               Settle(w) \/ Finish(w) \/ RetryUnsubmitted(w) \/ LookupFails(w) \/ Crash(w)
        PROVE  BudgetInv'
    <2>1. workers' = [workers EXCEPT ![w] = Idle] /\ UNCHANGED <<calls, halted>>
      BY <1>8 DEF Settle, Finish, RetryUnsubmitted, LookupFails, Crash, Written
    <2>2. QED
      BY <2>1, ReleasedCosts
  <1>9. ASSUME UNCHANGED <<calls, halted, workers>>
        PROVE  BudgetInv'
    BY <1>9, LedgerKeeps DEF CallId
  <1>10. ASSUME NEW j \in Jobs, Enqueue(j) \/ LeaseExpires(j) \/ EvidenceChanges(j)
         PROVE  BudgetInv'
    BY <1>9, <1>10 DEF Enqueue, LeaseExpires, EvidenceChanges
  <1>11. CASE DayPasses \/ UNCHANGED vars
    BY <1>9, <1>11 DEF DayPasses, vars
  <1>12. QED
    BY <1>1, <1>2, <1>3, <1>4, <1>5, <1>6, <1>7, <1>8, <1>10, <1>11 DEF Next, WorkerStep

LEMMA BudgetInit ==
    ASSUME Init
    PROVE  BudgetInv
  <1> DEFINE f == [id \in CallIds |-> WithinReservation(id)]
  <1>1. \A id \in CallIds : calls[id] = NoCall
    BY DEF Init
  <1>2. TypeOK
    BY QueueInit DEF QueueInv
  <1>3. \A id \in CallIds : f[id] = 0
    BY <1>1, <1>2, Costs
  <1> HIDE DEF f
  <1>4. ASSUME NEW ids \in SUBSET CallIds
        PROVE  WithinReservationIn(ids) = 0
    <2>1. SumFunctionOnSet(f, ids) = 0
      BY <1>3, CallIdsFinite, SumZero
    <2>2. QED
      BY <2>1 DEF f, WithinReservationIn
  <1>5. \A day : CallsOf(day) \in SUBSET CallIds
    BY DEF CallsOf
  <1>6. WithinReservationIn(CallIds) =< TotalLimit
    BY <1>4, MoneyAssumption
  <1>7. \A day \in 0 .. MaxDay : WithinReservationIn(CallsOf(day)) =< DailyLimit
    BY <1>4, <1>5, MoneyAssumption
  <1>8. \A id \in CallIds : ~(Committed(id) > Reservation)
    BY <1>1, MoneyAssumption DEF Committed
  <1>9. JobInFlight
    BY DEF Init, JobInFlight, Idle, Flying
  <1>10. QED
    BY <1>6, <1>7, <1>8, <1>9 DEF BudgetInv, BudgetHolds

(* What is committed never exceeds the total or a day's limit, but for the *)
(* excess of calls that cost more than was reserved for them, after the    *)
(* first of which nothing is reserved any more (Ledger.reserve, complete,  *)
(* fail), for every limit, reservation and price and any number of workers.*)
THEOREM BudgetIsKept == Spec => []BudgetHolds
  <1>1. Init => BudgetInv
    BY BudgetInit
  <1>2. QueueInv /\ QueueInv' /\ BudgetInv /\ [Next]_vars => BudgetInv'
    BY BudgetStep
  <1>3. BudgetInv => BudgetHolds
    BY DEF BudgetInv
  <1>4. QED
    BY <1>1, <1>2, <1>3, QueueAlways, PTL DEF Spec

-----------------------------------------------------------------------------
(* The paid evaluations.  The inductive invariant.                         *)

EvalRows == [status : {"none", "pending", "uncertain", "complete"}, charged : Bills \cup {Unsettled}]
EvalProcs == [pc : {"off", "next", "reserve", "send", "settle", "append"}, at : 0 .. Cases + 1,
              known : SUBSET (1 .. Cases), stop : BOOLEAN, charge : Bills \cup {Unsettled}]
Airborne == {"send", "settle"}

(* An evaluator that pays works on a case; its row is its own as long as   *)
(* the request is on its way, and holds the answer afterwards.             *)
EvalPlaces ==
  \A e \in Evaluators :
    /\ evals[e].pc = "next" => evals[e].at \in 1 .. Cases + 1
    /\ evals[e].pc \in {"reserve", "send", "settle", "append"} => evals[e].at \in 1 .. Cases
    /\ evals[e].pc = "append" => rows[TapedCall(e)].status = "complete"

EvalFlights ==
  \A e \in Evaluators : evals[e].pc \in Airborne =>
    /\ rows[TapedCall(e)].status = "pending"
    /\ evals[e].pc = "send" => sends[TapedCall(e)] = 0
    /\ evals[e].pc = "settle" /\ evals[e].charge # Unsettled => evals[e].charge = billed[TapedCall(e)]
    /\ \A d \in Evaluators \ {e} : evals[d].pc \in Airborne => TapedCall(d) # TapedCall(e)

(* What a row says of its call.                                            *)
EvalRowsSound ==
  \A c \in PaidCalls :
    /\ sends[c] =< 1 /\ (sends[c] = 0 => billed[c] = 0)
    /\ rows[c].status = "none" => sends[c] = 0
    /\ rows[c].status # "complete" => rows[c].charged = Unsettled
    /\ rows[c].status = "complete" => rows[c].charged = billed[c]

EvalTapesSound ==
  \A t \in Tapes, k \in 1 .. Cases : k \in tapes[t] => rows[<<t, k>>].status = "complete"

(* What the ceiling has to bear of a call.                                 *)
BoundBy(c) == IF UsedBy(c) > Amount THEN Amount ELSE UsedBy(c)
BoundSum == SumFunctionOnSet([c \in PaidCalls |-> BoundBy(c)], PaidCalls)

EvalInv ==
  /\ EvalTypeOK
  /\ EvalPlaces /\ EvalFlights /\ EvalRowsSound /\ EvalTapesSound
  /\ BoundSum =< ceiling

-----------------------------------------------------------------------------
LEMMA EvalShapes ==
    ASSUME EvalTypeOK
    PROVE  /\ Cases \in Nat /\ Amount \in Nat /\ Amount > 0 /\ ceiling \in Nat
           /\ \A c \in PaidCalls : /\ rows[c] \in EvalRows
                                   /\ rows[c].charged \in Nat \cup {Unsettled}
                                   /\ billed[c] \in Nat /\ sends[c] \in Nat
           /\ \A e \in Evaluators : /\ evals[e] \in EvalProcs /\ TapeOf[e] \in Tapes
                                    /\ evals[e].at \in 1 .. Cases => TapedCall(e) \in PaidCalls
           /\ Unsettled \notin Nat
  <1>1. /\ Cases \in Nat /\ Amount \in Nat /\ Amount > 0 /\ Bills \subseteq Nat /\ Unsettled \notin Nat
    BY EvaluationAssumption DEF Unsettled
  <1>2. \A e \in Evaluators : /\ evals[e] \in EvalProcs /\ TapeOf[e] \in Tapes
                              /\ evals[e].at \in 1 .. Cases => TapedCall(e) \in PaidCalls
    BY DEF EvalTypeOK, EvalProcs, Tapes, TapedCall, PaidCalls
  <1>3. \A c \in PaidCalls : /\ rows[c] \in EvalRows
                             /\ rows[c].charged \in Nat \cup {Unsettled}
                             /\ billed[c] \in Nat /\ sends[c] \in Nat
    BY <1>1 DEF EvalTypeOK, EvalRows
  <1>4. QED
    BY <1>1, <1>2, <1>3 DEF EvalTypeOK

LEMMA PaidCallsFinite == IsFiniteSet(PaidCalls)
  <1>1. IsFiniteSet(Evaluators) /\ 1 \in Int /\ Cases \in Int
    BY EvaluationAssumption
  <1>2. IsFiniteSet(Tapes)
    <2> DEFINE f == [e \in Evaluators |-> TapeOf[e]]
    <2>1. f \in Surjection(Evaluators, Tapes)
      BY DEF Surjection, Tapes
    <2>2. QED
      BY <1>1, <2>1, FS_Surjection
  <1>3. IsFiniteSet(1 .. Cases)
    BY <1>1, FS_Interval
  <1>4. QED
    BY <1>2, <1>3, FS_Product DEF PaidCalls

LEMMA EvalCosts ==
    ASSUME EvalTypeOK, NEW c \in PaidCalls
    PROVE  /\ UsedBy(c) \in Nat /\ BoundBy(c) \in Nat
           /\ BoundBy(c) =< UsedBy(c) /\ BoundBy(c) =< Amount
           /\ rows[c].status = "none" => BoundBy(c) = 0
           /\ rows[c].status # "none" /\ rows[c].charged = Unsettled => BoundBy(c) = Amount
  <1>1. UsedBy(c) \in Nat /\ Amount \in Nat
    BY EvalShapes DEF UsedBy
  <1>2. QED
    BY <1>1 DEF BoundBy, UsedBy

LEMMA EvalCostsAfter ==
    ASSUME EvalTypeOK', NEW c \in PaidCalls
    PROVE  /\ BoundBy(c)' \in Nat /\ BoundBy(c)' =< Amount
  <1>1. rows'[c].charged \in Bills \cup {Unsettled} /\ Bills \subseteq Nat /\ Amount \in Nat
    BY EvaluationAssumption DEF EvalTypeOK
  <1>2. UsedBy(c)' \in Nat
    BY <1>1 DEF UsedBy
  <1>3. QED
    BY <1>1, <1>2 DEF BoundBy

LEMMA BoundSumShape ==
    ASSUME EvalTypeOK
    PROVE  BoundSum \in Nat /\ Used \in Nat /\ BoundSum =< Used
  <1> DEFINE f == [c \in PaidCalls |-> BoundBy(c)]
             g == [c \in PaidCalls |-> UsedBy(c)]
  <1>1. \A c \in PaidCalls : f[c] \in Nat /\ g[c] \in Nat /\ f[c] =< g[c]
    BY EvalCosts
  <1> HIDE DEF f, g
  <1>2. /\ SumFunctionOnSet(f, PaidCalls) \in Nat /\ SumFunctionOnSet(g, PaidCalls) \in Nat
        /\ SumFunctionOnSet(f, PaidCalls) =< SumFunctionOnSet(g, PaidCalls)
    BY <1>1, PaidCallsFinite, SumType, SumMonotone
  <1>3. QED
    BY <1>2 DEF f, g, BoundSum, Used

LEMMA BoundSumChanged ==
    ASSUME EvalTypeOK, EvalTypeOK', NEW c \in PaidCalls,
           \A d \in PaidCalls : d # c => rows'[d] = rows[d]
    PROVE  BoundSum' = BoundSum - BoundBy(c) + BoundBy(c)'
  <1> DEFINE f == [x \in PaidCalls |-> BoundBy(x)]
             g == [x \in PaidCalls |-> BoundBy(x)']
  <1>1. \A x \in PaidCalls : f[x] \in Nat /\ g[x] \in Nat
    BY EvalCosts, EvalCostsAfter
  <1>2. \A x \in PaidCalls : x # c => g[x] = f[x]
    BY DEF BoundBy, UsedBy
  <1>3. BoundSum = SumFunctionOnSet(f, PaidCalls) /\ BoundSum' = SumFunctionOnSet(g, PaidCalls)
    BY DEF BoundSum
  <1>4. f[c] = BoundBy(c) /\ g[c] = BoundBy(c)'
    OBVIOUS
  <1> HIDE DEF f, g
  <1>5. QED
    BY <1>1, <1>2, <1>3, <1>4, PaidCallsFinite, SumOneChanged

(* What the evaluators hold when only e moves on.                          *)
Moved(e, pc, at) ==
    /\ evals' \in [Evaluators -> EvalProcs]
    /\ \A d \in Evaluators \ {e} : evals'[d] = evals[d]
    /\ evals'[e].pc = pc /\ evals'[e].at = at

LEMMA GotoMoved ==
    ASSUME EvalTypeOK, NEW e \in Evaluators,
           NEW pc \in {"off", "next", "reserve", "send", "settle", "append"}, EvalGoto(e, pc)
    PROVE  Moved(e, pc, evals[e].at)
  <1> DEFINE r == [evals[e] EXCEPT !.pc = pc]
  <1>1. evals[e] \in EvalProcs
    BY EvalShapes
  <1>2. r \in EvalProcs /\ r.pc = pc /\ r.at = evals[e].at
    BY <1>1 DEF EvalProcs
  <1>3. evals' = [evals EXCEPT ![e] = r]
    BY DEF EvalGoto
  <1> HIDE DEF r
  <1>4. QED
    BY <1>2, <1>3 DEF Moved, EvalTypeOK, EvalProcs

LEMMA SkipMoved ==
    ASSUME EvalTypeOK, NEW e \in Evaluators, NEW stop \in BOOLEAN, Skip(e, stop),
           evals[e].at \in 1 .. Cases
    PROVE  Moved(e, "next", evals[e].at + 1)
  <1> DEFINE halt == (evals[e].stop \/ stop)
             r == [pc |-> "next", at |-> evals[e].at + 1, known |-> evals[e].known,
                   stop |-> halt, charge |-> Unsettled]
  <1>1. evals[e] \in EvalProcs /\ evals[e].at + 1 \in 0 .. Cases + 1
    BY EvalShapes
  <1>2. halt \in BOOLEAN /\ evals[e].known \in SUBSET (1 .. Cases)
    BY <1>1 DEF EvalProcs
  <1>3. evals' = [evals EXCEPT ![e] = r]
    BY DEF Skip
  <1> HIDE DEF halt
  <1>4. r \in EvalProcs /\ r.pc = "next" /\ r.at = evals[e].at + 1
    BY <1>1, <1>2 DEF EvalProcs
  <1> HIDE DEF r
  <1>5. QED
    BY <1>3, <1>4 DEF Moved, EvalTypeOK, EvalProcs

LEMMA RestartMoved ==
    ASSUME EvalTypeOK, NEW e \in Evaluators, NEW r \in EvalProcs,
           evals' = [evals EXCEPT ![e] = r]
    PROVE  Moved(e, r.pc, r.at)
  BY DEF Moved, EvalTypeOK, EvalProcs

LEMMA OffTyped ==
    /\ Off \in EvalProcs /\ Off.pc = "off"
    /\ \A known \in SUBSET (1 .. Cases) :
         LET r == [Off EXCEPT !.pc = "next", !.at = 1, !.known = known]
         IN  r \in EvalProcs /\ r.pc = "next" /\ r.at = 1
  <1>1. Cases \in Nat
    BY EvaluationAssumption
  <1>2. Off \in EvalProcs /\ Off.pc = "off"
    BY <1>1 DEF Off, EvalProcs
  <1>3. ASSUME NEW known \in SUBSET (1 .. Cases)
        PROVE  LET r == [Off EXCEPT !.pc = "next", !.at = 1, !.known = known]
               IN  r \in EvalProcs /\ r.pc = "next" /\ r.at = 1
    <2> DEFINE r1 == [Off EXCEPT !.pc = "next"]
               r2 == [r1 EXCEPT !.at = 1]
               r3 == [r2 EXCEPT !.known = known]
    <2>1. r1 \in EvalProcs /\ r1.pc = "next"
      BY <1>2 DEF EvalProcs
    <2> HIDE DEF r1
    <2>2. r2 \in EvalProcs /\ r2.pc = "next" /\ r2.at = 1
      BY <1>1, <2>1 DEF EvalProcs
    <2> HIDE DEF r2
    <2>3. r3 \in EvalProcs /\ r3.pc = "next" /\ r3.at = 1
      BY <2>2 DEF EvalProcs
    <2>4. QED
      BY <2>3 DEF r1, r2
  <1>4. QED
    BY <1>2, <1>3

-----------------------------------------------------------------------------
(* A step that leaves the rows, the bills and the tapes alone.             *)
LEMMA EvalQuiet ==
    ASSUME EvalInv, NEW e \in Evaluators, NEW pc \in {"off", "next", "reserve", "append"}, NEW at,
           Moved(e, pc, at),
           pc = "next" => at \in 1 .. Cases + 1,
           pc \in {"reserve", "append"} => at \in 1 .. Cases,
           pc = "append" => rows[<<TapeOf[e], at>>].status = "complete",
           UNCHANGED <<evalHalted, rows, tapes, billed, sends>>,
           ceiling' \in Nat, ceiling =< ceiling', evalCrashes' \in 0 .. MaxEvalCrashes
    PROVE  EvalInv'
  <1>1. EvalTypeOK'
    BY DEF EvalInv, EvalTypeOK, Moved, EvalProcs
  <1>2. ASSUME NEW d \in Evaluators \ {e}
        PROVE  evals'[d] = evals[d] /\ TapedCall(d)' = TapedCall(d)
    BY DEF Moved, TapedCall
  <1>3. evals'[e].pc = pc /\ evals'[e].at = at /\ TapedCall(e)' = <<TapeOf[e], at>>
        /\ pc \notin Airborne
    BY DEF Moved, TapedCall, Airborne
  <1>4. EvalPlaces'
    BY <1>2, <1>3 DEF EvalInv, EvalPlaces
  <1>5. EvalFlights'
    BY <1>2, <1>3 DEF EvalInv, EvalFlights
  <1>6. EvalRowsSound' /\ EvalTapesSound'
    BY DEF EvalInv, EvalRowsSound, EvalTapesSound
  <1>7. BoundSum' =< ceiling'
    <2>1. BoundSum' = BoundSum
      BY DEF BoundSum, BoundBy, UsedBy
    <2>2. BoundSum \in Nat /\ BoundSum =< ceiling /\ ceiling \in Nat
      BY BoundSumShape DEF EvalInv, EvalTypeOK
    <2>3. QED
      BY <2>1, <2>2
  <1>8. QED
    BY <1>1, <1>4, <1>5, <1>6, <1>7 DEF EvalInv

LEMMA EvalOpenInv == ASSUME EvalInv, NEW e \in Evaluators, OpenLedger(e) PROVE EvalInv'
  <1> DEFINE r == [Off EXCEPT !.pc = "next", !.at = 1, !.known = tapes[TapeOf[e]]]
  <1>1. EvalTypeOK /\ Cases \in Nat /\ ceiling \in Nat /\ TapeOf[e] \in Tapes
    BY EvalShapes DEF EvalInv
  <1>2. r \in EvalProcs /\ r.pc = "next" /\ r.at = 1
    BY <1>1, OffTyped DEF EvalTypeOK
  <1>3. /\ evals' = [evals EXCEPT ![e] = r] /\ ceiling \in {0, BudgetOf[e]} /\ ceiling' = BudgetOf[e]
        /\ UNCHANGED <<evalHalted, rows, tapes, billed, sends, evalCrashes>>
    BY DEF OpenLedger
  <1> HIDE DEF r
  <1>4. Moved(e, "next", 1)
    BY <1>1, <1>2, <1>3, RestartMoved
  <1>5. BudgetOf[e] \in Nat
    BY EvaluationAssumption
  <1>6. evalCrashes' \in 0 .. MaxEvalCrashes
    BY <1>1, <1>3 DEF EvalTypeOK
  <1>7. ceiling' \in Nat /\ ceiling =< ceiling' /\ 1 \in 1 .. Cases + 1
    BY <1>1, <1>3, <1>5
  <1>8. QED
    BY <1>3, <1>4, <1>6, <1>7, EvalQuiet

LEMMA EvalStopInv ==
    ASSUME EvalInv, NEW e \in Evaluators, evals' = [evals EXCEPT ![e] = Off],
           UNCHANGED <<ceiling, evalHalted, rows, tapes, billed, sends>>,
           evalCrashes' \in 0 .. MaxEvalCrashes
    PROVE  EvalInv'
  <1>1. Moved(e, "off", Off.at) /\ ceiling \in Nat
    BY OffTyped, RestartMoved, EvalShapes DEF EvalInv
  <1>2. ceiling' \in Nat /\ ceiling =< ceiling'
    BY <1>1
  <1>3. QED
    BY <1>1, <1>2, EvalQuiet

LEMMA EvalLookUpInv == ASSUME EvalInv, NEW e \in Evaluators, LookUpCase(e) PROVE EvalInv'
  <1>1. /\ EvalTypeOK /\ Cases \in Nat /\ ceiling \in Nat /\ evals[e].at \in 1 .. Cases + 1
        /\ evalCrashes \in 0 .. MaxEvalCrashes
    BY EvalShapes DEF EvalInv, EvalTypeOK, EvalPlaces, LookUpCase
  <1>2. UNCHANGED <<ceiling, evalHalted, rows, tapes, billed, sends, evalCrashes>>
        /\ ceiling' \in Nat /\ ceiling =< ceiling'
    BY <1>1 DEF LookUpCase
  <1>3. CASE evals[e].at > Cases
    BY <1>1, <1>2, <1>3, EvalStopInv DEF LookUpCase
  <1>4. CASE ~(evals[e].at > Cases) /\ Skip(e, FALSE)
    <2>1. evals[e].at \in 1 .. Cases /\ evals[e].at + 1 \in 1 .. Cases + 1
      BY <1>1, <1>4
    <2>2. Moved(e, "next", evals[e].at + 1)
      BY <1>1, <1>4, <2>1, SkipMoved
    <2>3. QED
      BY <1>1, <1>2, <2>1, <2>2, EvalQuiet
  <1>5. CASE ~(evals[e].at > Cases) /\ EvalGoto(e, "reserve")
    <2>1. evals[e].at \in 1 .. Cases
      BY <1>1, <1>5
    <2>2. Moved(e, "reserve", evals[e].at)
      BY <1>1, <1>5, GotoMoved
    <2>3. QED
      BY <1>1, <1>2, <2>1, <2>2, EvalQuiet
  <1>6. QED
    BY <1>3, <1>4, <1>5 DEF LookUpCase

(* A row changes, that of the evaluator's own call.                        *)
LEMMA EvalRowStep ==
    ASSUME EvalInv, NEW e \in Evaluators, NEW c \in PaidCalls, c = TapedCall(e),
           evals[e].at \in 1 .. Cases,
           NEW pc \in {"next", "send", "append"}, NEW at, Moved(e, pc, at),
           at = IF pc = "next" THEN evals[e].at + 1 ELSE evals[e].at,
           NEW row \in EvalRows, rows' = [rows EXCEPT ![c] = row],
           rows[c].status # "complete",
           \A d \in Evaluators \ {e} : evals[d].pc \in Airborne => TapedCall(d) # c,
           pc = "append" => row.status = "complete",
           pc = "send" => row.status = "pending" /\ sends[c] = 0,
           row.status = "none" => sends[c] = 0,
           row.status # "complete" => row.charged = Unsettled,
           row.status = "complete" => row.charged = billed[c],
           BoundSum - BoundBy(c) + (IF row.status = "none" THEN 0 ELSE Amount) =< ceiling,
           evalHalted' \in BOOLEAN,
           UNCHANGED <<ceiling, tapes, billed, sends, evalCrashes>>
    PROVE  EvalInv'
  <1>0. EvalTypeOK /\ Cases \in Nat /\ Amount \in Nat /\ ceiling \in Nat /\ evals[e].at \in Nat
    BY EvalShapes DEF EvalInv
  <1>1. EvalTypeOK'
    <2>1. rows' \in [PaidCalls -> EvalRows]
      BY <1>0 DEF EvalTypeOK, EvalRows
    <2>2. QED
      BY <2>1 DEF EvalInv, EvalTypeOK, Moved, EvalRows, EvalProcs
  <1>2. /\ rows'[c] = row /\ \A d \in PaidCalls : d # c => rows'[d] = rows[d]
    BY <1>0 DEF EvalTypeOK
  <1>3. ASSUME NEW d \in Evaluators \ {e}
        PROVE  evals'[d] = evals[d] /\ TapedCall(d)' = TapedCall(d)
    BY DEF Moved, TapedCall
  <1>4. evals'[e].pc = pc /\ evals'[e].at = at
        /\ (pc # "next" => TapedCall(e)' = c)
    BY DEF Moved, TapedCall
  <1>5. EvalPlaces'
    <2>1. ASSUME NEW d \in Evaluators \ {e}, evals[d].pc = "append"
          PROVE  rows'[TapedCall(d)].status = "complete"
      <3>1. TapedCall(d) \in PaidCalls /\ rows[TapedCall(d)].status = "complete"
        BY <1>0, <2>1, EvalShapes DEF EvalInv, EvalPlaces
      <3>2. TapedCall(d) # c
        BY <3>1
      <3>3. QED
        BY <1>2, <3>1, <3>2
    <2>2. pc = "next" => at \in 1 .. Cases + 1
      BY <1>0
    <2>3. pc # "next" => at \in 1 .. Cases
      OBVIOUS
    <2>4. pc = "append" => rows'[TapedCall(e)'].status = "complete"
      BY <1>2, <1>4
    <2>5. QED
      BY <1>3, <1>4, <2>1, <2>2, <2>3, <2>4 DEF EvalInv, EvalPlaces
  <1>6. EvalFlights'
    <2>1. ASSUME NEW d \in Evaluators \ {e}, evals[d].pc \in Airborne
          PROVE  TapedCall(d) # c /\ rows'[TapedCall(d)] = rows[TapedCall(d)]
      <3>1. TapedCall(d) \in PaidCalls
        BY <1>0, <2>1, EvalShapes DEF EvalInv, EvalPlaces, Airborne
      <3>2. QED
        BY <1>2, <2>1, <3>1
    <2>2. QED
      BY <1>2, <1>3, <1>4, <2>1 DEF EvalInv, EvalFlights, Airborne
  <1>7. EvalRowsSound'
    BY <1>2 DEF EvalInv, EvalRowsSound
  <1>8. EvalTapesSound'
    <2>1. ASSUME NEW t \in Tapes, NEW k \in 1 .. Cases, k \in tapes[t]
          PROVE  rows'[<<t, k>>].status = "complete"
      <3>1. <<t, k>> \in PaidCalls /\ rows[<<t, k>>].status = "complete"
        BY <2>1 DEF EvalInv, EvalTapesSound, PaidCalls
      <3>2. <<t, k>> # c
        BY <3>1
      <3>3. QED
        BY <1>2, <3>1, <3>2
    <2>2. QED
      BY <2>1 DEF EvalTapesSound
  <1>9. BoundSum' =< ceiling'
    <2>1. BoundSum' = BoundSum - BoundBy(c) + BoundBy(c)'
      BY <1>0, <1>1, <1>2, BoundSumChanged
    <2>2. BoundBy(c)' \in Nat /\ BoundBy(c)' =< Amount /\ BoundBy(c) \in Nat /\ BoundSum \in Nat
      BY <1>0, <1>1, EvalCosts, EvalCostsAfter, BoundSumShape
    <2>3. row.status = "none" => BoundBy(c)' = 0
      BY <1>0, <1>2 DEF BoundBy, UsedBy
    <2>4. QED
      BY <1>0, <2>1, <2>2, <2>3
  <1>10. QED
    BY <1>1, <1>5, <1>6, <1>7, <1>8, <1>9 DEF EvalInv

(* A reservation is made for a call that has no row, and where it fits.    *)
LEMMA EvalReserveInv == ASSUME EvalInv, NEW e \in Evaluators, ReserveCall(e) PROVE EvalInv'
  <1> DEFINE c == TapedCall(e)
             row == [status |-> "pending", charged |-> Unsettled]
  <1>1. /\ EvalTypeOK /\ Cases \in Nat /\ ceiling \in Nat /\ evals[e].at \in 1 .. Cases
        /\ c \in PaidCalls /\ evalCrashes \in 0 .. MaxEvalCrashes /\ Amount \in Nat
    BY EvalShapes DEF EvalInv, EvalTypeOK, EvalPlaces, ReserveCall
  <1>2. UNCHANGED <<ceiling, evalHalted, tapes, billed, sends, evalCrashes>>
        /\ ceiling' \in Nat /\ ceiling =< ceiling' /\ evals[e].at + 1 \in 1 .. Cases + 1
    BY <1>1 DEF ReserveCall
  <1>3. CASE rows[c].status = "complete" /\ EvalGoto(e, "append") /\ UNCHANGED rows
    <2>1. Moved(e, "append", evals[e].at) /\ c = <<TapeOf[e], evals[e].at>>
      BY <1>1, <1>3, GotoMoved DEF TapedCall
    <2>2. QED
      BY <1>1, <1>2, <1>3, <2>1, EvalQuiet
  <1>4. CASE Skip(e, TRUE) /\ UNCHANGED rows
    <2>1. Moved(e, "next", evals[e].at + 1)
      BY <1>1, <1>4, SkipMoved
    <2>2. QED
      BY <1>1, <1>2, <1>4, <2>1, EvalQuiet
  <1>5. CASE /\ Retryable(rows[c]) /\ Used + Amount =< ceiling
             /\ rows' = [rows EXCEPT ![c] = row] /\ EvalGoto(e, "send")
    <2>1. Moved(e, "send", evals[e].at)
      BY <1>1, <1>5, GotoMoved
    <2>2. rows[c].status = "none" /\ sends[c] = 0
      BY <1>1, <1>5 DEF Retryable, EvalInv, EvalRowsSound
    <2>3. row \in EvalRows /\ row.status = "pending" /\ row.charged = Unsettled
      BY DEF EvalRows
    <2>4. \A d \in Evaluators \ {e} : evals[d].pc \in Airborne => TapedCall(d) # c
      BY <2>2 DEF EvalInv, EvalFlights
    <2>5. BoundSum - BoundBy(c) + Amount =< ceiling
      <3>1. BoundBy(c) = 0 /\ BoundSum \in Nat /\ Used \in Nat /\ BoundSum =< Used
        BY <1>1, <2>2, EvalCosts, BoundSumShape
      <3>2. QED
        BY <1>1, <1>5, <3>1
    <2>6. evalHalted' \in BOOLEAN
      BY <1>1, <1>2 DEF EvalTypeOK
    <2> HIDE DEF row, c
    <2>7. QED
      BY <1>1, <1>2, <1>5, <2>1, <2>2, <2>3, <2>4, <2>5, <2>6, EvalRowStep DEF c
  <1>6. QED
    BY <1>3, <1>4, <1>5 DEF ReserveCall

(* The request goes out once, and what it costs is known to the provider.  *)
LEMMA EvalSendInv == ASSUME EvalInv, NEW e \in Evaluators, SendCall(e) PROVE EvalInv'
  <1>1. PICK c : c = TapedCall(e)
    OBVIOUS
  <1>2. PICK r \in Replies :
          /\ sends' = [sends EXCEPT ![c] = @ + 1] /\ billed' = [billed EXCEPT ![c] = @ + r.bill]
          /\ evals' = [evals EXCEPT ![e].pc = "settle", ![e].charge = r.charge]
    BY <1>1 DEF SendCall
  <1>3. /\ EvalTypeOK /\ evals[e].pc = "send" /\ evals[e].at \in 1 .. Cases /\ c \in PaidCalls
        /\ sends[c] = 0 /\ billed[c] = 0 /\ rows[c].status = "pending" /\ evals[e] \in EvalProcs
    BY <1>1, EvalShapes DEF EvalInv, EvalPlaces, EvalFlights, EvalRowsSound, Airborne, SendCall
  <1>4. UNCHANGED <<ceiling, evalHalted, rows, tapes, evalCrashes>>
    BY DEF SendCall
  <1>5. r.bill \in Nat /\ r.charge \in Bills \cup {Unsettled} /\ r.charge \in {Unsettled, r.bill}
    <2>1. Bills \subseteq Nat
      BY EvaluationAssumption
    <2>2. QED
      BY <2>1 DEF Replies
  <1>6. /\ sends'[c] = 1 /\ billed'[c] = r.bill
        /\ \A d \in PaidCalls : d # c => sends'[d] = sends[d] /\ billed'[d] = billed[d]
        /\ sends' \in [PaidCalls -> Nat] /\ billed' \in [PaidCalls -> Nat]
    BY <1>2, <1>3, <1>5 DEF EvalTypeOK
  <1>7. /\ evals' \in [Evaluators -> EvalProcs]
        /\ \A d \in Evaluators \ {e} : evals'[d] = evals[d]
        /\ evals'[e].pc = "settle" /\ evals'[e].at = evals[e].at /\ evals'[e].charge = r.charge
    <2> DEFINE p1 == [evals[e] EXCEPT !.pc = "settle"]
               p2 == [p1 EXCEPT !.charge = r.charge]
    <2>1. evals' = [evals EXCEPT ![e] = p2]
      <3>1. evals' = [[evals EXCEPT ![e].pc = "settle"] EXCEPT ![e].charge = r.charge]
        BY <1>2
      <3>2. QED
        BY <1>3, <3>1 DEF EvalTypeOK
    <2>2. p1 \in EvalProcs /\ p1.pc = "settle" /\ p1.at = evals[e].at
      BY <1>3 DEF EvalProcs
    <2> HIDE DEF p1
    <2>3. p2 \in EvalProcs /\ p2.pc = "settle" /\ p2.at = evals[e].at /\ p2.charge = r.charge
      BY <1>5, <2>2 DEF EvalProcs
    <2> HIDE DEF p2
    <2>4. QED
      BY <1>3, <2>1, <2>3 DEF EvalTypeOK, EvalProcs
  <1>8. EvalTypeOK'
    BY <1>3, <1>4, <1>6, <1>7 DEF EvalTypeOK, EvalProcs
  <1>9. /\ \A d \in Evaluators : TapedCall(d)' = TapedCall(d)
    BY <1>7 DEF TapedCall
  <1>10. EvalPlaces'
    BY <1>3, <1>4, <1>7, <1>9 DEF EvalInv, EvalPlaces
  <1>11. EvalFlights'
    <2>1. ASSUME NEW d \in Evaluators \ {e}, evals[d].pc \in Airborne
          PROVE  /\ TapedCall(d) # c /\ sends'[TapedCall(d)] = sends[TapedCall(d)]
                 /\ billed'[TapedCall(d)] = billed[TapedCall(d)]
      <3>1. TapedCall(d) # c
        BY <1>1, <1>3, <2>1 DEF EvalInv, EvalFlights, Airborne
      <3>2. TapedCall(d) \in PaidCalls
        BY <1>3, <2>1, EvalShapes DEF EvalInv, EvalPlaces, Airborne
      <3>3. QED
        BY <1>6, <3>1, <3>2
    <2>2. QED
      BY <1>1, <1>3, <1>4, <1>5, <1>6, <1>7, <1>9, <2>1 DEF EvalInv, EvalFlights, Airborne
  <1>12. EvalRowsSound'
    <2>1. ASSUME NEW d \in PaidCalls
          PROVE  /\ sends'[d] =< 1 /\ (sends'[d] = 0 => billed'[d] = 0)
                 /\ rows[d].status = "none" => sends'[d] = 0
                 /\ rows[d].status # "complete" => rows[d].charged = Unsettled
                 /\ rows[d].status = "complete" => rows[d].charged = billed'[d]
      <3>1. CASE d = c
        BY <1>3, <1>6, <3>1 DEF EvalInv, EvalRowsSound
      <3>2. CASE d # c
        BY <1>6, <3>2 DEF EvalInv, EvalRowsSound
      <3>3. QED
        BY <3>1, <3>2
    <2>2. QED
      BY <1>4, <2>1 DEF EvalRowsSound
  <1>13. EvalTapesSound' /\ BoundSum' =< ceiling'
    BY <1>4 DEF EvalInv, EvalTapesSound, BoundSum, BoundBy, UsedBy
  <1>14. QED
    BY <1>8, <1>10, <1>11, <1>12, <1>13 DEF EvalInv

(* The answer, or its absence, takes the place of the reservation.         *)
LEMMA EvalSettleInv ==
    ASSUME EvalInv, NEW e \in Evaluators, CompleteCall(e) \/ FailCall(e)
    PROVE  EvalInv'
  <1>1. PICK c : c = TapedCall(e)
    OBVIOUS
  <1>2. /\ EvalTypeOK /\ evals[e].pc = "settle" /\ evals[e].at \in 1 .. Cases /\ c \in PaidCalls
        /\ rows[c].status = "pending" /\ rows[c].charged = Unsettled /\ rows[c] \in EvalRows
        /\ Cases \in Nat /\ Amount \in Nat /\ ceiling \in Nat /\ evals[e] \in EvalProcs
        /\ \A d \in Evaluators \ {e} : evals[d].pc \in Airborne => TapedCall(d) # c
    BY <1>1, EvalShapes DEF EvalInv, EvalPlaces, EvalFlights, EvalRowsSound, Airborne, CompleteCall, FailCall
  <1>3. BoundSum - BoundBy(c) + Amount =< ceiling
    <2>1. BoundBy(c) = Amount /\ BoundSum \in Nat /\ BoundSum =< ceiling
      BY <1>2, EvalCosts, BoundSumShape DEF EvalInv
    <2>2. QED
      BY <1>2, <2>1
  <1>4. CASE CompleteCall(e)
    <2> DEFINE row == [status |-> "complete", charged |-> evals[e].charge]
    <2>1. /\ rows' = [rows EXCEPT ![c] = row] /\ evals[e].charge # Unsettled
          /\ UNCHANGED <<ceiling, tapes, billed, sends, evalCrashes>> /\ evalHalted' \in BOOLEAN
      BY <1>1, <1>4 DEF CompleteCall
    <2>2. row \in EvalRows /\ row.status = "complete" /\ row.charged = evals[e].charge
      BY <1>2 DEF EvalRows, EvalProcs
    <2>3. evals[e].charge = billed[c]
      BY <1>1, <1>2, <2>1 DEF EvalInv, EvalFlights, Airborne
    <2>4. Moved(e, "append", evals[e].at)
      BY <1>2, <1>4, GotoMoved DEF CompleteCall
    <2> HIDE DEF row
    <2>5. QED
      BY <1>1, <1>2, <1>3, <2>1, <2>2, <2>3, <2>4, EvalRowStep
  <1>5. CASE FailCall(e)
    <2> DEFINE row == [rows[c] EXCEPT !.status = "uncertain"]
    <2>1. /\ rows' = [rows EXCEPT ![c] = row]
          /\ UNCHANGED <<ceiling, evalHalted, tapes, billed, sends, evalCrashes>>
      <3>1. rows' = [rows EXCEPT ![c].status = IF @ = "pending" THEN "uncertain" ELSE @]
        BY <1>1, <1>5 DEF FailCall
      <3>2. QED
        BY <1>2, <1>5, <3>1 DEF FailCall, EvalTypeOK
    <2>2. row \in EvalRows /\ row.status = "uncertain" /\ row.charged = Unsettled
      BY <1>2 DEF EvalRows
    <2>3. evalHalted' \in BOOLEAN
      BY <1>2, <2>1 DEF EvalTypeOK
    <2>4. Moved(e, "next", evals[e].at + 1)
      BY <1>2, <1>5, SkipMoved DEF FailCall
    <2> HIDE DEF row
    <2>5. QED
      BY <1>1, <1>2, <1>3, <2>1, <2>2, <2>3, <2>4, EvalRowStep
  <1>6. QED
    BY <1>4, <1>5

LEMMA EvalAppendInv == ASSUME EvalInv, NEW e \in Evaluators, AppendCall(e) PROVE EvalInv'
  <1>1. /\ EvalTypeOK /\ evals[e].at \in 1 .. Cases /\ rows[TapedCall(e)].status = "complete"
        /\ Cases \in Nat /\ TapeOf[e] \in Tapes /\ evals[e].at + 1 \in 1 .. Cases + 1
    BY EvalShapes DEF EvalInv, EvalPlaces, AppendCall
  <1>2. /\ tapes' = [tapes EXCEPT ![TapeOf[e]] = @ \cup {evals[e].at}]
        /\ UNCHANGED <<ceiling, evalHalted, rows, billed, sends, evalCrashes>>
        /\ Moved(e, "next", evals[e].at + 1)
    BY <1>1, SkipMoved DEF AppendCall, AppendKept
  <1>3. tapes' \in [Tapes -> SUBSET (1 .. Cases)]
    BY <1>1, <1>2 DEF EvalTypeOK
  <1>4. EvalTypeOK'
    BY <1>1, <1>2, <1>3 DEF EvalTypeOK, Moved, EvalProcs
  <1>5. ASSUME NEW d \in Evaluators \ {e}
        PROVE  evals'[d] = evals[d] /\ TapedCall(d)' = TapedCall(d)
    BY <1>2 DEF Moved, TapedCall
  <1>6. evals'[e].pc = "next" /\ evals'[e].at = evals[e].at + 1
    BY <1>2 DEF Moved
  <1>7. EvalPlaces' /\ EvalFlights'
    BY <1>1, <1>2, <1>5, <1>6 DEF EvalInv, EvalPlaces, EvalFlights, Airborne
  <1>8. EvalRowsSound' /\ BoundSum' =< ceiling'
    BY <1>2 DEF EvalInv, EvalRowsSound, BoundSum, BoundBy, UsedBy
  <1>9. EvalTapesSound'
    BY <1>1, <1>2 DEF EvalInv, EvalTypeOK, EvalTapesSound, TapedCall
  <1>10. QED
    BY <1>4, <1>7, <1>8, <1>9 DEF EvalInv

LEMMA EvalCrashInv == ASSUME EvalInv, NEW e \in Evaluators, CrashEval(e) PROVE EvalInv'
  <1>1. evalCrashes' \in 0 .. MaxEvalCrashes
    BY EvaluationAssumption DEF EvalInv, EvalTypeOK, CrashEval
  <1>2. QED
    BY <1>1, EvalStopInv DEF CrashEval

LEMMA EvalInitInv == EvalInit => EvalInv
  <1> SUFFICES ASSUME EvalInit PROVE EvalInv
    OBVIOUS
  <1> DEFINE f == [c \in PaidCalls |-> BoundBy(c)]
  <1>1. Off \in EvalProcs /\ NoRow \in EvalRows
    BY OffTyped DEF NoRow, EvalRows
  <1>2. EvalTypeOK
    <2>1. rows \in [PaidCalls -> EvalRows] /\ evals \in [Evaluators -> EvalProcs]
      BY <1>1 DEF EvalInit
    <2>2. /\ tapes \in [Tapes -> SUBSET (1 .. Cases)]
          /\ billed \in [PaidCalls -> Nat] /\ sends \in [PaidCalls -> Nat]
      BY DEF EvalInit
    <2>3. evalHalted \in BOOLEAN
      BY Zenon DEF EvalInit
    <2>4. ceiling = 0 /\ evalCrashes = 0
      BY Zenon DEF EvalInit
    <2>5. ceiling \in Nat /\ evalCrashes \in 0 .. MaxEvalCrashes
      <3>1. MaxEvalCrashes \in Nat
        BY EvaluationAssumption
      <3> HIDE DEF f
      <3>2. QED
        BY <3>1, <2>4
    <2>6. QED
      BY <2>1, <2>2, <2>3, <2>5 DEF EvalTypeOK, EvalProcs, EvalRows
  <1>3. EvalPlaces /\ EvalFlights
    BY OffTyped DEF EvalInit, EvalPlaces, EvalFlights, Airborne
  <1>4. EvalRowsSound /\ EvalTapesSound
    BY DEF EvalInit, EvalRowsSound, EvalTapesSound, NoRow
  <1>5. \A c \in PaidCalls : f[c] = 0
    BY <1>2, EvalCosts DEF EvalInit, NoRow
  <1> HIDE DEF f
  <1>6. SumFunctionOnSet(f, PaidCalls) = 0
    BY <1>5, PaidCallsFinite, SumZero
  <1>7. BoundSum =< ceiling
    BY <1>6 DEF f, BoundSum, EvalInit
  <1>8. QED
    BY <1>2, <1>3, <1>4, <1>7 DEF EvalInv

LEMMA EvalStepInv == EvalInv /\ [EvalNext]_evalVars => EvalInv'
  <1> SUFFICES ASSUME EvalInv, [EvalNext]_evalVars PROVE EvalInv'
    OBVIOUS
  <1>1. ASSUME NEW e \in Evaluators, EvalWork(e) \/ CrashEval(e)
        PROVE  EvalInv'
    BY <1>1, EvalOpenInv, EvalLookUpInv, EvalReserveInv, EvalSendInv, EvalSettleInv, EvalAppendInv,
       EvalCrashInv DEF EvalWork
  <1>2. CASE UNCHANGED evalVars
    <2>1. UNCHANGED <<ceiling, evalHalted, rows, tapes, evals, billed, sends, evalCrashes>>
      BY <1>2 DEF evalVars
    <2>2. EvalTypeOK'
      BY <2>1 DEF EvalInv, EvalTypeOK
    <2>3. QED
      BY <2>1, <2>2 DEF EvalInv, EvalPlaces, EvalFlights, EvalRowsSound, EvalTapesSound, TapedCall,
             BoundSum, BoundBy, UsedBy
  <1>3. QED
    BY <1>1, <1>2 DEF EvalNext

(* The bills, cut at the reservation, are covered by the rows.             *)
LEMMA EvalInvSafe == EvalInv => EvalSpendIsSafe
  <1> SUFFICES ASSUME EvalInv PROVE EvalSpendIsSafe
    OBVIOUS
  <1> DEFINE excess(c) == IF billed[c] > Amount THEN billed[c] - Amount ELSE 0
             f == [c \in PaidCalls |-> billed[c] - excess(c)]
             g == [c \in PaidCalls |-> BoundBy(c)]
  <1>1. EvalTypeOK /\ ceiling \in Nat
    BY EvalShapes DEF EvalInv
  <1>2. ASSUME NEW c \in PaidCalls
        PROVE  f[c] \in Nat /\ g[c] \in Nat /\ f[c] =< g[c]
    <2>1. billed[c] \in Nat /\ Amount \in Nat /\ g[c] = BoundBy(c) /\ BoundBy(c) \in Nat
      BY <1>1, EvalShapes, EvalCosts
    <2>2. f[c] = IF billed[c] > Amount THEN Amount ELSE billed[c]
      BY <2>1
    <2>3. CASE rows[c].status = "none"
      BY <2>1, <2>2, <2>3 DEF EvalInv, EvalRowsSound
    <2>4. CASE rows[c].status \notin {"none", "complete"}
      <3>1. BoundBy(c) = Amount
        BY <1>1, <2>4, EvalCosts DEF EvalInv, EvalRowsSound
      <3>2. QED
        BY <2>1, <2>2, <3>1
    <2>5. CASE rows[c].status = "complete"
      <3>1. rows[c].charged = billed[c] /\ rows[c].charged # Unsettled
        BY <1>1, <2>1, <2>5, EvalShapes DEF EvalInv, EvalRowsSound
      <3>2. UsedBy(c) = billed[c]
        BY <2>5, <3>1 DEF UsedBy
      <3>3. QED
        BY <2>1, <2>2, <3>2 DEF BoundBy
    <2>6. QED
      BY <2>3, <2>4, <2>5
  <1>3. SumFunctionOnSet(f, PaidCalls) =< ceiling
    <2> HIDE DEF f, g
    <2>1. /\ SumFunctionOnSet(f, PaidCalls) \in Nat
          /\ SumFunctionOnSet(f, PaidCalls) =< SumFunctionOnSet(g, PaidCalls)
      BY <1>2, PaidCallsFinite, SumType, SumMonotone
    <2>2. SumFunctionOnSet(g, PaidCalls) = BoundSum
      BY DEF g, BoundSum
    <2>3. BoundSum \in Nat /\ BoundSum =< ceiling
      BY <1>1, BoundSumShape DEF EvalInv
    <2>4. QED
      BY <1>1, <2>1, <2>2, <2>3
  <1>4. ASSUME NEW t \in Tapes, NEW k \in 1 .. Cases, k \in tapes[t]
        PROVE  rows[<<t, k>>] = [status |-> "complete", charged |-> billed[<<t, k>>]]
    <2>1. <<t, k>> \in PaidCalls
      BY DEF PaidCalls
    <2>2. rows[<<t, k>>] \in EvalRows /\ rows[<<t, k>>].status = "complete"
          /\ rows[<<t, k>>].charged = billed[<<t, k>>]
      BY <1>1, <1>4, <2>1, EvalShapes DEF EvalInv, EvalTapesSound, EvalRowsSound
    <2>3. QED
      BY <2>2 DEF EvalRows
  <1>5. \A c \in PaidCalls : sends[c] =< 1
    BY DEF EvalInv, EvalRowsSound
  <1>6. QED
    BY <1>3, <1>4, <1>5 DEF EvalSpendIsSafe

(* However many evaluations share a ledger and wherever they are           *)
(* interrupted, no call is sent twice, the provider's bill stays under the *)
(* ceiling but for the excess of calls dearer than their reservation, and  *)
(* what is on a tape is settled in full (BudgetLedger, APITriage.triage).  *)
THEOREM EvaluationSpendSafe == EvalSpec => []EvalSpendIsSafe
  <1>1. EvalSpec => []EvalInv
    BY EvalInitInv, EvalStepInv, PTL DEF EvalSpec
  <1>2. QED
    BY <1>1, EvalInvSafe, PTL

-----------------------------------------------------------------------------
(* The joint reviews.  The inductive invariant.                            *)

ReviewStates == {"none", "queued", "running", "recoverable", "uncertain", "complete", "review",
                 "failed", "stale", "budget_exhausted"}
ReviewRows == [state : ReviewStates, attempt : Nat, token : Nat, leased : BOOLEAN]
Verdicts == ReviewStates \ {"none", "recoverable"}
Polling == [pc : {"claim"}, recoverOnly : BOOLEAN]
Steps == {"lookup", "gate", "reserve", "send", "sent", "check", "finish"}
Serving == [pc : Steps, job : Dossiers,
            attempt : 1 .. MaxReviewClaims, token : Nat, outcome : Verdicts \cup {"none"},
            fresh : BOOLEAN]
Threads == {AtRest} \cup Polling \cup Serving
ReceiptRows == [charged : Nat \cup {-1, -2}]

ReviewTypeOK ==
  /\ dossier \in [ReviewCases -> Nat]
  /\ reviews \in [Dossiers -> ReviewRows]
  /\ receipts \in [JointCallIds -> ReceiptRows]
  /\ sshSpent \in Nat /\ overrun \in BOOLEAN
  /\ threads \in [JointWorkers -> Threads]
  /\ posts \in [JointCallIds -> Nat]

Serves(w) == threads[w] \in Serving
Own(w) == threads[w].token = reviews[threads[w].job].token
InFlight(w) == threads[w].pc \in {"send", "sent"}
Unsent(w) == \/ threads[w].pc \in {"gate", "reserve"}
             \/ threads[w].pc = "finish" /\ threads[w].outcome = "queued"

(* A known call is the present attempt of its job, which is never queued   *)
(* again; a job is called recoverable for a paid call only.                *)
KnownIsPresent ==
  \A id \in JointCallIds : Known(id) =>
    /\ id[2] = reviews[id[1]].attempt
    /\ reviews[id[1]].state \notin {"none", "queued"}
RecoverableIsPaid ==
  \A j \in Dossiers : reviews[j].state = "recoverable" => Paid(CallOf(j))

(* Tokens tell the workers of a job apart, and the worker with the token   *)
(* of the row works on its present attempt.                                *)
TokensApart ==
  \A w \in JointWorkers : Serves(w) =>
    /\ threads[w].token <= reviews[threads[w].job].token
    /\ Own(w) => threads[w].attempt = reviews[threads[w].job].attempt
    /\ \A v \in JointWorkers \ {w} : Serves(v) /\ threads[v].job = threads[w].job =>
         threads[v].token # threads[w].token

(* Before the reservation the owner of a job has no call.                  *)
OwnersAreFirst ==
  \A w \in JointWorkers : Serves(w) /\ Own(w) =>
    /\ threads[w].pc = "lookup" /\ Known(Call(w)) => Paid(Call(w))
    /\ Unsent(w) => ~Known(Call(w))

(* A call in the air is reserved, and by one worker.                       *)
Flights ==
  \A w \in JointWorkers : Serves(w) /\ InFlight(w) =>
    /\ receipts[Call(w)] = Reserved
    /\ threads[w].pc = "send" => posts[Call(w)] = 0
    /\ \A v \in JointWorkers \ {w} : Serves(v) /\ InFlight(v) => Call(v) # Call(w)
PostsKnown == \A id \in JointCallIds : posts[id] <= 1 /\ (~Known(id) => posts[id] = 0)

(* Recorded answers cost nothing.                                          *)
RecordedIsFree ==
  mode # "api" => /\ \A id \in JointCallIds : ~Known(id)
                  /\ \A w \in JointWorkers : threads[w].pc \notin {"gate", "reserve", "send", "sent"}

(* A dossier that was queued has been current; a worker that found it      *)
(* superseded when it was claimed never comes to send it.                  *)
QueuedWasCurrent ==
  \A j \in Dossiers : reviews[j].state # "none" => dossier[CaseOf[j]] >= j
StaleStays ==
  \A w \in JointWorkers : Serves(w) =>
    /\ dossier[CaseOf[threads[w].job]] >= threads[w].job
    /\ ~threads[w].fresh => dossier[CaseOf[threads[w].job]] > threads[w].job
    /\ threads[w].pc \in {"gate", "reserve", "send", "sent"} => threads[w].fresh

(* A thread finishes with an outcome.                                      *)
OutcomesSet == \A w \in JointWorkers : Serves(w) /\ threads[w].pc = "finish" => threads[w].outcome # "none"

JointBound == SumFunctionOnSet([id \in JointCallIds |-> JointWithin(id)], JointCallIds)
SharedBudget ==
  /\ sshSpent + JointBound <= SharedLimit
  /\ \A id \in JointCallIds : JointCommitted(id) > 1 => overrun

ReviewInv ==
  /\ ReviewTypeOK
  /\ KnownIsPresent /\ RecoverableIsPaid
  /\ TokensApart /\ OwnersAreFirst
  /\ Flights /\ PostsKnown /\ RecordedIsFree
  /\ QueuedWasCurrent /\ StaleStays /\ OutcomesSet
  /\ SharedBudget

-----------------------------------------------------------------------------
LEMMA ReceiptShapes ==
    /\ NoReceipt \in ReceiptRows /\ Reserved \in ReceiptRows
    /\ \A n \in Nat : [charged |-> n] \in ReceiptRows
    /\ \A r \in ReceiptRows : /\ r.charged \in Nat \cup {-1, -2}
                              /\ (r = NoReceipt) <=> (r.charged = -2)
                              /\ (r = Reserved) <=> (r.charged = -1)
  BY DEF ReceiptRows, NoReceipt, Reserved

LEMMA ThreadShapes ==
    /\ AtRest \in Threads /\ Polling \subseteq Threads /\ Serving \subseteq Threads
    /\ AtRest \notin Serving /\ Polling \cap Serving = {}
    /\ AtRest.pc = "idle" /\ \A t \in Polling : t.pc = "claim"
    /\ \A t \in Threads : t.pc \in Steps => t \in Serving
    /\ \A t \in Serving : /\ t.pc \in Steps /\ t.job \in Dossiers /\ t.token \in Nat
                          /\ t.attempt \in 1 .. MaxReviewClaims
                          /\ t.outcome \in Verdicts \cup {"none"} /\ t.fresh \in BOOLEAN
                          /\ <<t.job, t.attempt>> \in JointCallIds
  BY DEF Threads, AtRest, Polling, Serving, Steps, JointCallIds

LEMMA MovedShape ==
    ASSUME NEW t \in Serving, NEW pc \in Steps
    PROVE  /\ [t EXCEPT !.pc = pc] \in Serving
           /\ [t EXCEPT !.pc = pc].pc = pc
           /\ [t EXCEPT !.pc = pc].job = t.job /\ [t EXCEPT !.pc = pc].attempt = t.attempt
           /\ [t EXCEPT !.pc = pc].token = t.token /\ [t EXCEPT !.pc = pc].fresh = t.fresh
           /\ [t EXCEPT !.pc = pc].outcome = t.outcome
  BY DEF Serving

LEMMA EndedShape ==
    ASSUME NEW t \in Serving, NEW outcome \in Verdicts
    PROVE  /\ Ended(t, outcome) \in Serving
           /\ Ended(t, outcome).pc = "finish" /\ Ended(t, outcome).outcome = outcome
           /\ Ended(t, outcome).job = t.job /\ Ended(t, outcome).attempt = t.attempt
           /\ Ended(t, outcome).token = t.token /\ Ended(t, outcome).fresh = t.fresh
  BY DEF Ended, Serving, Steps

LEMMA ReviewShapes ==
    ASSUME ReviewTypeOK
    PROVE  /\ \A j \in Dossiers : /\ reviews[j] \in ReviewRows /\ j \in Nat
                                  /\ reviews[j].attempt \in Nat /\ reviews[j].token \in Nat
                                  /\ reviews[j].state \in ReviewStates
                                  /\ CaseOf[j] \in ReviewCases /\ dossier[CaseOf[j]] \in Nat
           /\ \A w \in JointWorkers : /\ threads[w] \in Threads
                                      /\ Serves(w) => /\ Call(w) \in JointCallIds
                                                      /\ threads[w].job \in Dossiers
                                                      /\ threads[w].token \in Nat
           /\ \A id \in JointCallIds : /\ receipts[id] \in ReceiptRows /\ posts[id] \in Nat
                                       /\ id[1] \in Dossiers /\ id[2] \in 1 .. MaxReviewClaims
                                       /\ id = <<id[1], id[2]>>
           /\ AttemptLimit \in Nat /\ MaxReviewClaims \in Nat /\ SharedLimit \in Nat
  <1>1. \A j \in Dossiers : /\ reviews[j] \in ReviewRows /\ j \in Nat
                            /\ CaseOf[j] \in ReviewCases /\ dossier[CaseOf[j]] \in Nat
    BY JointAiAssumption DEF ReviewTypeOK, ReviewCases
  <1>2. \A j \in Dossiers : /\ reviews[j].attempt \in Nat /\ reviews[j].token \in Nat
                            /\ reviews[j].state \in ReviewStates
    BY <1>1 DEF ReviewRows
  <1>3. \A w \in JointWorkers : /\ threads[w] \in Threads
                                /\ Serves(w) => /\ Call(w) \in JointCallIds
                                                /\ threads[w].job \in Dossiers
                                                /\ threads[w].token \in Nat
    BY ThreadShapes DEF ReviewTypeOK, Serves, Call
  <1>4. \A id \in JointCallIds : /\ receipts[id] \in ReceiptRows /\ posts[id] \in Nat
                                 /\ id[1] \in Dossiers /\ id[2] \in 1 .. MaxReviewClaims
                                 /\ id = <<id[1], id[2]>>
    BY DEF ReviewTypeOK, JointCallIds
  <1>5. AttemptLimit \in Nat /\ MaxReviewClaims \in Nat /\ SharedLimit \in Nat
    BY JointAiAssumption DEF MaxReviewClaims
  <1>6. QED
    BY <1>1, <1>2, <1>3, <1>4, <1>5

LEMMA PaidIsKnown ==
    ASSUME ReviewTypeOK, NEW id
    PROVE  /\ Paid(id) => Known(id)
           /\ id \in JointCallIds /\ receipts[id] = Reserved => Known(id) /\ ~Paid(id)
  BY ReviewShapes, ReceiptShapes DEF Paid, Known

LEMMA JointCallsFinite == IsFiniteSet(JointCallIds)
  <1>1. IsFiniteSet(Dossiers) /\ 1 \in Int /\ MaxReviewClaims \in Int
    BY JointAiAssumption DEF MaxReviewClaims
  <1>2. IsFiniteSet(1 .. MaxReviewClaims)
    BY <1>1, FS_Interval
  <1>3. QED
    BY <1>1, <1>2, FS_Product DEF JointCallIds

LEMMA JointCosts ==
    ASSUME ReviewTypeOK, NEW id \in JointCallIds
    PROVE  /\ JointCommitted(id) \in Nat /\ JointWithin(id) \in Nat
           /\ JointWithin(id) =< JointCommitted(id) /\ JointWithin(id) =< 1
           /\ receipts[id] = NoReceipt => JointWithin(id) = 0
           /\ receipts[id] = Reserved => JointWithin(id) = 1
           /\ JointCommitted(id) > 1 => Paid(id)
  <1>1. /\ receipts[id] \in ReceiptRows /\ NoReceipt # Reserved
        /\ receipts[id] # NoReceipt /\ receipts[id] # Reserved => receipts[id].charged \in Nat
    BY ReviewShapes, ReceiptShapes DEF NoReceipt, Reserved
  <1>2. JointCommitted(id) \in Nat
    BY <1>1 DEF JointCommitted
  <1>3. JointCommitted(id) > 1 => receipts[id].charged \in Nat
    BY <1>1 DEF JointCommitted
  <1>4. QED
    BY <1>1, <1>2, <1>3 DEF JointWithin, JointCommitted, Paid

LEMMA JointCostsAfter ==
    ASSUME ReviewTypeOK', NEW id \in JointCallIds
    PROVE  JointWithin(id)' \in Nat /\ JointWithin(id)' =< 1
  <1>1. receipts'[id] \in ReceiptRows
    BY DEF ReviewTypeOK
  <1>2. receipts'[id] # NoReceipt /\ receipts'[id] # Reserved => receipts'[id].charged \in Nat
    BY <1>1, ReceiptShapes
  <1>3. JointCommitted(id)' \in Nat
    BY <1>2 DEF JointCommitted
  <1>4. QED
    BY <1>3 DEF JointWithin

LEMMA JointBoundShape ==
    ASSUME ReviewTypeOK
    PROVE  JointBound \in Nat /\ JointSpent \in Nat /\ JointBound =< JointSpent
  <1> DEFINE f == [id \in JointCallIds |-> JointWithin(id)]
             g == [id \in JointCallIds |-> JointCommitted(id)]
  <1>1. \A id \in JointCallIds : f[id] \in Nat /\ g[id] \in Nat /\ f[id] =< g[id]
    BY JointCosts
  <1> HIDE DEF f, g
  <1>2. /\ SumFunctionOnSet(f, JointCallIds) \in Nat /\ SumFunctionOnSet(g, JointCallIds) \in Nat
        /\ SumFunctionOnSet(f, JointCallIds) =< SumFunctionOnSet(g, JointCallIds)
    BY <1>1, JointCallsFinite, SumType, SumMonotone
  <1>3. QED
    BY <1>2 DEF f, g, JointBound, JointSpent

LEMMA JointBoundChanged ==
    ASSUME ReviewTypeOK, ReviewTypeOK', NEW id \in JointCallIds,
           \A other \in JointCallIds : other # id => receipts'[other] = receipts[other]
    PROVE  JointBound' = JointBound - JointWithin(id) + JointWithin(id)'
  <1> DEFINE f == [x \in JointCallIds |-> JointWithin(x)]
             g == [x \in JointCallIds |-> JointWithin(x)']
  <1>1. \A x \in JointCallIds : f[x] \in Nat /\ g[x] \in Nat
    BY JointCosts, JointCostsAfter
  <1>2. \A x \in JointCallIds : x # id => g[x] = f[x]
    BY DEF JointWithin, JointCommitted
  <1>3. JointBound = SumFunctionOnSet(f, JointCallIds) /\ JointBound' = SumFunctionOnSet(g, JointCallIds)
    BY DEF JointBound
  <1>4. f[id] = JointWithin(id) /\ g[id] = JointWithin(id)'
    OBVIOUS
  <1> HIDE DEF f, g
  <1>5. QED
    BY <1>1, <1>2, <1>3, <1>4, JointCallsFinite, SumOneChanged

-----------------------------------------------------------------------------
(* Steps of one kind.  First: the money stays where it is.                 *)
LedgerSame == UNCHANGED <<mode, dossier, receipts, sshSpent, overrun, posts>>

LEMMA LedgerKept ==
    ASSUME ReviewInv, LedgerSame
    PROVE  /\ PostsKnown' /\ SharedBudget'
           /\ \A id : (Known(id)' <=> Known(id)) /\ (Paid(id)' <=> Paid(id))
  <1>1. \A id : (Known(id)' <=> Known(id)) /\ (Paid(id)' <=> Paid(id))
    BY DEF LedgerSame, Known, Paid
  <1>2. PostsKnown'
    BY <1>1 DEF ReviewInv, PostsKnown, LedgerSame
  <1>3. SharedBudget'
    BY DEF ReviewInv, SharedBudget, LedgerSame, JointBound, JointWithin, JointCommitted
  <1>4. QED
    BY <1>1, <1>2, <1>3

(* Rows change their states only, and threads go to rest or to the claim.  *)
RowsMove ==
    /\ reviews' \in [Dossiers -> ReviewRows]
    /\ \A j \in Dossiers :
         /\ reviews'[j].attempt = reviews[j].attempt /\ reviews'[j].token = reviews[j].token
         /\ Known(CallOf(j)) => reviews'[j].state \notin {"none", "queued"}
         /\ reviews'[j].state = "recoverable" => Paid(CallOf(j))
         /\ reviews'[j].state # "none" => dossier[CaseOf[j]] >= j
ThreadsRest ==
    /\ threads' \in [JointWorkers -> Threads]
    /\ \A w \in JointWorkers : threads'[w] = threads[w] \/ threads'[w] \in {AtRest} \cup Polling

LEMMA RowsKeep ==
    ASSUME ReviewInv, LedgerSame, RowsMove, ThreadsRest
    PROVE  ReviewInv'
  <1>1. ReviewTypeOK'
    BY DEF ReviewInv, ReviewTypeOK, LedgerSame, RowsMove, ThreadsRest
  <1>2. /\ \A id : (Known(id)' <=> Known(id)) /\ (Paid(id)' <=> Paid(id))
        /\ \A j \in Dossiers : CallOf(j)' = CallOf(j)
    BY LedgerKept DEF RowsMove, CallOf
  <1>3. \A w \in JointWorkers : Serves(w)' =>
          /\ Serves(w) /\ threads'[w] = threads[w] /\ threads[w].job \in Dossiers
          /\ Call(w)' = Call(w) /\ (Own(w)' <=> Own(w))
          /\ (InFlight(w)' <=> InFlight(w)) /\ (Unsent(w)' <=> Unsent(w))
    <2> SUFFICES ASSUME NEW w \in JointWorkers, Serves(w)'
                 PROVE  /\ Serves(w) /\ threads'[w] = threads[w] /\ threads[w].job \in Dossiers
                        /\ Call(w)' = Call(w) /\ (Own(w)' <=> Own(w))
                        /\ (InFlight(w)' <=> InFlight(w)) /\ (Unsent(w)' <=> Unsent(w))
      OBVIOUS
    <2>1. threads'[w] = threads[w] /\ Serves(w)
      BY ThreadShapes DEF ThreadsRest, Serves
    <2>2. threads[w].job \in Dossiers
      BY <2>1, ThreadShapes DEF Serves
    <2>3. QED
      BY <2>1, <2>2 DEF RowsMove, Call, Own, InFlight, Unsent
  <1>4. KnownIsPresent'
    <2> SUFFICES ASSUME NEW id \in JointCallIds, Known(id)
                 PROVE  /\ id[2] = reviews'[id[1]].attempt
                        /\ reviews'[id[1]].state \notin {"none", "queued"}
      BY <1>2 DEF KnownIsPresent
    <2>1. id[2] = reviews[id[1]].attempt /\ id[1] \in Dossiers /\ id = <<id[1], id[2]>>
      BY ReviewShapes DEF ReviewInv, KnownIsPresent
    <2>2. Known(CallOf(id[1]))
      BY <2>1 DEF CallOf
    <2>3. QED
      BY <2>1, <2>2 DEF RowsMove
  <1>5. RecoverableIsPaid'
    BY <1>2 DEF RecoverableIsPaid, RowsMove
  <1>6. TokensApart'
    BY <1>3 DEF ReviewInv, TokensApart, RowsMove
  <1>7. OwnersAreFirst' 
    BY <1>2, <1>3 DEF ReviewInv, OwnersAreFirst
  <1>8. Flights'
    BY <1>3 DEF ReviewInv, Flights, LedgerSame
  <1>9. RecordedIsFree'
    BY <1>2, ThreadShapes DEF ReviewInv, RecordedIsFree, LedgerSame, ThreadsRest
  <1>10. QueuedWasCurrent'
    BY DEF QueuedWasCurrent, RowsMove, LedgerSame
  <1>11. StaleStays'
    BY <1>3 DEF ReviewInv, StaleStays, LedgerSame
  <1>12. OutcomesSet'
    BY <1>3 DEF ReviewInv, OutcomesSet
  <1>13. QED
    BY <1>1, <1>4, <1>5, <1>6, <1>7, <1>8, <1>9, <1>10, <1>11, <1>12, LedgerKept DEF ReviewInv

(* A thread goes on with its job, and neither claims, sends nor settles.   *)
SameClaim(w, t) ==
    /\ t.job = threads[w].job /\ t.attempt = threads[w].attempt
    /\ t.token = threads[w].token /\ t.fresh = threads[w].fresh
Proceeds(w, t) ==
    /\ threads' = [threads EXCEPT ![w] = t] /\ SameClaim(w, t)
    /\ t.pc \notin {"lookup", "send", "sent"} /\ (t.pc = "finish" => t.outcome # "none")
    /\ t.pc \in {"gate", "reserve"} => mode = "api" /\ t.fresh
    /\ \/ t.pc \in {"gate", "reserve"}
       \/ t.pc = "finish" /\ t.outcome = "queued"
       => (Own(w) => ~Known(Call(w)))

LEMMA ProceedKeeps ==
    ASSUME ReviewInv, LedgerSame, UNCHANGED reviews,
           NEW w \in JointWorkers, Serves(w), NEW t \in Serving, Proceeds(w, t)
    PROVE  ReviewInv'
  <1>1. threads' \in [JointWorkers -> Threads] /\ threads'[w] = t
        /\ \A v \in JointWorkers \ {w} : threads'[v] = threads[v]
    BY ThreadShapes DEF ReviewInv, ReviewTypeOK, Proceeds
  <1>2. ReviewTypeOK'
    BY <1>1 DEF ReviewInv, ReviewTypeOK, LedgerSame
  <1>3. /\ \A id : (Known(id)' <=> Known(id)) /\ (Paid(id)' <=> Paid(id))
        /\ \A j \in Dossiers : CallOf(j)' = CallOf(j)
    BY LedgerKept DEF CallOf
  <1>4. \A v \in JointWorkers :
          /\ Serves(v)' => Serves(v) /\ threads'[v].job = threads[v].job
                           /\ threads'[v].attempt = threads[v].attempt
                           /\ threads'[v].token = threads[v].token
                           /\ threads'[v].fresh = threads[v].fresh
                           /\ Call(v)' = Call(v) /\ (Own(v)' <=> Own(v))
          /\ v # w => /\ (InFlight(v)' <=> InFlight(v)) /\ (Unsent(v)' <=> Unsent(v))
                      /\ threads'[v].pc = threads[v].pc
    BY <1>1 DEF Serves, Call, Own, InFlight, Unsent, Proceeds, SameClaim
  <1>5. ~InFlight(w)' /\ threads'[w].pc # "lookup" /\ (Unsent(w)' /\ Own(w) => ~Known(Call(w)))
    BY <1>1 DEF Proceeds, InFlight, Unsent
  <1>6. KnownIsPresent' /\ RecoverableIsPaid' /\ QueuedWasCurrent'
    BY <1>3 DEF ReviewInv, KnownIsPresent, RecoverableIsPaid, QueuedWasCurrent, LedgerSame
  <1>7. TokensApart'
    BY <1>4 DEF ReviewInv, TokensApart
  <1>8. OwnersAreFirst' 
    BY <1>3, <1>4, <1>5 DEF ReviewInv, OwnersAreFirst
  <1>9. Flights'
    BY <1>4, <1>5 DEF ReviewInv, Flights, LedgerSame
  <1>10. RecordedIsFree'
    BY <1>1, <1>3 DEF ReviewInv, RecordedIsFree, LedgerSame, Proceeds
  <1>11. StaleStays'
    <2>1. threads'[w].pc \in {"gate", "reserve", "send", "sent"} => threads'[w].fresh
      BY <1>1 DEF Proceeds
    <2>2. QED
      BY <1>4, <2>1 DEF ReviewInv, StaleStays, LedgerSame
  <1>12. OutcomesSet'
    BY <1>1 DEF ReviewInv, OutcomesSet, Proceeds, Serves
  <1>13. QED
    BY <1>2, <1>6, <1>7, <1>8, <1>9, <1>10, <1>11, <1>12, LedgerKept DEF ReviewInv

(* The rows as they are satisfy RowsMove.                                  *)
LEMMA RowsStay ==
    ASSUME ReviewInv, UNCHANGED reviews
    PROVE  RowsMove
  <1>1. \A j \in Dossiers : Known(CallOf(j)) => reviews[j].state \notin {"none", "queued"}
    <2> SUFFICES ASSUME NEW j \in Dossiers, Known(CallOf(j))
                 PROVE  reviews[j].state \notin {"none", "queued"}
      OBVIOUS
    <2>1. CallOf(j) \in JointCallIds /\ CallOf(j)[1] = j
      BY DEF Known, CallOf
    <2>2. QED
      BY <2>1 DEF ReviewInv, KnownIsPresent
  <1>2. QED
    BY <1>1 DEF ReviewInv, ReviewTypeOK, RecoverableIsPaid, QueuedWasCurrent, RowsMove

LEMMA RestKeeps ==
    ASSUME ReviewInv, LedgerSame, UNCHANGED reviews, ThreadsRest
    PROVE  ReviewInv'
  BY RowsStay, RowsKeep

LEMMA OneRests ==
    ASSUME ReviewTypeOK, NEW w \in JointWorkers, NEW t \in {AtRest} \cup Polling,
           threads' = [threads EXCEPT ![w] = t]
    PROVE  ThreadsRest
  BY ThreadShapes DEF ReviewTypeOK, ThreadsRest

LEMMA NoneMoves ==
    ASSUME ReviewTypeOK, UNCHANGED threads
    PROVE  ThreadsRest
  BY DEF ReviewTypeOK, ThreadsRest

LEMMA EndKeeps ==
    ASSUME ReviewInv, LedgerSame, UNCHANGED reviews, NEW w \in JointWorkers, Serves(w),
           NEW outcome \in Verdicts, EndAs(w, outcome),
           outcome = "queued" /\ Own(w) => ~Known(Call(w))
    PROVE  ReviewInv'
  <1> DEFINE t == Ended(threads[w], outcome)
  <1>1. /\ t \in Serving /\ SameClaim(w, t) /\ t.pc = "finish" /\ t.outcome = outcome
        /\ outcome # "none"
    BY EndedShape DEF Serves, SameClaim, Verdicts
  <1>2. threads' = [threads EXCEPT ![w] = t]
    BY DEF EndAs
  <1> HIDE DEF t
  <1>3. Proceeds(w, t)
    BY <1>1, <1>2 DEF Proceeds
  <1>4. QED
    BY <1>1, <1>3, ProceedKeeps

LEMMA StepKeeps ==
    ASSUME ReviewInv, LedgerSame, UNCHANGED reviews, NEW w \in JointWorkers, Serves(w),
           NEW pc \in {"gate", "reserve", "check"}, StepTo(w, pc),
           pc # "check" => mode = "api" /\ threads[w].fresh /\ (Own(w) => ~Known(Call(w)))
    PROVE  ReviewInv'
  <1> DEFINE t == [threads[w] EXCEPT !.pc = pc]
  <1>0. pc \in Steps /\ threads[w] \in Serving
    BY DEF Steps, Serves
  <1>1. t \in Serving /\ SameClaim(w, t) /\ t.pc = pc
    BY <1>0, MovedShape DEF SameClaim
  <1>2. threads' = [threads EXCEPT ![w] = t]
    BY DEF StepTo
  <1>3. t.fresh = threads[w].fresh
    BY <1>1 DEF SameClaim
  <1> HIDE DEF t
  <1>4. Proceeds(w, t)
    BY <1>1, <1>2, <1>3 DEF Proceeds
  <1>5. QED
    BY <1>1, <1>4, ProceedKeeps

-----------------------------------------------------------------------------
(* The steps of a thread.                                                  *)
LEMMA AtServes ==
    ASSUME ReviewTypeOK, NEW w \in JointWorkers, NEW pc \in Steps, JointAt(w, pc)
    PROVE  Serves(w) /\ threads[w].pc = pc
  BY ThreadShapes DEF ReviewTypeOK, Serves, JointAt

LEMMA PollKeeps ==
    ASSUME ReviewInv, NEW w \in JointWorkers, Poll(w)
    PROVE  ReviewInv'
  <1> DEFINE t == [pc |-> "claim", recoverOnly |-> Paused]
  <1>1. Paused \in BOOLEAN
    BY DEF Paused
  <1>2. t \in Polling
    BY <1>1 DEF Polling
  <1>3. threads' = [threads EXCEPT ![w] = t] /\ LedgerSame /\ UNCHANGED reviews
    BY DEF Poll, LedgerSame
  <1> HIDE DEF t
  <1>4. QED
    BY <1>2, <1>3, OneRests, RestKeeps DEF ReviewInv

LEMMA LookUpKeeps ==
    ASSUME ReviewInv, NEW w \in JointWorkers, LookUp(w)
    PROVE  ReviewInv'
  <1>1. Serves(w) /\ threads[w].pc = "lookup" /\ mode = "api" /\ threads[w].job \in Dossiers
    BY AtServes, ReviewShapes DEF LookUp, ReviewInv, Steps
  <1>2. LedgerSame /\ UNCHANGED reviews
    BY DEF LookUp, LedgerSame
  <1>3. CASE Paid(Call(w))
    BY <1>1, <1>2, <1>3, StepKeeps DEF LookUp
  <1>4. CASE ~Paid(Call(w)) /\ ~IsCurrent(threads[w].job)
    BY <1>1, <1>2, <1>4, EndKeeps DEF LookUp, Verdicts, ReviewStates
  <1>5. CASE ~Paid(Call(w)) /\ IsCurrent(threads[w].job)
    <2>1. StepTo(w, "gate")
      BY <1>5 DEF LookUp
    <2>2. Own(w) => ~Known(Call(w))
      BY <1>1, <1>5 DEF ReviewInv, OwnersAreFirst
    <2>3. threads[w].fresh
      <3>1. dossier[CaseOf[threads[w].job]] = threads[w].job /\ threads[w].job \in Nat
        BY <1>1, <1>5, ReviewShapes DEF IsCurrent, ReviewInv
      <3>2. ~threads[w].fresh => dossier[CaseOf[threads[w].job]] > threads[w].job
        BY <1>1 DEF ReviewInv, StaleStays
      <3>3. QED
        BY <3>1, <3>2
    <2>4. QED
      BY <1>1, <1>2, <2>1, <2>2, <2>3, StepKeeps
  <1>6. QED
    BY <1>3, <1>4, <1>5

LEMMA GateKeeps ==
    ASSUME ReviewInv, NEW w \in JointWorkers, Gate(w)
    PROVE  ReviewInv'
  <1>1. Serves(w) /\ threads[w].pc = "gate"
    BY AtServes DEF Gate, ReviewInv, Steps
  <1>2. LedgerSame /\ UNCHANGED reviews
    BY DEF Gate, LedgerSame
  <1>3. /\ Own(w) => ~Known(Call(w))
        /\ mode = "api" /\ threads[w].fresh
    BY <1>1 DEF ReviewInv, OwnersAreFirst, Unsent, RecordedIsFree, StaleStays
  <1>4. CASE Paused
    BY <1>1, <1>2, <1>3, <1>4, EndKeeps DEF Gate, Verdicts, ReviewStates
  <1>5. CASE ~Paused
    BY <1>1, <1>2, <1>3, <1>5, StepKeeps DEF Gate
  <1>6. QED
    BY <1>4, <1>5

LEMMA CheckKeeps ==
    ASSUME ReviewInv, NEW w \in JointWorkers, CheckReceipt(w) \/ CallFails(w)
    PROVE  ReviewInv'
  <1>1. Serves(w)
    BY AtServes DEF CheckReceipt, CallFails, ReviewInv, Steps
  <1>2. LedgerSame /\ UNCHANGED reviews
    BY DEF CheckReceipt, CallFails, LedgerSame
  <1>3. PICK outcome \in {"complete", "review", "uncertain"} : EndAs(w, outcome)
    BY DEF CheckReceipt, CallFails
  <1>4. QED
    BY <1>1, <1>2, <1>3, EndKeeps DEF Verdicts, ReviewStates

LEMMA ReplayKeeps ==
    ASSUME ReviewInv, NEW w \in JointWorkers, Replay(w)
    PROVE  ReviewInv'
  <1>1. Serves(w) /\ mode = "recorded"
    BY AtServes DEF Replay, ReviewInv, Steps
  <1>2. LedgerSame /\ UNCHANGED reviews
    BY DEF Replay, LedgerSame
  <1>3. PICK outcome \in {"complete", "review", "failed", "queued", "stale"} : EndAs(w, outcome)
    BY DEF Replay
  <1>4. ~Known(Call(w))
    BY <1>1 DEF ReviewInv, RecordedIsFree, Known
  <1>5. QED
    BY <1>1, <1>2, <1>3, <1>4, EndKeeps DEF Verdicts, ReviewStates

LEMMA LeavesKeep ==
    ASSUME ReviewInv, NEW w \in JointWorkers, Escapes(w) \/ ThreadDies(w)
    PROVE  ReviewInv'
  <1>1. threads' = [threads EXCEPT ![w] = AtRest] /\ LedgerSame /\ UNCHANGED reviews
    BY DEF Escapes, ThreadDies, LedgerSame
  <1>2. QED
    BY <1>1, OneRests, RestKeeps DEF ReviewInv

(* A thread writes the row that it still owns.                             *)
LEMMA WriteKeeps ==
    ASSUME ReviewInv, NEW w \in JointWorkers, Serves(w), NEW state \in Verdicts,
           JointWritten(w, state),
           state = "queued" /\ Own(w) => ~Known(Call(w))
    PROVE  ReviewInv'
  <1> DEFINE j == threads[w].job
  <1>1. LedgerSame /\ threads' = [threads EXCEPT ![w] = AtRest] /\ j \in Dossiers
        /\ state \notin {"none", "recoverable"} /\ state \in ReviewStates
    BY ReviewShapes DEF JointWritten, LedgerSame, ReviewInv, Verdicts
  <1>2. CASE UNCHANGED reviews
    BY <1>1, <1>2, OneRests, RestKeeps DEF ReviewInv
  <1>3. CASE ~UNCHANGED reviews
    <2> DEFINE r == [reviews[j] EXCEPT !.state = state]
    <2>1. /\ reviews[j].token = threads[w].token /\ reviews[j].attempt = threads[w].attempt
          /\ reviews[j].state \in {"running", "uncertain"}
          /\ reviews' = [reviews EXCEPT ![j] = r]
      BY <1>3 DEF JointWritten
    <2>2. reviews[j] \in ReviewRows
      BY <1>1, ReviewShapes DEF ReviewInv
    <2>3. /\ r \in ReviewRows /\ r.state = state
          /\ r.attempt = reviews[j].attempt /\ r.token = reviews[j].token
      BY <1>1, <2>2 DEF ReviewRows
    <2>4. CallOf(j) = Call(w) /\ Own(w)
      BY <2>1 DEF CallOf, Call, Own
    <2>5. Known(CallOf(j)) => state # "queued"
      BY <2>4
    <2>6. dossier[CaseOf[j]] >= j
      BY <1>1, <2>1 DEF ReviewInv, QueuedWasCurrent
    <2> HIDE DEF j, r
    <2>7. /\ reviews' \in [Dossiers -> ReviewRows] /\ reviews'[j] = r
          /\ \A k \in Dossiers : k # j => reviews'[k] = reviews[k]
      BY <1>1, <2>1, <2>3 DEF ReviewInv, ReviewTypeOK
    <2>8. RowsMove
      <3>1. \A k \in Dossiers : /\ Known(CallOf(k)) => reviews[k].state \notin {"none", "queued"}
                                /\ reviews[k].state = "recoverable" => Paid(CallOf(k))
                                /\ reviews[k].state # "none" => dossier[CaseOf[k]] >= k
        <4> SUFFICES ASSUME NEW k \in Dossiers
                     PROVE  /\ Known(CallOf(k)) => reviews[k].state \notin {"none", "queued"}
                            /\ reviews[k].state = "recoverable" => Paid(CallOf(k))
                            /\ reviews[k].state # "none" => dossier[CaseOf[k]] >= k
          OBVIOUS
        <4>1. Known(CallOf(k)) => CallOf(k) \in JointCallIds /\ CallOf(k)[1] = k
          BY DEF Known, CallOf
        <4>2. QED
          BY <4>1 DEF ReviewInv, KnownIsPresent, RecoverableIsPaid, QueuedWasCurrent
      <3>2. QED
        BY <1>1, <2>3, <2>5, <2>6, <2>7, <3>1 DEF RowsMove
    <2>9. QED
      BY <1>1, <2>8, OneRests, RowsKeep DEF ReviewInv
  <1>4. QED
    BY <1>2, <1>3

LEMMA FinishKeeps ==
    ASSUME ReviewInv, NEW w \in JointWorkers, FinishReview(w)
    PROVE  ReviewInv'
  <1>1. Serves(w) /\ threads[w].pc = "finish"
    BY AtServes DEF FinishReview, ReviewInv, Steps
  <1>2. threads[w].outcome \in Verdicts
    BY <1>1, ThreadShapes DEF ReviewInv, OutcomesSet, Serves
  <1>3. threads[w].outcome = "queued" /\ Own(w) => ~Known(Call(w))
    BY <1>1 DEF ReviewInv, OwnersAreFirst, Unsent
  <1>4. QED
    BY <1>1, <1>2, <1>3, WriteKeeps DEF FinishReview

LEMMA RetryKeeps ==
    ASSUME ReviewInv, NEW w \in JointWorkers, RetryUnsent(w)
    PROVE  ReviewInv'
  <1> DEFINE state == IF Known(Call(w)) THEN "uncertain"
                      ELSE IF threads[w].attempt < AttemptLimit THEN "queued" ELSE "failed"
  <1>1. Serves(w)
    BY AtServes DEF RetryUnsent, ReviewInv, Steps
  <1>2. state \in Verdicts /\ (state = "queued" => ~Known(Call(w)))
    BY DEF Verdicts, ReviewStates
  <1>3. JointWritten(w, state)
    BY DEF RetryUnsent
  <1> HIDE DEF state
  <1>4. QED
    BY <1>1, <1>2, <1>3, WriteKeeps

-----------------------------------------------------------------------------
(* The call itself: reserved, sent, settled.                               *)

(* Thread w moves, the others and the rows stay.                           *)
OneMoves(w, pc) ==
    /\ UNCHANGED <<mode, dossier, reviews>>
    /\ threads' \in [JointWorkers -> Threads]
    /\ Serves(w)' /\ threads'[w].pc = pc /\ threads'[w].outcome = threads[w].outcome
    /\ threads'[w].job = threads[w].job /\ threads'[w].attempt = threads[w].attempt
    /\ threads'[w].token = threads[w].token /\ threads'[w].fresh = threads[w].fresh
    /\ \A v \in JointWorkers \ {w} : threads'[v] = threads[v]

LEMMA StepMoves ==
    ASSUME ReviewTypeOK, NEW w \in JointWorkers, Serves(w), NEW pc \in Steps, StepTo(w, pc),
           UNCHANGED <<mode, dossier, reviews>>
    PROVE  OneMoves(w, pc)
  <1> DEFINE t == [threads[w] EXCEPT !.pc = pc]
  <1>1. /\ t \in Serving /\ t.pc = pc /\ t.outcome = threads[w].outcome
        /\ t.job = threads[w].job /\ t.attempt = threads[w].attempt
        /\ t.token = threads[w].token /\ t.fresh = threads[w].fresh
    BY MovedShape DEF Serves
  <1>2. threads' = [threads EXCEPT ![w] = t]
    BY DEF StepTo
  <1> HIDE DEF t
  <1>3. threads' \in [JointWorkers -> Threads] /\ threads'[w] = t
        /\ \A v \in JointWorkers \ {w} : threads'[v] = threads[v]
    BY <1>1, <1>2, ThreadShapes DEF ReviewTypeOK
  <1>4. QED
    BY <1>1, <1>3 DEF OneMoves, Serves

LEMMA MoveKeeps ==
    ASSUME ReviewInv, NEW w \in JointWorkers, Serves(w), NEW pc \in {"send", "sent", "check"},
           OneMoves(w, pc), pc # "check" => threads[w].pc \in {"reserve", "send"}
    PROVE  /\ TokensApart' /\ QueuedWasCurrent' /\ StaleStays' /\ OutcomesSet'
           /\ \A v \in JointWorkers : /\ Call(v)' = Call(v) /\ (Own(v)' <=> Own(v))
                                      /\ (Serves(v)' <=> Serves(v))
           /\ \A v \in JointWorkers \ {w} : /\ (InFlight(v)' <=> InFlight(v))
                                            /\ (Unsent(v)' <=> Unsent(v))
                                            /\ threads'[v].pc = threads[v].pc
           /\ ~Unsent(w)'
  <1>1. \A v \in JointWorkers :
          /\ threads'[v].job = threads[v].job /\ threads'[v].attempt = threads[v].attempt
          /\ threads'[v].token = threads[v].token /\ threads'[v].fresh = threads[v].fresh
          /\ threads'[v].outcome = threads[v].outcome
          /\ Call(v)' = Call(v) /\ (Own(v)' <=> Own(v)) /\ (Serves(v)' <=> Serves(v))
    BY DEF OneMoves, Call, Own, Serves
  <1>2. \A v \in JointWorkers \ {w} : /\ (InFlight(v)' <=> InFlight(v))
                                      /\ (Unsent(v)' <=> Unsent(v))
                                      /\ threads'[v].pc = threads[v].pc
    BY DEF OneMoves, InFlight, Unsent
  <1>3. ~Unsent(w)'
    BY DEF OneMoves, Unsent
  <1>4. TokensApart'
    BY <1>1 DEF ReviewInv, TokensApart, OneMoves
  <1>5. QueuedWasCurrent'
    BY DEF ReviewInv, QueuedWasCurrent, OneMoves
  <1>6. StaleStays'
    <2>1. pc # "check" => threads'[w].fresh
      BY <1>1 DEF ReviewInv, StaleStays
    <2>2. threads'[w].pc = pc
      BY DEF OneMoves
    <2>3. QED
      BY <1>1, <1>2, <2>1, <2>2 DEF ReviewInv, StaleStays, OneMoves
  <1>7. OutcomesSet'
    BY <1>1, <1>2 DEF ReviewInv, OutcomesSet, OneMoves
  <1>8. QED
    BY <1>1, <1>2, <1>3, <1>4, <1>5, <1>6, <1>7

LEMMA ReserveKeeps ==
    ASSUME ReviewInv, NEW w \in JointWorkers, ReserveShared(w)
    PROVE  ReviewInv'
  <1>1. Serves(w) /\ threads[w].pc = "reserve" /\ mode = "api" /\ Call(w) \in JointCallIds
    BY AtServes, ReviewShapes DEF ReserveShared, ReviewInv, Steps, RecordedIsFree
  <1>2. CASE UNCHANGED receipts /\ StepTo(w, "check")
    <2>1. LedgerSame /\ UNCHANGED reviews
      BY <1>2 DEF ReserveShared, LedgerSame
    <2>2. QED
      BY <1>1, <1>2, <2>1, StepKeeps
  <1>3. CASE UNCHANGED receipts /\ \E outcome \in {"uncertain", "budget_exhausted"} : EndAs(w, outcome)
    <2>1. LedgerSame /\ UNCHANGED reviews
      BY <1>3 DEF ReserveShared, LedgerSame
    <2>2. PICK outcome \in {"uncertain", "budget_exhausted"} : EndAs(w, outcome)
      BY <1>3
    <2>3. QED
      BY <1>1, <2>1, <2>2, EndKeeps DEF Verdicts, ReviewStates
  <1>4. CASE /\ ~Known(Call(w)) /\ LeaseHeld(w) /\ JointAffordable
             /\ receipts' = [receipts EXCEPT ![Call(w)] = Reserved] /\ StepTo(w, "send")
    <2>0. PICK id0 \in JointCallIds : id0 = Call(w)
      BY <1>1
    <2>1. /\ UNCHANGED <<mode, dossier, reviews, sshSpent, overrun, posts>>
          /\ OneMoves(w, "send")
      BY <1>1, <1>4, StepMoves DEF ReserveShared, ReviewInv, Steps
    <2>2. /\ receipts' \in [JointCallIds -> ReceiptRows] /\ receipts'[id0] = Reserved
          /\ \A id \in JointCallIds : id # id0 => receipts'[id] = receipts[id]
          /\ receipts[id0] = NoReceipt
      BY <1>4, <2>0, ReceiptShapes DEF ReviewInv, ReviewTypeOK, Known
    <2>3. ReviewTypeOK'
      BY <2>1, <2>2 DEF ReviewInv, ReviewTypeOK, OneMoves
    <2>4. /\ Known(id0)' /\ ~Paid(id0)' /\ ~Known(id0)
          /\ \A id : id # id0 => (Known(id)' <=> Known(id)) /\ (Paid(id)' <=> Paid(id))
      <3>1. Reserved # NoReceipt /\ ~(Reserved.charged >= 0)
        BY DEF Reserved, NoReceipt
      <3>2. QED
        BY <1>4, <2>0, <2>2, <3>1 DEF Known, Paid
    <2>5. /\ reviews[threads[w].job].state = "running" /\ Own(w)
          /\ reviews[threads[w].job].attempt = threads[w].attempt
      BY <1>1, <1>4 DEF LeaseHeld, Own, ReviewInv, TokensApart
    <2>6. KnownIsPresent'
      <3>1. id0[1] = threads[w].job /\ id0[2] = threads[w].attempt
        BY <2>0 DEF Call
      <3>2. QED
        BY <2>1, <2>4, <2>5, <3>1 DEF ReviewInv, KnownIsPresent
    <2>7. RecoverableIsPaid'
      <3> SUFFICES ASSUME NEW j \in Dossiers, reviews[j].state = "recoverable"
                   PROVE  Paid(CallOf(j))'
        BY <2>1 DEF RecoverableIsPaid
      <3>1. Paid(CallOf(j)) /\ CallOf(j)' = CallOf(j)
        BY <2>1 DEF ReviewInv, RecoverableIsPaid, CallOf
      <3>2. CallOf(j) # id0
        BY <3>1, <2>4, PaidIsKnown DEF ReviewInv
      <3>3. QED
        BY <2>4, <3>1, <3>2
    <2>8. /\ TokensApart' /\ QueuedWasCurrent' /\ StaleStays' /\ OutcomesSet'
          /\ \A v \in JointWorkers : /\ Call(v)' = Call(v) /\ (Own(v)' <=> Own(v))
                                     /\ (Serves(v)' <=> Serves(v))
          /\ \A v \in JointWorkers \ {w} : /\ (InFlight(v)' <=> InFlight(v))
                                           /\ (Unsent(v)' <=> Unsent(v))
                                           /\ threads'[v].pc = threads[v].pc
          /\ ~Unsent(w)' /\ threads'[w].pc = "send"
      BY <1>1, <2>1, MoveKeeps DEF OneMoves
    <2>9. OwnersAreFirst'
      <3> SUFFICES ASSUME NEW v \in JointWorkers, Serves(v), Own(v)
                   PROVE  /\ threads'[v].pc = "lookup" /\ Known(Call(v))' => Paid(Call(v))'
                          /\ Unsent(v)' => ~Known(Call(v))'
        BY <2>8 DEF OwnersAreFirst
      <3>1. CASE v = w
        BY <2>8, <3>1
      <3>2. CASE v # w
        <4>1. Call(v) # id0
          BY <1>1, <2>0, <2>5, <3>2 DEF ReviewInv, TokensApart, Own, Call
        <4>2. (Known(Call(v))' <=> Known(Call(v))) /\ (Paid(Call(v))' <=> Paid(Call(v)))
          <5>1. Call(v)' = Call(v)
            BY <2>8
          <5>2. QED
            BY <2>4, <4>1, <5>1 DEF Known, Paid
        <4>3. QED
          BY <2>8, <3>2, <4>2 DEF ReviewInv, OwnersAreFirst
      <3>3. QED
        BY <3>1, <3>2
    <2>10. Flights'
      <3>1. \A v \in JointWorkers : Serves(v) /\ InFlight(v) => Call(v) # id0 /\ v # w
        BY <1>1, <1>4, <2>0, PaidIsKnown, ReviewShapes DEF ReviewInv, Flights, InFlight
      <3>2. posts[id0] = 0
        BY <1>4, <2>0 DEF ReviewInv, PostsKnown
      <3>3. QED
        BY <2>0, <2>1, <2>2, <2>8, <3>1, <3>2, ReviewShapes DEF ReviewInv, Flights
    <2>11. PostsKnown' /\ RecordedIsFree'
      BY <1>1, <2>1, <2>4 DEF ReviewInv, PostsKnown, RecordedIsFree
    <2>12. SharedBudget'
      <3>1. JointBound' = JointBound - JointWithin(id0) + JointWithin(id0)'
        BY <1>1, <2>2, <2>3, JointBoundChanged DEF ReviewInv
      <3>2. JointWithin(id0) = 0 /\ JointWithin(id0)' \in Nat /\ JointWithin(id0)' =< 1
        BY <1>1, <2>2, <2>3, JointCosts, JointCostsAfter DEF ReviewInv
      <3>3. /\ JointBound \in Nat /\ JointSpent \in Nat /\ JointBound =< JointSpent
            /\ sshSpent \in Nat /\ SharedLimit \in Nat /\ sshSpent + JointSpent + 1 <= SharedLimit
        BY <1>4, JointBoundShape, ReviewShapes DEF ReviewInv, ReviewTypeOK, JointAffordable
      <3>4. sshSpent' + JointBound' <= SharedLimit
        BY <2>1, <3>1, <3>2, <3>3
      <3>5. \A id \in JointCallIds : JointCommitted(id)' > 1 => overrun'
        <4>1. JointCommitted(id0)' =< 1
          BY <2>2 DEF JointCommitted, Reserved, NoReceipt
        <4>2. \A id \in JointCallIds : id # id0 => JointCommitted(id)' = JointCommitted(id)
          BY <2>2 DEF JointCommitted
        <4>3. JointCommitted(id0)' \in Nat
          BY <2>2 DEF JointCommitted, Reserved, NoReceipt
        <4>4. QED
          BY <2>1, <4>1, <4>2, <4>3 DEF ReviewInv, SharedBudget
      <3>6. QED
        BY <3>4, <3>5 DEF SharedBudget
    <2>13. QED
      BY <2>3, <2>6, <2>7, <2>8, <2>9, <2>10, <2>11, <2>12 DEF ReviewInv
  <1>5. QED
    BY <1>2, <1>3, <1>4 DEF ReserveShared

LEMMA PostKeeps ==
    ASSUME ReviewInv, NEW w \in JointWorkers, Post(w)
    PROVE  ReviewInv'
  <1>1. Serves(w) /\ threads[w].pc = "send" /\ Call(w) \in JointCallIds
    BY AtServes, ReviewShapes DEF Post, ReviewInv, Steps
  <1>2. PICK id0 \in JointCallIds : id0 = Call(w)
    BY <1>1
  <1>3. /\ UNCHANGED <<mode, dossier, reviews, receipts, sshSpent, overrun>>
        /\ OneMoves(w, "sent")
    BY <1>1, StepMoves DEF Post, ReviewInv, Steps
  <1>4. /\ posts' \in [JointCallIds -> Nat] /\ posts[id0] = 0 /\ posts'[id0] = 1
        /\ \A id \in JointCallIds : id # id0 => posts'[id] = posts[id]
        /\ receipts[id0] = Reserved
    <2>1. receipts[id0] = Reserved /\ posts[id0] = 0
      BY <1>1, <1>2 DEF ReviewInv, Flights, InFlight
    <2>2. posts' = [posts EXCEPT ![id0] = posts[id0] + 1] /\ posts \in [JointCallIds -> Nat]
      BY <1>2 DEF Post, ReviewInv, ReviewTypeOK
    <2>3. QED
      BY <2>1, <2>2
  <1>5. ReviewTypeOK'
    BY <1>3, <1>4 DEF ReviewInv, ReviewTypeOK, OneMoves
  <1>6. /\ \A id : (Known(id)' <=> Known(id)) /\ (Paid(id)' <=> Paid(id))
        /\ \A j \in Dossiers : CallOf(j)' = CallOf(j)
    BY <1>3 DEF Known, Paid, CallOf
  <1>7. /\ TokensApart' /\ QueuedWasCurrent' /\ StaleStays' /\ OutcomesSet'
        /\ \A v \in JointWorkers : /\ Call(v)' = Call(v) /\ (Own(v)' <=> Own(v))
                                   /\ (Serves(v)' <=> Serves(v))
        /\ \A v \in JointWorkers \ {w} : /\ (InFlight(v)' <=> InFlight(v))
                                         /\ (Unsent(v)' <=> Unsent(v))
                                         /\ threads'[v].pc = threads[v].pc
        /\ ~Unsent(w)' /\ threads'[w].pc = "sent"
    BY <1>1, <1>3, MoveKeeps DEF OneMoves
  <1>8. KnownIsPresent' /\ RecoverableIsPaid'
    BY <1>3, <1>6 DEF ReviewInv, KnownIsPresent, RecoverableIsPaid
  <1>9. OwnersAreFirst'
    BY <1>6, <1>7 DEF ReviewInv, OwnersAreFirst
  <1>10. Flights'
    <2> SUFFICES ASSUME NEW v \in JointWorkers, Serves(v), InFlight(v)'
                 PROVE  /\ receipts[Call(v)] = Reserved
                        /\ threads'[v].pc = "send" => posts'[Call(v)] = 0
                        /\ \A u \in JointWorkers \ {v} : Serves(u) /\ InFlight(u)' => Call(u) # Call(v)
      BY <1>3, <1>7 DEF Flights
    <2>1. \A u \in JointWorkers : InFlight(u)' => InFlight(u)
      BY <1>1, <1>7 DEF InFlight
    <2>2. /\ receipts[Call(v)] = Reserved
          /\ \A u \in JointWorkers \ {v} : Serves(u) /\ InFlight(u)' => Call(u) # Call(v)
      BY <2>1 DEF ReviewInv, Flights
    <2>3. threads'[v].pc = "send" => posts'[Call(v)] = 0
      <3> SUFFICES ASSUME threads'[v].pc = "send" PROVE posts'[Call(v)] = 0
        OBVIOUS
      <3>1. v # w /\ threads[v].pc = "send"
        BY <1>7
      <3>2. Call(v) # id0 /\ Call(v) \in JointCallIds /\ posts[Call(v)] = 0
        BY <1>1, <1>2, <2>1, <3>1, ReviewShapes DEF ReviewInv, Flights, InFlight
      <3>3. QED
        BY <1>4, <3>2
    <2>4. QED
      BY <2>2, <2>3
  <1>11. PostsKnown'
    BY <1>4, <1>6, PaidIsKnown DEF ReviewInv, PostsKnown
  <1>12. RecordedIsFree'
    BY <1>1, <1>3, <1>6, <1>7 DEF ReviewInv, RecordedIsFree
  <1>13. SharedBudget'
    BY <1>3 DEF ReviewInv, SharedBudget, JointBound, JointWithin, JointCommitted
  <1>14. QED
    BY <1>5, <1>7, <1>8, <1>9, <1>10, <1>11, <1>12, <1>13 DEF ReviewInv

LEMMA SettleKeeps ==
    ASSUME ReviewInv, NEW w \in JointWorkers, SettleCall(w)
    PROVE  ReviewInv'
  <1>1. Serves(w) /\ threads[w].pc = "sent" /\ Call(w) \in JointCallIds
    BY AtServes, ReviewShapes DEF SettleCall, ReviewInv, Steps
  <1>2. PICK id0 \in JointCallIds : id0 = Call(w)
    BY <1>1
  <1>3. PICK charge \in JointCharges : /\ receipts' = [receipts EXCEPT ![id0] = [charged |-> charge]]
                                       /\ overrun' = (overrun \/ charge > 1)
    BY <1>2 DEF SettleCall
  <1>4. /\ UNCHANGED <<mode, dossier, reviews, sshSpent, posts>> /\ OneMoves(w, "check")
        /\ charge \in Nat /\ [charged |-> charge] \in ReceiptRows
    BY <1>1, StepMoves, ReceiptShapes, JointAiAssumption DEF SettleCall, ReviewInv, Steps
  <1>5. /\ receipts' \in [JointCallIds -> ReceiptRows] /\ receipts'[id0] = [charged |-> charge]
        /\ \A id \in JointCallIds : id # id0 => receipts'[id] = receipts[id]
        /\ receipts[id0] = Reserved
    BY <1>1, <1>2, <1>3, <1>4 DEF ReviewInv, ReviewTypeOK, Flights, InFlight
  <1>6. ReviewTypeOK'
    BY <1>3, <1>4, <1>5 DEF ReviewInv, ReviewTypeOK, OneMoves
  <1>7. /\ Paid(id0)' /\ Known(id0)' /\ Known(id0) /\ ~Paid(id0)
        /\ \A id : /\ Known(id)' <=> Known(id)
                   /\ Paid(id) => Paid(id)'
                   /\ id # id0 => (Paid(id)' <=> Paid(id))
    <2>1. [charged |-> charge] # NoReceipt /\ [charged |-> charge].charged >= 0
      BY <1>4 DEF NoReceipt
    <2>2. Known(id0) /\ ~Paid(id0)
      BY <1>5, PaidIsKnown DEF ReviewInv
    <2>3. QED
      BY <1>5, <2>1, <2>2 DEF Known, Paid
  <1>8. /\ TokensApart' /\ QueuedWasCurrent' /\ StaleStays' /\ OutcomesSet'
        /\ \A v \in JointWorkers : /\ Call(v)' = Call(v) /\ (Own(v)' <=> Own(v))
                                   /\ (Serves(v)' <=> Serves(v))
        /\ \A v \in JointWorkers \ {w} : /\ (InFlight(v)' <=> InFlight(v))
                                         /\ (Unsent(v)' <=> Unsent(v))
                                         /\ threads'[v].pc = threads[v].pc
        /\ ~Unsent(w)' /\ threads'[w].pc = "check"
    BY <1>1, <1>4, MoveKeeps DEF OneMoves
  <1>9. KnownIsPresent'
    BY <1>4, <1>7 DEF ReviewInv, KnownIsPresent
  <1>10. RecoverableIsPaid'
    <2>1. \A j \in Dossiers : CallOf(j)' = CallOf(j)
      BY <1>4 DEF CallOf
    <2>2. QED
      BY <1>4, <1>7, <2>1 DEF ReviewInv, RecoverableIsPaid
  <1>11. OwnersAreFirst'
    BY <1>7, <1>8 DEF ReviewInv, OwnersAreFirst
  <1>12. Flights'
    <2> SUFFICES ASSUME NEW v \in JointWorkers, Serves(v), InFlight(v)'
                 PROVE  /\ receipts'[Call(v)] = Reserved
                        /\ threads'[v].pc = "send" => posts'[Call(v)] = 0
                        /\ \A u \in JointWorkers \ {v} : Serves(u) /\ InFlight(u)' => Call(u) # Call(v)
      BY <1>8 DEF Flights
    <2>1. \A u \in JointWorkers : InFlight(u)' => InFlight(u) /\ u # w
      BY <1>8 DEF InFlight
    <2>2. Call(v) # id0 /\ Call(v) \in JointCallIds
      BY <1>1, <1>2, <2>1, ReviewShapes DEF ReviewInv, Flights, InFlight
    <2>3. receipts'[Call(v)] = Reserved
      BY <1>5, <2>1, <2>2 DEF ReviewInv, Flights
    <2>4. threads'[v].pc = "send" => posts'[Call(v)] = 0
      BY <1>4, <1>8, <2>1 DEF ReviewInv, Flights
    <2>5. \A u \in JointWorkers \ {v} : Serves(u) /\ InFlight(u)' => Call(u) # Call(v)
      BY <2>1 DEF ReviewInv, Flights
    <2>6. QED
      BY <2>3, <2>4, <2>5
  <1>13. PostsKnown'
    BY <1>4, <1>7 DEF ReviewInv, PostsKnown
  <1>14. RecordedIsFree'
    BY <1>4, <1>7, <1>8 DEF ReviewInv, RecordedIsFree
  <1>15. SharedBudget'
    <2>1. JointBound' = JointBound - JointWithin(id0) + JointWithin(id0)'
      BY <1>5, <1>6, JointBoundChanged DEF ReviewInv
    <2>2. JointWithin(id0) = 1 /\ JointWithin(id0)' \in Nat /\ JointWithin(id0)' =< 1
      BY <1>5, <1>6, JointCosts, JointCostsAfter DEF ReviewInv
    <2>3. JointBound \in Nat /\ sshSpent \in Nat /\ SharedLimit \in Nat
      BY JointBoundShape, ReviewShapes DEF ReviewInv, ReviewTypeOK
    <2>4. sshSpent' + JointBound' <= SharedLimit
      BY <1>4, <2>1, <2>2, <2>3 DEF ReviewInv, SharedBudget
    <2>5. \A id \in JointCallIds : JointCommitted(id)' > 1 => overrun'
      <3>1. JointCommitted(id0)' = charge
        <4>1. [charged |-> charge] # NoReceipt /\ [charged |-> charge] # Reserved
          BY <1>4 DEF NoReceipt, Reserved
        <4>2. QED
          BY <1>5, <4>1 DEF JointCommitted
      <3>2. \A id \in JointCallIds : id # id0 => JointCommitted(id)' = JointCommitted(id)
        BY <1>5 DEF JointCommitted
      <3>3. QED
        BY <1>3, <3>1, <3>2 DEF ReviewInv, SharedBudget
    <2>6. QED
      BY <2>4, <2>5 DEF SharedBudget
  <1>16. QED
    BY <1>6, <1>8, <1>9, <1>10, <1>11, <1>12, <1>13, <1>14, <1>15 DEF ReviewInv

-----------------------------------------------------------------------------
(* The claim.                                                              *)
RecoveredRows == [j \in Dossiers |-> [reviews[j] EXCEPT !.state = AfterRecovery(j)]]

LEMMA RecoveryKeeps ==
    ASSUME ReviewInv, NEW j \in Dossiers
    PROVE  /\ AfterRecovery(j) \in ReviewStates
           /\ RecoveredRows[j] \in ReviewRows /\ RecoveredRows[j].state = AfterRecovery(j)
           /\ RecoveredRows[j].attempt = reviews[j].attempt
           /\ RecoveredRows[j].token = reviews[j].token
           /\ Known(CallOf(j)) => AfterRecovery(j) \notin {"none", "queued"}
           /\ AfterRecovery(j) = "recoverable" => Paid(CallOf(j))
           /\ AfterRecovery(j) # "none" => dossier[CaseOf[j]] >= j
  <1>1. /\ reviews[j] \in ReviewRows /\ reviews[j].state \in ReviewStates
        /\ dossier[CaseOf[j]] \in Nat /\ j \in Nat
    BY ReviewShapes DEF ReviewInv
  <1>2. /\ Known(CallOf(j)) => reviews[j].state \notin {"none", "queued"}
        /\ reviews[j].state = "recoverable" => Paid(CallOf(j))
        /\ reviews[j].state # "none" => dossier[CaseOf[j]] >= j
    <2>1. Known(CallOf(j)) => CallOf(j) \in JointCallIds /\ CallOf(j)[1] = j
      BY DEF Known, CallOf
    <2>2. QED
      BY <2>1 DEF ReviewInv, KnownIsPresent, RecoverableIsPaid, QueuedWasCurrent
  <1>3. \/ AfterRecovery(j) = reviews[j].state
        \/ AfterRecovery(j) = "recoverable" /\ Paid(CallOf(j)) /\ reviews[j].state # "none"
        \/ AfterRecovery(j) = "uncertain" /\ reviews[j].state # "none"
        \/ /\ AfterRecovery(j) \in {"queued", "failed"} /\ ~Known(CallOf(j))
           /\ reviews[j].state # "none"
    <2>1. j \in Scanned => reviews[j].state = "uncertain"
      BY DEF Scanned, Lowest, Uncertain
    <2>2. QED
      BY <2>1 DEF AfterRecovery
  <1>4. AfterRecovery(j) \in ReviewStates
    BY <1>1, <1>3 DEF ReviewStates
  <1>5. /\ RecoveredRows[j] \in ReviewRows /\ RecoveredRows[j].state = AfterRecovery(j)
        /\ RecoveredRows[j].attempt = reviews[j].attempt
        /\ RecoveredRows[j].token = reviews[j].token
    <2> DEFINE state == AfterRecovery(j)
    <2>1. RecoveredRows[j] = [reviews[j] EXCEPT !.state = state]
      BY DEF RecoveredRows
    <2> HIDE DEF state
    <2>2. state \in ReviewStates
      BY <1>4 DEF state
    <2>3. /\ RecoveredRows[j] \in ReviewRows /\ RecoveredRows[j].state = state
          /\ RecoveredRows[j].attempt = reviews[j].attempt
          /\ RecoveredRows[j].token = reviews[j].token
      BY <1>1, <2>1, <2>2 DEF ReviewRows
    <2>4. QED
      BY <2>3 DEF state
  <1>6. QED
    BY <1>1, <1>2, <1>3, <1>4, <1>5

LEMMA ClaimKeeps ==
    ASSUME ReviewInv, NEW w \in JointWorkers, Claim(w)
    PROVE  ReviewInv'
  <1>1. LedgerSame /\ JointWorkers = DOMAIN threads
    BY DEF Claim, LedgerSame, ReviewInv, ReviewTypeOK
  <1>2. CASE Claimable(w) = {}
    <2>1. reviews' = RecoveredRows /\ threads' = [threads EXCEPT ![w] = AtRest]
      BY <1>2 DEF Claim, RecoveredRows
    <2>2. RowsMove
      <3>1. RecoveredRows \in [Dossiers -> ReviewRows]
        <4>1. \A j \in Dossiers : RecoveredRows[j] \in ReviewRows
          BY RecoveryKeeps
        <4>2. RecoveredRows = [j \in Dossiers |-> RecoveredRows[j]]
          BY DEF RecoveredRows
        <4>3. QED
          BY <4>1, <4>2
      <3>2. QED
        BY <2>1, <3>1, RecoveryKeeps DEF RowsMove
    <2>3. QED
      BY <1>1, <2>1, <2>2, OneRests, RowsKeep DEF ReviewInv
  <1>3. CASE Claimable(w) # {}
    <2>1. PICK j0 \in Dossiers : j0 = Min(Claimable(w)) /\ j0 \in Claimable(w)
      <3>1. Claimable(w) \in SUBSET Nat /\ Claimable(w) \subseteq Dossiers
        BY JointAiAssumption DEF Claimable
      <3>2. QED
        BY <1>3, <3>1, MinOfNats
    <2>2. AfterRecovery(j0) \in {"queued", "recoverable"}
      BY <2>1 DEF Claimable
    <2>3. PICK a \in Nat : a = IF AfterRecovery(j0) = "recoverable" THEN reviews[j0].attempt
                               ELSE reviews[j0].attempt + 1
      BY ReviewShapes DEF ReviewInv
    <2>4. PICK k \in Nat : k = reviews[j0].token + 1
      BY ReviewShapes DEF ReviewInv
    <2>5. PICK row : row = [state |-> "running", token |-> k, leased |-> TRUE, attempt |-> a]
      OBVIOUS
    <2>6. PICK fresh \in BOOLEAN : fresh = IsCurrent(j0)
      BY DEF IsCurrent
    <2>7. PICK t : t = [pc |-> "lookup", job |-> j0, attempt |-> a, token |-> k,
                        outcome |-> "none", fresh |-> fresh]
      OBVIOUS
    <2>8. /\ row \in ReviewRows /\ row.state = "running" /\ row.token = k /\ row.attempt = a
      BY <2>5 DEF ReviewRows, ReviewStates
    <2>9. /\ a <= MaxReviewClaims
          /\ reviews' = [RecoveredRows EXCEPT ![j0] = row]
          /\ threads' = [threads EXCEPT ![w] = t]
      <3>1. PICK recovered : /\ recovered = RecoveredRows
              /\ \E j \in {Min(Claimable(w))} :
                 \E r \in {[state |-> "running", token |-> reviews[j].token + 1, leased |-> TRUE,
                            attempt |-> IF recovered[j].state = "recoverable" THEN reviews[j].attempt
                                        ELSE reviews[j].attempt + 1]} :
                   /\ r.attempt <= MaxReviewClaims
                   /\ reviews' = [recovered EXCEPT ![j] = r]
                   /\ threads' = [threads EXCEPT ![w] =
                        [pc |-> "lookup", job |-> j, attempt |-> r.attempt, token |-> r.token,
                         outcome |-> "none", fresh |-> IsCurrent(j)]]
        BY <1>3 DEF Claim, RecoveredRows
      <3>2. RecoveredRows[j0].state = AfterRecovery(j0)
        BY RecoveryKeeps
      <3>3. PICK r \in {[state |-> "running", token |-> k, leased |-> TRUE, attempt |-> a]} :
                   /\ r.attempt <= MaxReviewClaims
                   /\ reviews' = [RecoveredRows EXCEPT ![j0] = r]
                   /\ threads' = [threads EXCEPT ![w] =
                        [pc |-> "lookup", job |-> j0, attempt |-> r.attempt, token |-> r.token,
                         outcome |-> "none", fresh |-> fresh]]
        BY <2>1, <2>3, <2>4, <2>6, <3>1, <3>2
      <3>4. r = row /\ r.attempt = a /\ r.token = k
        BY <2>5, <2>8, <3>3
      <3>5. QED
        BY <2>7, <3>3, <3>4
    <2>10. a \in 1 .. MaxReviewClaims
      <3>1. CASE AfterRecovery(j0) = "recoverable"
        <4>1. CallOf(j0) \in JointCallIds /\ a = reviews[j0].attempt
          BY <2>3, <3>1, RecoveryKeeps DEF Paid
        <4>2. QED
          BY <4>1 DEF CallOf, JointCallIds
      <3>2. CASE AfterRecovery(j0) # "recoverable"
        BY <2>3, <2>9, <3>2, ReviewShapes DEF ReviewInv
      <3>3. QED
        BY <3>1, <3>2
    <2>11. /\ t \in Serving /\ t.pc = "lookup" /\ t.job = j0 /\ t.attempt = a
           /\ t.token = k /\ t.fresh = fresh /\ t.outcome = "none"
      BY <2>7, <2>10 DEF Serving, Steps
    <2>12. /\ threads' \in [JointWorkers -> Threads] /\ threads'[w] = t
           /\ \A v \in JointWorkers \ {w} : threads'[v] = threads[v]
      BY <2>9, <2>11, ThreadShapes DEF ReviewInv, ReviewTypeOK
    <2>13. /\ reviews' \in [Dossiers -> ReviewRows] /\ reviews'[j0] = row
           /\ \A j \in Dossiers \ {j0} : reviews'[j] = RecoveredRows[j]
      <3>1. RecoveredRows \in [Dossiers -> ReviewRows]
        <4>1. \A j \in Dossiers : RecoveredRows[j] \in ReviewRows
          BY RecoveryKeeps
        <4>2. RecoveredRows = [j \in Dossiers |-> RecoveredRows[j]]
          BY DEF RecoveredRows
        <4>3. QED
          BY <4>1, <4>2
      <3>2. QED
        BY <2>8, <2>9, <3>1
    <2>14. /\ \A j \in Dossiers \ {j0} : /\ reviews'[j].state = AfterRecovery(j)
                                         /\ reviews'[j].attempt = reviews[j].attempt
                                         /\ reviews'[j].token = reviews[j].token
           /\ reviews'[j0].state = "running" /\ reviews'[j0].attempt = a
           /\ reviews'[j0].token = k /\ k > reviews[j0].token
           /\ reviews[j0].token \in Nat
      BY <2>4, <2>8, <2>13, RecoveryKeeps, ReviewShapes DEF ReviewInv
    <2>15. ReviewTypeOK'
      BY <1>1, <2>12, <2>13 DEF ReviewInv, ReviewTypeOK, LedgerSame
    <2>16. \A id : (Known(id)' <=> Known(id)) /\ (Paid(id)' <=> Paid(id))
      BY <1>1, LedgerKept
    (* A job is tried again only when none of its calls is known.          *)
    <2>17. \A id \in JointCallIds : Known(id) /\ id[1] = j0 =>
             AfterRecovery(j0) = "recoverable" /\ id[2] = a /\ Paid(id)
      <3> SUFFICES ASSUME NEW id \in JointCallIds, Known(id), id[1] = j0
                   PROVE  AfterRecovery(j0) = "recoverable" /\ id[2] = a /\ Paid(id)
        OBVIOUS
      <3>1. id = CallOf(j0)
        BY ReviewShapes DEF ReviewInv, KnownIsPresent, CallOf
      <3>2. AfterRecovery(j0) = "recoverable" /\ Paid(id)
        BY <2>2, <3>1, RecoveryKeeps
      <3>3. QED
        BY <2>3, <3>1, <3>2 DEF CallOf
    <2>18. KnownIsPresent'
      <3> SUFFICES ASSUME NEW id \in JointCallIds, Known(id)
                   PROVE  /\ id[2] = reviews'[id[1]].attempt
                          /\ reviews'[id[1]].state \notin {"none", "queued"}
        BY <2>16 DEF KnownIsPresent
      <3>1. CASE id[1] = j0
        BY <2>14, <2>17, <3>1
      <3>2. CASE id[1] # j0
        <4>1. id = CallOf(id[1]) /\ id[1] \in Dossiers
          BY ReviewShapes DEF ReviewInv, KnownIsPresent, CallOf
        <4>2. AfterRecovery(id[1]) \notin {"none", "queued"}
          BY <4>1, RecoveryKeeps
        <4>3. QED
          BY <2>14, <3>2, <4>1, <4>2 DEF ReviewInv, KnownIsPresent
      <3>3. QED
        BY <3>1, <3>2
    <2>19. RecoverableIsPaid'
      <3> SUFFICES ASSUME NEW j \in Dossiers, reviews'[j].state = "recoverable"
                   PROVE  Paid(CallOf(j))'
        BY DEF RecoverableIsPaid
      <3>1. j # j0 /\ AfterRecovery(j) = "recoverable"
        BY <2>14
      <3>2. Paid(CallOf(j)) /\ CallOf(j)' = CallOf(j)
        BY <2>14, <3>1, RecoveryKeeps DEF CallOf
      <3>3. QED
        BY <2>16, <3>2
    <2>20. \A v \in JointWorkers \ {w} :
             /\ threads'[v] = threads[v] /\ (Serves(v)' <=> Serves(v)) /\ Call(v)' = Call(v)
             /\ (InFlight(v)' <=> InFlight(v)) /\ (Unsent(v)' <=> Unsent(v))
             /\ Serves(v) => /\ threads[v].job \in Dossiers /\ threads[v].token \in Nat
                             /\ threads[v].token <= reviews[threads[v].job].token
      BY <2>12, ReviewShapes DEF Serves, Call, InFlight, Unsent, ReviewInv, TokensApart
    <2>21. \A v \in JointWorkers \ {w} : Serves(v) =>
             /\ threads[v].token <= reviews'[threads[v].job].token
             /\ threads[v].job = j0 => threads[v].token # k /\ ~Own(v)'
             /\ Own(v)' => /\ Own(v) /\ threads[v].job # j0
                           /\ reviews'[threads[v].job].attempt = reviews[threads[v].job].attempt
      BY <2>14, <2>20 DEF Own
    <2>22. /\ Serves(w)' /\ ~InFlight(w)' /\ ~Unsent(w)' /\ Call(w)' = <<j0, a>>
      BY <2>11, <2>12 DEF Serves, InFlight, Unsent, Call
    <2>23. TokensApart'
      <3>1. ASSUME NEW v \in JointWorkers \ {w}, Serves(v)'
            PROVE  /\ threads'[v].token <= reviews'[threads'[v].job].token
                   /\ Own(v)' => threads'[v].attempt = reviews'[threads'[v].job].attempt
                   /\ \A u \in JointWorkers \ {v} : Serves(u)' /\ threads'[u].job = threads'[v].job =>
                        threads'[u].token # threads'[v].token
        <4>1. \A u \in JointWorkers \ {v} : Serves(u)' /\ threads'[u].job = threads'[v].job =>
                        threads'[u].token # threads'[v].token
          <5>1. CASE threads[v].job = j0
            BY <2>11, <2>12, <2>20, <2>21, <3>1, <5>1 DEF ReviewInv, TokensApart
          <5>2. CASE threads[v].job # j0
            BY <2>11, <2>12, <2>20, <3>1, <5>2 DEF ReviewInv, TokensApart
          <5>3. QED
            BY <5>1, <5>2
        <4>2. QED
          BY <2>20, <2>21, <3>1, <4>1 DEF ReviewInv, TokensApart
      <3>2. /\ threads'[w].token <= reviews'[threads'[w].job].token
            /\ threads'[w].attempt = reviews'[threads'[w].job].attempt
            /\ \A u \in JointWorkers \ {w} : Serves(u)' /\ threads'[u].job = threads'[w].job =>
                 threads'[u].token # threads'[w].token
        BY <2>11, <2>12, <2>14, <2>20, <2>21
      <3>3. QED
        BY <3>1, <3>2 DEF TokensApart
    <2>24. OwnersAreFirst'
      <3>1. ASSUME NEW v \in JointWorkers \ {w}, Serves(v)', Own(v)'
            PROVE  /\ threads'[v].pc = "lookup" /\ Known(Call(v))' => Paid(Call(v))'
                   /\ Unsent(v)' => ~Known(Call(v))'
        BY <2>16, <2>20, <2>21, <3>1 DEF ReviewInv, OwnersAreFirst
      <3>2. Known(Call(w))' => Paid(Call(w))'
        <4>1. <<j0, a>> \in JointCallIds
          BY <2>10 DEF JointCallIds
        <4>2. Known(<<j0, a>>) => Paid(<<j0, a>>)
          BY <2>17, <4>1
        <4>3. QED
          BY <2>16, <2>22, <4>2
      <3>3. QED
        BY <2>22, <3>1, <3>2 DEF OwnersAreFirst
    <2>25. Flights'
      BY <1>1, <2>20, <2>22 DEF ReviewInv, Flights, LedgerSame
    <2>26. RecordedIsFree'
      BY <1>1, <2>11, <2>12, <2>16 DEF ReviewInv, RecordedIsFree, LedgerSame
    <2>27. QueuedWasCurrent'
      <3>1. dossier[CaseOf[j0]] >= j0
        BY <2>2, RecoveryKeeps
      <3>2. QED
        BY <1>1, <2>14, <3>1, RecoveryKeeps DEF QueuedWasCurrent, LedgerSame
    <2>28. StaleStays'
      <3>1. dossier[CaseOf[j0]] >= j0 /\ dossier[CaseOf[j0]] \in Nat /\ j0 \in Nat
        BY <2>2, RecoveryKeeps, ReviewShapes DEF ReviewInv
      <3>2. ~fresh => dossier[CaseOf[j0]] > j0
        <4>1. ~fresh => dossier[CaseOf[j0]] # j0
          BY <2>6, Zenon DEF IsCurrent
        <4>2. dossier[CaseOf[j0]] # j0 => dossier[CaseOf[j0]] > j0
          BY <3>1
        <4>3. QED
          BY <4>1, <4>2, Zenon
      <3>3. QED
        BY <1>1, <2>11, <2>12, <2>20, <3>1, <3>2 DEF ReviewInv, StaleStays, LedgerSame
    <2>29. OutcomesSet'
      BY <2>11, <2>12, <2>20 DEF ReviewInv, OutcomesSet
    <2>30. QED
      BY <1>1, <2>15, <2>18, <2>19, <2>23, <2>24, <2>25, <2>26, <2>27, <2>28, <2>29, LedgerKept
         DEF ReviewInv
  <1>4. QED
    BY <1>2, <1>3

-----------------------------------------------------------------------------
(* The operators and the environment.                                      *)

(* One row changes, and not in its attempt or token.                       *)
LEMMA RowKeeps ==
    ASSUME ReviewInv, LedgerSame, UNCHANGED threads, NEW j \in Dossiers, NEW r \in ReviewRows,
           reviews' = [reviews EXCEPT ![j] = r],
           r.attempt = reviews[j].attempt, r.token = reviews[j].token,
           r.state = reviews[j].state \/
             (r.state = "queued" /\ reviews[j].state = "none" /\ dossier[CaseOf[j]] >= j)
    PROVE  ReviewInv'
  <1>1. /\ reviews' \in [Dossiers -> ReviewRows] /\ reviews'[j] = r
        /\ \A k \in Dossiers : k # j => reviews'[k] = reviews[k]
    BY DEF ReviewInv, ReviewTypeOK
  <1>2. \A k \in Dossiers : /\ Known(CallOf(k)) => reviews[k].state \notin {"none", "queued"}
                            /\ reviews[k].state = "recoverable" => Paid(CallOf(k))
                            /\ reviews[k].state # "none" => dossier[CaseOf[k]] >= k
    <2> SUFFICES ASSUME NEW k \in Dossiers
                 PROVE  /\ Known(CallOf(k)) => reviews[k].state \notin {"none", "queued"}
                        /\ reviews[k].state = "recoverable" => Paid(CallOf(k))
                        /\ reviews[k].state # "none" => dossier[CaseOf[k]] >= k
      OBVIOUS
    <2>1. Known(CallOf(k)) => CallOf(k) \in JointCallIds /\ CallOf(k)[1] = k
      BY DEF Known, CallOf
    <2>2. QED
      BY <2>1 DEF ReviewInv, KnownIsPresent, RecoverableIsPaid, QueuedWasCurrent
  <1>3. RowsMove
    BY <1>1, <1>2 DEF RowsMove
  <1>4. QED
    BY <1>3, NoneMoves, RowsKeep DEF ReviewInv

LEMMA EnqueueKeeps ==
    ASSUME ReviewInv, NEW j \in Dossiers, EnqueueReview(j)
    PROVE  ReviewInv'
  <1> DEFINE r == [reviews[j] EXCEPT !.state = "queued"]
  <1>1. reviews[j] \in ReviewRows /\ j \in Nat
    BY ReviewShapes DEF ReviewInv
  <1>2. /\ r \in ReviewRows /\ r.state = "queued"
        /\ r.attempt = reviews[j].attempt /\ r.token = reviews[j].token
    BY <1>1 DEF ReviewRows, ReviewStates
  <1>3. /\ reviews' = [reviews EXCEPT ![j] = r] /\ LedgerSame /\ UNCHANGED threads
        /\ reviews[j].state = "none" /\ dossier[CaseOf[j]] = j
    BY DEF EnqueueReview, LedgerSame, IsCurrent
  <1> HIDE DEF r
  <1>4. dossier[CaseOf[j]] >= j
    BY <1>1, <1>3
  <1>5. QED
    BY <1>2, <1>3, <1>4, RowKeeps

LEMMA LeaseKeeps ==
    ASSUME ReviewInv, NEW j \in Dossiers, LeaseEnds(j)
    PROVE  ReviewInv'
  <1> DEFINE r == [reviews[j] EXCEPT !.leased = FALSE]
  <1>1. reviews[j] \in ReviewRows
    BY ReviewShapes DEF ReviewInv
  <1>2. /\ r \in ReviewRows /\ r.state = reviews[j].state
        /\ r.attempt = reviews[j].attempt /\ r.token = reviews[j].token
    BY <1>1 DEF ReviewRows
  <1>3. reviews' = [reviews EXCEPT ![j] = r] /\ LedgerSame /\ UNCHANGED threads
    BY DEF LeaseEnds, LedgerSame
  <1> HIDE DEF r
  <1>4. QED
    BY <1>2, <1>3, RowKeeps

LEMMA RestartKeeps ==
    ASSUME ReviewInv, Reconfigure \/ OwnerAway \/ OwnerBack \/ UNCHANGED reviewVars
    PROVE  ReviewInv'
  <1>1. LedgerSame /\ UNCHANGED reviews
    BY DEF Reconfigure, OwnerAway, OwnerBack, LedgerSame, reviewVars
  <1>2. ThreadsRest
    <2>1. CASE threads' = [w \in JointWorkers |-> AtRest]
      BY <2>1, ThreadShapes DEF ThreadsRest
    <2>2. CASE UNCHANGED threads
      BY <2>2, NoneMoves DEF ReviewInv
    <2>3. QED
      BY <2>1, <2>2 DEF Reconfigure, OwnerAway, OwnerBack, reviewVars
  <1>3. QED
    BY <1>1, <1>2, RestKeeps

(* A new dossier is above the present one: what was superseded stays so.   *)
LEMMA DossierKeeps ==
    ASSUME ReviewInv, NEW c \in ReviewCases, NewDossier(c)
    PROVE  ReviewInv'
  <1>1. UNCHANGED <<mode, reviews, receipts, sshSpent, overrun, posts, threads>>
    BY DEF NewDossier
  <1>2. PICK n \in Dossiers : n > dossier[c] /\ dossier' = [dossier EXCEPT ![c] = n]
    BY DEF NewDossier
  <1>3. n \in Nat /\ dossier \in [ReviewCases -> Nat]
    BY JointAiAssumption DEF ReviewInv, ReviewTypeOK
  <1>4. dossier' \in [ReviewCases -> Nat] /\ \A d \in ReviewCases : dossier'[d] >= dossier[d]
    BY <1>2, <1>3
  <1>5. \A j \in Dossiers : /\ CaseOf[j] \in ReviewCases /\ j \in Nat
                            /\ dossier[CaseOf[j]] \in Nat /\ dossier'[CaseOf[j]] \in Nat
                            /\ dossier'[CaseOf[j]] >= dossier[CaseOf[j]]
    BY <1>4, ReviewShapes DEF ReviewInv
  <1>6. ReviewTypeOK'
    BY <1>1, <1>4 DEF ReviewInv, ReviewTypeOK
  <1>7. KnownIsPresent' /\ RecoverableIsPaid'
    BY <1>1 DEF ReviewInv, KnownIsPresent, RecoverableIsPaid, Known, Paid, CallOf
  <1>8. TokensApart' /\ OwnersAreFirst' /\ Flights' /\ OutcomesSet'
    <2>1. /\ \A id : (Known(id)' <=> Known(id)) /\ (Paid(id)' <=> Paid(id))
          /\ \A w \in JointWorkers : /\ Call(w)' = Call(w) /\ (Own(w)' <=> Own(w))
                                     /\ (Serves(w)' <=> Serves(w)) /\ (InFlight(w)' <=> InFlight(w))
                                     /\ (Unsent(w)' <=> Unsent(w))
      BY <1>1 DEF Known, Paid, Call, Own, Serves, InFlight, Unsent
    <2>2. QED
      BY <1>1, <2>1 DEF ReviewInv, TokensApart, OwnersAreFirst, Flights, OutcomesSet
  <1>9. PostsKnown' /\ RecordedIsFree'
    BY <1>1 DEF ReviewInv, PostsKnown, RecordedIsFree, Known
  <1>10. QueuedWasCurrent'
    BY <1>1, <1>5 DEF ReviewInv, QueuedWasCurrent
  <1>11. StaleStays'
    <2> SUFFICES ASSUME NEW w \in JointWorkers, Serves(w)
                 PROVE  /\ dossier'[CaseOf[threads[w].job]] >= threads[w].job
                        /\ ~threads[w].fresh => dossier'[CaseOf[threads[w].job]] > threads[w].job
                        /\ threads[w].pc \in {"gate", "reserve", "send", "sent"} => threads[w].fresh
      BY <1>1 DEF StaleStays, Serves
    <2>1. threads[w].job \in Dossiers
      BY ReviewShapes DEF ReviewInv
    <2>2. QED
      BY <1>5, <2>1 DEF ReviewInv, StaleStays
  <1>12. SharedBudget'
    BY <1>1 DEF ReviewInv, SharedBudget, JointBound, JointWithin, JointCommitted
  <1>13. QED
    BY <1>6, <1>7, <1>8, <1>9, <1>10, <1>11, <1>12 DEF ReviewInv

LEMMA SshKeeps ==
    ASSUME ReviewInv, SshReserves
    PROVE  ReviewInv'
  <1>1. UNCHANGED <<mode, dossier, reviews, receipts, overrun, posts, threads>>
    BY DEF SshReserves
  <1>2. sshSpent \in Nat /\ sshSpent' = sshSpent + 1
    BY DEF SshReserves, ReviewInv, ReviewTypeOK
  <1>3. ReviewTypeOK'
    BY <1>1, <1>2 DEF ReviewInv, ReviewTypeOK
  <1>4. /\ \A id : (Known(id)' <=> Known(id)) /\ (Paid(id)' <=> Paid(id))
        /\ \A j : CallOf(j)' = CallOf(j)
        /\ \A w \in JointWorkers : /\ Call(w)' = Call(w) /\ (Own(w)' <=> Own(w))
                                   /\ (Serves(w)' <=> Serves(w)) /\ (InFlight(w)' <=> InFlight(w))
                                   /\ (Unsent(w)' <=> Unsent(w))
    BY <1>1 DEF Known, Paid, CallOf, Call, Own, Serves, InFlight, Unsent
  <1>5. KnownIsPresent' /\ RecoverableIsPaid' /\ PostsKnown' /\ RecordedIsFree' /\ QueuedWasCurrent'
    BY <1>1, <1>4 DEF ReviewInv, KnownIsPresent, RecoverableIsPaid, PostsKnown, RecordedIsFree,
                      QueuedWasCurrent
  <1>6. TokensApart' /\ OwnersAreFirst' /\ Flights' /\ OutcomesSet' /\ StaleStays'
    BY <1>1, <1>4 DEF ReviewInv, TokensApart, OwnersAreFirst, Flights, OutcomesSet, StaleStays
  <1>7. SharedBudget'
    <2>1. JointBound' = JointBound /\ \A id : JointCommitted(id)' = JointCommitted(id)
      BY <1>1 DEF JointBound, JointWithin, JointCommitted
    <2>2. /\ JointBound \in Nat /\ JointSpent \in Nat /\ JointBound =< JointSpent
          /\ SharedLimit \in Nat /\ sshSpent + JointSpent + 1 <= SharedLimit
      BY JointBoundShape, ReviewShapes DEF ReviewInv, SshReserves, JointAffordable
    <2>3. sshSpent' + JointBound' <= SharedLimit
      BY <1>2, <2>1, <2>2
    <2>4. QED
      BY <1>1, <2>1, <2>3 DEF ReviewInv, SharedBudget
  <1>8. QED
    BY <1>3, <1>5, <1>6, <1>7 DEF ReviewInv

-----------------------------------------------------------------------------
LEMMA ReviewStarts == ReviewInit => ReviewInv
  <1> SUFFICES ASSUME ReviewInit PROVE ReviewInv
    OBVIOUS
  <1>1. ReviewTypeOK
    <2>1. [state |-> "none", attempt |-> 0, token |-> 0, leased |-> FALSE] \in ReviewRows
      BY DEF ReviewRows, ReviewStates
    <2>2. QED
      BY <2>1, ReceiptShapes, ThreadShapes DEF ReviewInit, ReviewTypeOK
  <1>2. /\ \A id \in JointCallIds : ~Known(id) /\ ~Paid(id) /\ posts[id] = 0
                                    /\ JointCommitted(id) = 0 /\ JointWithin(id) = 0
        /\ \A w \in JointWorkers : ~Serves(w) /\ threads[w].pc = "idle"
        /\ \A j \in Dossiers : reviews[j].state = "none"
    <2>1. \A id \in JointCallIds : ~Known(id) /\ ~Paid(id) /\ posts[id] = 0
                                   /\ JointCommitted(id) = 0 /\ JointWithin(id) = 0
      BY DEF ReviewInit, Known, Paid, NoReceipt, JointCommitted, JointWithin
    <2>2. QED
      BY <2>1, ThreadShapes DEF ReviewInit, Serves
  <1>3. JointBound = 0
    <2> DEFINE f == [id \in JointCallIds |-> JointWithin(id)]
    <2>1. \A id \in JointCallIds : f[id] = 0
      BY <1>2
    <2> HIDE DEF f
    <2>2. SumFunctionOnSet(f, JointCallIds) = 0
      BY <2>1, JointCallsFinite, SumZero
    <2>3. QED
      BY <2>2 DEF f, JointBound
  <1>4. KnownIsPresent /\ RecoverableIsPaid /\ PostsKnown /\ RecordedIsFree /\ QueuedWasCurrent
    BY <1>2 DEF KnownIsPresent, RecoverableIsPaid, PostsKnown, RecordedIsFree, QueuedWasCurrent
  <1>5. TokensApart /\ OwnersAreFirst /\ Flights /\ OutcomesSet /\ StaleStays
    BY <1>2 DEF TokensApart, OwnersAreFirst, Flights, OutcomesSet, StaleStays
  <1>6. SharedBudget
    BY <1>2, <1>3, JointAiAssumption DEF SharedBudget, ReviewInit
  <1>7. QED
    BY <1>1, <1>4, <1>5, <1>6 DEF ReviewInv

LEMMA ReviewStepKeeps == ReviewInv /\ [ReviewNext]_reviewVars => ReviewInv'
  <1> SUFFICES ASSUME ReviewInv, [ReviewNext]_reviewVars PROVE ReviewInv'
    OBVIOUS
  <1>1. ASSUME NEW w \in JointWorkers, ThreadStep(w) PROVE ReviewInv'
    BY <1>1, PollKeeps, ClaimKeeps, LookUpKeeps, GateKeeps, ReserveKeeps, PostKeeps, SettleKeeps,
       CheckKeeps, ReplayKeeps, FinishKeeps, LeavesKeep DEF ThreadStep
  <1>2. ASSUME NEW w \in JointWorkers, RetryUnsent(w) \/ ThreadDies(w) PROVE ReviewInv'
    BY <1>2, RetryKeeps, LeavesKeep
  <1>3. ASSUME NEW j \in Dossiers, EnqueueReview(j) \/ LeaseEnds(j) PROVE ReviewInv'
    BY <1>3, EnqueueKeeps, LeaseKeeps
  <1>4. ASSUME NEW c \in ReviewCases, NewDossier(c) PROVE ReviewInv'
    BY <1>4, DossierKeeps
  <1>5. CASE SshReserves
    BY <1>5, SshKeeps
  <1>6. CASE Reconfigure \/ OwnerAway \/ OwnerBack \/ UNCHANGED reviewVars
    BY <1>6, RestartKeeps
  <1>7. QED
    BY <1>1, <1>2, <1>3, <1>4, <1>5, <1>6 DEF ReviewNext

(* A dossier has one known call at most, and no other was ever sent.       *)
LEMMA OnePost ==
    ASSUME ReviewInv, NEW j \in Dossiers
    PROVE  SumFunctionOnSet(posts, {id \in JointCallIds : id[1] = j}) <= 1
  <1> DEFINE ids == {id \in JointCallIds : id[1] = j}
  <1> SUFFICES SumFunctionOnSet(posts, ids) <= 1
    OBVIOUS
  <1>1. IsFiniteSet(ids) /\ \A id \in ids : posts[id] \in Nat /\ posts[id] <= 1
    BY JointCallsFinite, FS_Subset, ReviewShapes DEF ReviewInv, PostsKnown
  <1>2. \A id \in ids : posts[id] # 0 => id = CallOf(j)
    BY ReviewShapes DEF ReviewInv, PostsKnown, KnownIsPresent, CallOf
  <1> HIDE DEF ids
  <1>3. CASE \A id \in ids : posts[id] = 0
    BY <1>1, <1>3, SumZero
  <1>4. CASE \E id \in ids : posts[id] # 0
    <2>1. PICK id0 \in ids : posts[id0] # 0
      BY <1>4
    <2>2. IsFiniteSet(ids \ {id0}) /\ \A id \in ids \ {id0} : posts[id] = 0
      BY <1>1, <1>2, <2>1, FS_Subset
    <2>3. SumFunctionOnSet(posts, ids \ {id0}) = 0
      BY <2>2, SumZero
    <2>4. SumFunctionOnSet(posts, ids) = posts[id0] + SumFunctionOnSet(posts, ids \ {id0})
      BY <1>1, <2>1, SumOut
    <2>5. QED
      BY <1>1, <2>1, <2>3, <2>4
  <1>5. QED
    BY <1>3, <1>4

(* Whatever dies between the two databases, restarts or comes late: a     *)
(* dossier is submitted at most once, only from a case that was current    *)
(* when it was claimed, and both queues stay within the one budget but     *)
(* for the excess of a call dearer than its reservation, which halts them. *)
THEOREM JointSpendSafe == ReviewSpec => []JointSpendIsSafe
  <1>1. ReviewInv => JointSpendIsSafe
    <2> SUFFICES ASSUME ReviewInv PROVE JointSpendIsSafe
      OBVIOUS
    <2>1. \A w \in JointWorkers : JointAt(w, "send") \/ JointAt(w, "sent") => threads[w].fresh
      BY AtServes DEF ReviewInv, StaleStays, JointAt, Steps
    <2>2. QED
      BY <2>1, OnePost DEF ReviewInv, SharedBudget, JointBound, JointSpendIsSafe
  <1>2. QED
    BY <1>1, ReviewStarts, ReviewStepKeeps, PTL DEF ReviewSpec

-----------------------------------------------------------------------------
(* The joint store.  The inductive invariant: what a store is by itself,   *)
(* what it owes to the sources, and what a checkpoint or the running job   *)
(* may conclude from it.                                                   *)

Faults == {"none", "read", "capacity", "not_local_tcp"}
Marks == [heads : [Anchors -> Nat], ssh : Nat]
Identities == {None, Now, Gone}
Registrations == [requested : Nat, error : Faults,
                  state : {"absent", "pending", "fresh", "unavailable", "needs_review", "not_eligible"}]
Projections == [network : Nat, ssh : Nat, generation : Nat]
Stores ==
  [regs : [Anchors -> Registrations], cases : [Anchors -> Seq(Projections)], generation : Nat,
   discovery : [id : {None, Now}, target : Nat, cursor : Nat, complete : BOOLEAN, error : Faults],
   cycle : [id : {None, Now}, items : [Anchors -> Outcomes \cup {"pending", NoItem}],
            captured : [Anchors -> Nat], finishedLast : BOOLEAN],
   runtime : [pending : BOOLEAN, discovered : BOOLEAN, refresh : Identities, recovery : Identities,
              error : Faults]]
Memories ==
  [phase : {"idle", "discover", "refresh"}, qualified : BOOLEAN, resume : BOOLEAN,
   state : {"not_started", "running", "waiting", "backoff", "blocked"},
   discovery : Identities, refresh : Identities, oldDiscovery : Identities, oldRefresh : Identities,
   success : Marks]

Precedes(a, b) == (\A i \in Anchors : a.heads[i] =< b.heads[i]) /\ a.ssh =< b.ssh

(* An anchor asks for no more than the sources hold, is shown no newer     *)
(* than it asks for, and as fresh only when it is what it asks for.        *)
AnchorSound(s, i, src) ==
  /\ s.regs[i].requested = 0 <=> s.regs[i].state = "absent"
  /\ s.regs[i].requested =< src.heads[i]
  /\ i \in Unmapped => s.regs[i].state = "absent"
  /\ HasCase(s, i) => /\ s.regs[i].state # "absent"
                      /\ Current(s, i).network =< s.regs[i].requested
                      /\ Current(s, i).ssh =< src.ssh
  /\ s.regs[i].state = "fresh" => HasCase(s, i) /\ Current(s, i).network = s.regs[i].requested
  /\ s.cycle.items[i] = "pending" => s.regs[i].state # "absent" /\ s.cycle.id = Now
  /\ s.cycle.items[i] = NoItem => s.regs[i].state \in {"absent", "pending"}

StoreSound(s, src) ==
  /\ s \in Stores
  /\ \A i \in Anchors : AnchorSound(s, i, src)
  /\ OpensCleanly(s) /\ IsFiniteSet(SavedRevisions(s))
  /\ s.discovery.complete => s.discovery.id = Now

(* What an anchor that a mark does not know is shown from, and what a      *)
(* cycle published, is no older than the mark.                             *)
LaterThan(s, mark) ==
  \A i \in Anchors : HasCase(s, i) /\ mark.heads[i] = 0 => Current(s, i).ssh >= mark.ssh
CycleAfter(s, mark) ==
  \A i \in Anchors : s.cycle.items[i] \in {"published", "unchanged"} =>
    HasCase(s, i) /\ Current(s, i).ssh >= mark.ssh

(* What the current discovery has registered, and what revalidation needs. *)
ScanSound(s, sn) ==
  s.discovery.id = Now =>
    /\ s.discovery.cursor =< s.discovery.target /\ s.discovery.target =< Cardinality(Anchors)
    /\ \A i \in Anchors : sn.heads[i] > 0 => i =< s.discovery.target
    /\ \A i \in Anchors : i =< s.discovery.cursor /\ i \notin Unmapped =>
         s.regs[i].requested >= sn.heads[i]
    /\ s.discovery.complete => s.discovery.cursor = s.discovery.target
RuntimeSound(s, sn, fl) ==
  /\ s.discovery.id = None => s.runtime.pending \/ sn = Nothing
  /\ s.runtime.refresh = Now => CycleAfter(s, sn)
  /\ s.runtime.pending /\ s.runtime.recovery = Now => Precedes(fl, sn)

StoreInv(s, sn, fl, src) ==
  StoreSound(s, src) /\ LaterThan(s, sn) /\ ScanSound(s, sn) /\ RuntimeSound(s, sn, fl)

(* A round that may still claim success works on a cycle that began after  *)
(* its discovery.                                                          *)
Claims(m) ==
  /\ m.qualified /\ m.phase = "refresh" /\ m.discovery = Now
  /\ m.refresh = Now \/ (m.refresh = None /\ m.oldRefresh # Now)
MemorySound(m, s, sn, src) ==
  /\ m \in Memories /\ Precedes(m.success, src)
  /\ m.phase # "refresh" => m.refresh = None
  /\ Claims(m) /\ s.cycle.id = Now => CycleAfter(s, sn)
  /\ Covers(s, m.success) /\ LaterThan(s, m.success)

AtDiscovery == {"discover", "begin", "page"}
AtRefresh == {"refresh", "preflight", "begun", "items"}
JobSound ==
  /\ job = [by |-> job.by, at |-> job.at, mem |-> job.mem, left |-> job.left]
  /\ job.by # "tick" => job.mem = NewState
  /\ job.by = "tick" /\ job.at \in AtDiscovery => job.mem.phase = "discover"
  /\ job.by = "tick" /\ job.at \in AtRefresh => job.mem.phase = "refresh"
  /\ job.at = "page" => store.discovery.id = Now /\ ~store.discovery.complete
  /\ job.by = "tick" /\ job.at = "preflight" => store.cycle.id = None \/ Attempted(store.cycle)
  /\ job.by = "tick" /\ job.at \in {"begun", "items"} => job.mem.refresh = Now

JointInv ==
  /\ Sources \in Marks /\ seen \in Marks /\ failed \in Marks
  /\ \A i \in Anchors : heads[i] > 0 => \A j \in 1 .. i - 1 : heads[j] > 0
  /\ Precedes(seen, Sources) /\ Precedes(failed, Sources)
  /\ StoreInv(store, seen, failed, Sources)
  /\ StoreSound(snapshot, Sources) /\ LaterThan(snapshot, seen)
  /\ MemorySound(checkpoint, store, seen, Sources) /\ MemorySound(job.mem, store, seen, Sources)
  /\ JobSound

(* The constants, and the parts of a store.                                *)
LEMMA JointConstants ==
  /\ IsFiniteSet(Anchors) /\ Anchors \subseteq Nat
  /\ \E n \in Nat : Anchors = 1 .. n /\ n = Cardinality(Anchors)
  /\ Unmapped \subseteq Anchors /\ RegistrationLimit \in Nat /\ RevisionLimit \in Nat
  /\ PageLimit \in Nat \ {0} /\ MaxSsh \in Nat
  <1>1. Cardinality(Anchors) \in Nat
    BY JointCasesAssumption, FS_CardinalityType
  <1>2. QED
    BY <1>1, JointCasesAssumption, JointRefreshAssumption

LEMMA StoreShape ==
  ASSUME NEW s \in Stores
  PROVE  /\ s.regs \in [Anchors -> Registrations] /\ s.cases \in [Anchors -> Seq(Projections)]
         /\ s.generation \in Nat
         /\ s.discovery \in [id : {None, Now}, target : Nat, cursor : Nat, complete : BOOLEAN,
                             error : Faults]
         /\ s.cycle \in [id : {None, Now}, items : [Anchors -> Outcomes \cup {"pending", NoItem}],
                         captured : [Anchors -> Nat], finishedLast : BOOLEAN]
         /\ s.runtime \in [pending : BOOLEAN, discovered : BOOLEAN, refresh : Identities,
                           recovery : Identities, error : Faults]
         /\ s = [regs |-> s.regs, cases |-> s.cases, generation |-> s.generation,
                 discovery |-> s.discovery, cycle |-> s.cycle, runtime |-> s.runtime]
  BY DEF Stores

LEMMA AnchorShape ==
  ASSUME NEW s \in Stores, NEW i \in Anchors
  PROVE  /\ s.regs[i] \in Registrations /\ s.regs[i].requested \in Nat
         /\ s.cases[i] \in Seq(Projections) /\ Len(s.cases[i]) \in Nat
         /\ HasCase(s, i) => /\ Current(s, i) \in Projections
                             /\ Current(s, i).network \in Nat /\ Current(s, i).ssh \in Nat
         /\ s.cycle.items[i] \in Outcomes \cup {"pending", NoItem}
         /\ s.cycle.captured[i] \in Nat
  <1>1. /\ s.regs[i] \in Registrations /\ s.cases[i] \in Seq(Projections)
        /\ s.cycle.items[i] \in Outcomes \cup {"pending", NoItem} /\ s.cycle.captured[i] \in Nat
    BY StoreShape
  <1>2. s.regs[i].requested \in Nat
    BY <1>1 DEF Registrations
  <1>3. ASSUME HasCase(s, i)
        PROVE  /\ Current(s, i) \in Projections
               /\ Current(s, i).network \in Nat /\ Current(s, i).ssh \in Nat
    <2>1. Len(s.cases[i]) \in 1 .. Len(s.cases[i])
      BY <1>1, <1>3 DEF HasCase
    <2>2. Current(s, i) \in Projections
      BY <1>1, <2>1 DEF Current
    <2>3. QED
      BY <2>2 DEF Projections
  <1>4. QED
    BY <1>1, <1>2, <1>3

(* A step of a store that keeps what it holds: no request is withdrawn and *)
(* no case shown from older evidence, what a cycle newly counts as         *)
(* published is from the evidence of now, and the mark for revalidation    *)
(* goes only with a discovery and a cycle that left everything fresh.      *)
Good == {"published", "unchanged"}
Revalidated(t) ==
  /\ t.discovery.complete /\ t.runtime.recovery = t.discovery.id
  /\ t.cycle.id # None /\ t.runtime.refresh = t.cycle.id /\ AllRefreshed(t.cycle)
  /\ \A i \in Registered(t) : t.regs[i].state = "fresh"
Grows(s, t, src) ==
  \A i \in Anchors :
    /\ HasCase(s, i) => /\ HasCase(t, i) /\ Current(t, i).network >= Current(s, i).network
                        /\ Current(t, i).ssh >= Current(s, i).ssh
    /\ HasCase(t, i) /\ ~HasCase(s, i) => Current(t, i).ssh >= src.ssh
Advances(s, t, src) ==
  /\ StoreSound(t, src) /\ Grows(s, t, src)
  /\ \A i \in Anchors : t.regs[i].requested >= s.regs[i].requested
  /\ \A i \in Anchors : t.cycle.items[i] \in Good =>
       s.cycle.items[i] \in Good \/ (HasCase(t, i) /\ Current(t, i).ssh >= src.ssh)
  /\ s.runtime.pending /\ ~t.runtime.pending => Revalidated(t)

(* Such a step keeps every promise about the store.                        *)
LEMMA AdvanceKeepsPromises ==
  ASSUME NEW src \in Marks, NEW s, NEW t, StoreSound(s, src), Advances(s, t, src),
         NEW mark \in Marks, Precedes(mark, src)
  PROVE  /\ Covers(s, mark) => Covers(t, mark)
         /\ LaterThan(s, mark) => LaterThan(t, mark)
         /\ CycleAfter(s, mark) => CycleAfter(t, mark)
  <1>1. s \in Stores /\ t \in Stores
    BY DEF StoreSound, Advances
  <1>2. /\ mark.ssh \in Nat /\ src.ssh \in Nat /\ mark.ssh =< src.ssh
        /\ \A i \in Anchors : mark.heads[i] \in Nat
    BY DEF Marks, Precedes
  <1>3. \A i \in Anchors :
          /\ HasCase(s, i) => Current(s, i).network \in Nat /\ Current(s, i).ssh \in Nat
          /\ HasCase(t, i) => Current(t, i).network \in Nat /\ Current(t, i).ssh \in Nat
    BY <1>1, AnchorShape
  <1>4. Grows(s, t, src)
    BY DEF Advances
  <1>5. Covers(s, mark) => Covers(t, mark)
    BY <1>2, <1>3, <1>4 DEF Covers, Grows
  <1>6. LaterThan(s, mark) => LaterThan(t, mark)
    BY <1>2, <1>3, <1>4 DEF LaterThan, Grows
  <1>7. CycleAfter(s, mark) => CycleAfter(t, mark)
    BY <1>2, <1>3, <1>4 DEF CycleAfter, Grows, Advances, Good
  <1>8. QED
    BY <1>5, <1>6, <1>7

(* A complete discovery and a cycle after it that left everything fresh    *)
(* have published all that the sources held when the discovery began.      *)
LEMMA WholeRoundCovers ==
  ASSUME NEW src \in Marks, NEW s, StoreSound(s, src), NEW sn \in Marks, ScanSound(s, sn),
         s.discovery.complete, AllRefreshed(s.cycle), CycleAfter(s, sn),
         \A i \in Registered(s) : s.regs[i].state = "fresh"
  PROVE  Covers(s, sn)
  <1>1. s \in Stores
    BY DEF StoreSound
  <1>2. SUFFICES ASSUME NEW i \in Anchors, sn.heads[i] > 0, i \notin Unmapped
                 PROVE  HasCase(s, i) /\ Current(s, i).network >= sn.heads[i] /\ Current(s, i).ssh >= sn.ssh
    BY DEF Covers
  <1>3. AnchorSound(s, i, src) /\ s.discovery.id = Now
    BY DEF StoreSound
  <1>4. /\ sn.heads[i] \in Nat /\ sn.ssh \in Nat /\ i \in Nat
        /\ s.discovery.cursor \in Nat /\ s.discovery.target \in Nat
    BY <1>1, StoreShape, JointConstants DEF Marks
  <1>5. s.regs[i].requested >= sn.heads[i]
    BY <1>2, <1>3, <1>4 DEF ScanSound
  <1>6. s.regs[i].requested \in Nat /\ s.cycle.items[i] \in Outcomes \cup {"pending", NoItem}
    BY <1>1, AnchorShape
  <1>7. s.regs[i].state # "absent"
    BY <1>2, <1>3, <1>4, <1>5, <1>6 DEF AnchorSound
  <1>8. s.regs[i].state = "fresh"
    BY <1>7 DEF Registered
  <1>9. s.cycle.items[i] \in {"published", "unchanged"}
    BY <1>3, <1>6, <1>8 DEF AnchorSound, AllRefreshed, Attempted, ItemsIn, Outcomes
  <1>10. HasCase(s, i) /\ Current(s, i).network = s.regs[i].requested
    BY <1>3, <1>8 DEF AnchorSound
  <1>11. QED
    BY <1>5, <1>9, <1>10 DEF CycleAfter

LEMMA EarlierIsCovered ==
  ASSUME NEW s \in Stores, NEW a \in Marks, NEW b \in Marks, Precedes(a, b), Covers(s, b)
  PROVE  Covers(s, a)
  <1>1. /\ a.ssh \in Nat /\ b.ssh \in Nat /\ a.ssh =< b.ssh
        /\ \A i \in Anchors : a.heads[i] \in Nat /\ b.heads[i] \in Nat /\ a.heads[i] =< b.heads[i]
    BY DEF Marks, Precedes
  <1>2. \A i \in Anchors : HasCase(s, i) => Current(s, i).network \in Nat /\ Current(s, i).ssh \in Nat
    BY AnchorShape
  <1>3. QED
    BY <1>1, <1>2 DEF Covers

(* The transactions of the store.                                          *)
LEMMA IsStore ==
  ASSUME NEW t,
         t = [regs |-> t.regs, cases |-> t.cases, generation |-> t.generation,
              discovery |-> t.discovery, cycle |-> t.cycle, runtime |-> t.runtime],
         t.regs \in [Anchors -> Registrations], t.cases \in [Anchors -> Seq(Projections)],
         t.generation \in Nat,
         t.discovery \in [id : {None, Now}, target : Nat, cursor : Nat, complete : BOOLEAN,
                          error : Faults],
         t.cycle \in [id : {None, Now}, items : [Anchors -> Outcomes \cup {"pending", NoItem}],
                      captured : [Anchors -> Nat], finishedLast : BOOLEAN],
         t.runtime \in [pending : BOOLEAN, discovered : BOOLEAN, refresh : Identities,
                        recovery : Identities, error : Faults]
  PROVE  t \in Stores
  BY DEF Stores

(* A store with the same registrations, cases and generation.              *)
LEMMA SameCasesSound ==
  ASSUME NEW src, NEW s, NEW t \in Stores, StoreSound(s, src),
         t.regs = s.regs, t.cases = s.cases, t.generation = s.generation,
         t.discovery.complete => t.discovery.id = Now,
         \A i \in Anchors :
           /\ t.cycle.items[i] = "pending" => t.regs[i].state # "absent" /\ t.cycle.id = Now
           /\ t.cycle.items[i] = NoItem => t.regs[i].state \in {"absent", "pending"}
  PROVE  /\ StoreSound(t, src)
         /\ \A i \in Anchors : (HasCase(t, i) <=> HasCase(s, i)) /\ Current(t, i) = Current(s, i)
  <1>1. \A i \in Anchors : (HasCase(t, i) <=> HasCase(s, i)) /\ Current(t, i) = Current(s, i)
    BY DEF HasCase, Current
  <1>2. \A i \in Anchors : AnchorSound(t, i, src)
    BY <1>1 DEF StoreSound, AnchorSound
  <1>3. Registered(t) = Registered(s) /\ SavedRevisions(t) = SavedRevisions(s)
    BY DEF Registered, SavedRevisions
  <1>4. OpensCleanly(t) /\ IsFiniteSet(SavedRevisions(t))
    BY <1>1, <1>3 DEF StoreSound, OpensCleanly
  <1>5. QED
    BY <1>1, <1>2, <1>4 DEF StoreSound

LEMMA SameCasesAdvance ==
  ASSUME NEW src \in Marks, NEW s, NEW t \in Stores, StoreSound(s, src),
         t.regs = s.regs, t.cases = s.cases, t.generation = s.generation,
         t.discovery.complete => t.discovery.id = Now,
         \A i \in Anchors :
           /\ t.cycle.items[i] = "pending" => t.regs[i].state # "absent" /\ t.cycle.id = Now
           /\ t.cycle.items[i] = NoItem => t.regs[i].state \in {"absent", "pending"}
           /\ t.cycle.items[i] \in Good => s.cycle.items[i] \in Good,
         s.runtime.pending /\ ~t.runtime.pending => Revalidated(t)
  PROVE  Advances(s, t, src)
  <1>1. s \in Stores
    BY DEF StoreSound
  <1>2. /\ StoreSound(t, src)
        /\ \A i \in Anchors : (HasCase(t, i) <=> HasCase(s, i)) /\ Current(t, i) = Current(s, i)
    BY SameCasesSound
  <1>3. \A i \in Anchors : /\ s.regs[i].requested \in Nat
                           /\ HasCase(s, i) => Current(s, i).network \in Nat /\ Current(s, i).ssh \in Nat
    BY <1>1, AnchorShape
  <1>4. Grows(s, t, src)
    BY <1>2, <1>3 DEF Grows
  <1>5. QED
    BY <1>2, <1>3, <1>4 DEF Advances

(* begin_discovery, when none is under way.                                *)
LEMMA BeginDiscoveryAdvances ==
  ASSUME NEW src \in Marks, NEW s, StoreSound(s, src), NEW target \in Nat,
         s.discovery.id = None \/ s.discovery.complete,
         NEW t, t = BeginDiscovery(s, target)
  PROVE  /\ Advances(s, t, src)
         /\ t.regs = s.regs /\ t.cases = s.cases /\ t.cycle.id = s.cycle.id /\ t.cycle.items = s.cycle.items
         /\ t.discovery.id = Now /\ t.discovery.target = target /\ t.discovery.cursor = 0
         /\ t.discovery.complete => target = 0
         /\ t.runtime.pending = s.runtime.pending /\ t.runtime.refresh = None
         /\ t.runtime.recovery = Now
  <1>1. s \in Stores
    BY DEF StoreSound
  <1>21. s.cycle.finishedLast \in BOOLEAN
    BY <1>1, StoreShape
  <1>22. s.runtime \in [pending : BOOLEAN, discovered : BOOLEAN, refresh : Identities,
                        recovery : Identities, error : Faults]
    BY <1>1, StoreShape
  <1>2. PICK b \in BOOLEAN, f \in BOOLEAN, e \in Faults :
          /\ target < 1 => b = TRUE /\ f = FALSE /\ e = "none"
          /\ ~(target < 1) => b = FALSE /\ f = s.cycle.finishedLast /\ e = s.runtime.error
    <2>1. s.cycle.finishedLast \in BOOLEAN /\ s.runtime.error \in Faults /\ "none" \in Faults
      BY <1>1, StoreShape DEF Faults
    <2>2. CASE target < 1
      BY <2>1, <2>2
    <2>3. CASE ~(target < 1)
      BY <2>1, <2>3
    <2>4. QED
      BY <2>2, <2>3
  <1>3. PICK d, c, r :
          /\ d = [id |-> Now, target |-> target, cursor |-> 0, complete |-> b, error |-> "none"]
          /\ c = [s.cycle EXCEPT !.finishedLast = f]
          /\ r = [pending |-> s.runtime.pending, discovered |-> b, refresh |-> None, recovery |-> Now,
                  error |-> e]
    OBVIOUS
  <1>4. t = [s EXCEPT !.discovery = d, !.cycle = c, !.runtime = r]
    <2>1. s.discovery.id # None /\ ~s.discovery.complete => FALSE
      OBVIOUS
    <2>2. CASE target < 1
      <3>1. b = TRUE /\ f = FALSE /\ e = "none"
        BY <1>2, <2>2
      <3>2. QED
        BY <1>3, <2>1, <2>2, <3>1 DEF BeginDiscovery
    <2>3. CASE ~(target < 1)
      <3>1. b = FALSE /\ f = s.cycle.finishedLast /\ e = s.runtime.error
        BY <1>2, <2>3
      <3>2. r = [pending |-> s.runtime.pending, discovered |-> target < 1, refresh |-> None,
                 recovery |-> Now, error |-> IF target < 1 THEN "none" ELSE s.runtime.error]
        BY <1>3, <2>3, <3>1
      <3>3. d = [id |-> Now, target |-> target, cursor |-> 0, complete |-> target < 1,
                 error |-> "none"]
        BY <1>3, <2>3, <3>1
      <3>4. c = [s.cycle EXCEPT !.finishedLast = @ /\ ~(target < 1)]
        BY <1>21, <1>3, <2>3, <3>1
      <3>5. s = [regs |-> s.regs, cases |-> s.cases, generation |-> s.generation,
                 discovery |-> s.discovery, cycle |-> s.cycle, runtime |-> s.runtime]
        BY <1>1, StoreShape
      <3>6. QED
        BY <2>1, <3>2, <3>3, <3>4, <3>5 DEF BeginDiscovery
    <2>4. QED
      BY <2>2, <2>3
  <1>5. /\ t.regs = s.regs /\ t.cases = s.cases /\ t.generation = s.generation
        /\ t.discovery = d /\ t.cycle = c /\ t.runtime = r
        /\ t = [regs |-> t.regs, cases |-> t.cases, generation |-> t.generation,
                discovery |-> t.discovery, cycle |-> t.cycle, runtime |-> t.runtime]
    <2>1. /\ t.regs = s.regs /\ t.cases = s.cases /\ t.generation = s.generation
          /\ t.discovery = d /\ t.cycle = c /\ t.runtime = r
      BY <1>1, <1>4, StoreShape
    <2>2. t = [regs |-> t.regs, cases |-> t.cases, generation |-> t.generation,
               discovery |-> t.discovery, cycle |-> t.cycle, runtime |-> t.runtime]
      BY <1>1, <1>4, StoreShape
    <2>3. QED
      BY <2>1, <2>2
  <1>6. /\ c.id = s.cycle.id /\ c.items = s.cycle.items
        /\ c \in [id : {None, Now}, items : [Anchors -> Outcomes \cup {"pending", NoItem}],
                  captured : [Anchors -> Nat], finishedLast : BOOLEAN]
    BY <1>1, <1>3, StoreShape
  <1>7. /\ r.pending = s.runtime.pending /\ r.refresh = None /\ r.recovery = Now
        /\ r \in [pending : BOOLEAN, discovered : BOOLEAN, refresh : Identities,
                  recovery : Identities, error : Faults]
    <2>1. None \in Identities /\ Now \in Identities
      BY DEF Identities
    <2>2. b \in BOOLEAN /\ e \in Faults
      BY <1>2
    <2>3. QED
      BY <1>22, <1>3, <2>1, <2>2
  <1>8. d \in [id : {None, Now}, target : Nat, cursor : Nat, complete : BOOLEAN, error : Faults]
    BY <1>3 DEF Faults
  <1>9. t \in Stores
    BY <1>1, <1>5, <1>6, <1>7, <1>8, StoreShape, IsStore
  <1>10. /\ t.regs = s.regs /\ t.cases = s.cases /\ t.generation = s.generation
         /\ t.discovery = d /\ t.cycle = c /\ t.runtime = r
    BY <1>5
  <1>11. \A i \in Anchors :
           /\ t.cycle.items[i] = "pending" => t.regs[i].state # "absent" /\ t.cycle.id = Now
           /\ t.cycle.items[i] = NoItem => t.regs[i].state \in {"absent", "pending"}
           /\ t.cycle.items[i] \in Good => s.cycle.items[i] \in Good
    BY <1>6, <1>10 DEF StoreSound, AnchorSound
  <1>12. t.discovery.complete => t.discovery.id = Now
    BY <1>3, <1>10
  <1>13. t.runtime.pending = s.runtime.pending
    BY <1>7, <1>10
  <1>14. Advances(s, t, src)
    BY <1>9, <1>10, <1>11, <1>12, <1>13, SameCasesAdvance
  <1>15. /\ t.discovery.id = Now /\ t.discovery.target = target /\ t.discovery.cursor = 0
         /\ t.discovery.complete = b
    BY <1>3, <1>10
  <1>16. t.discovery.complete => target = 0
    <2>1. CASE target < 1
      BY <2>1
    <2>2. CASE ~(target < 1)
      BY <1>2, <1>15, <2>2
    <2>3. QED
      BY <2>1, <2>2
  <1>17. t.cycle.id = s.cycle.id /\ t.cycle.items = s.cycle.items
    BY <1>6, <1>10
  <1>18. t.runtime.refresh = None /\ t.runtime.recovery = Now
    BY <1>7, <1>10
  <1>19. QED
    BY <1>10, <1>13, <1>14, <1>15, <1>16, <1>17, <1>18

(* _record_discovery_failure and fail_discovery.                           *)
LEMMA FailureAdvances ==
  ASSUME NEW src \in Marks, NEW s, StoreSound(s, src), NEW code \in Faults, NEW t,
         \/ t = DiscoveryFailure(s, code)
         \/ t = FailDiscovery(s, s.discovery.cursor, code) /\ ~s.discovery.complete
  PROVE  /\ Advances(s, t, src)
         /\ t.regs = s.regs /\ t.cases = s.cases /\ t.cycle = s.cycle
         /\ t.discovery.id = s.discovery.id /\ (t.discovery.complete => s.discovery.complete)
         /\ t.discovery.target = s.discovery.target /\ t.discovery.cursor = s.discovery.cursor
         /\ t.runtime.pending /\ t.runtime.refresh = None /\ t.runtime.recovery = None
  <1>1. s \in Stores
    BY DEF StoreSound
  <1>2. PICK r : r = [pending |-> TRUE, discovered |-> FALSE, refresh |-> None,
                      recovery |-> None, error |-> code]
    OBVIOUS
  <1>3. PICK d : /\ d = s.discovery \/ d = [s.discovery EXCEPT !.error = code]
                 /\ t = [regs |-> s.regs, cases |-> s.cases, generation |-> s.generation,
                         discovery |-> d, cycle |-> s.cycle, runtime |-> r]
    <2>1. CASE t = DiscoveryFailure(s, code)
      <3>1. t = [s EXCEPT !.runtime = r]
        BY <1>2, <2>1 DEF DiscoveryFailure
      <3>2. QED
        BY <1>1, <3>1, StoreShape
    <2>2. CASE t = FailDiscovery(s, s.discovery.cursor, code) /\ ~s.discovery.complete
      <3>1. t = DiscoveryFailure([s EXCEPT !.discovery.error = code], code)
        BY <2>2 DEF FailDiscovery
      <3>2. PICK d : d = [s.discovery EXCEPT !.error = code]
        OBVIOUS
      <3>3. [s EXCEPT !.discovery.error = code]
              = [regs |-> s.regs, cases |-> s.cases, generation |-> s.generation,
                 discovery |-> d, cycle |-> s.cycle, runtime |-> s.runtime]
        <4>1. s = [regs |-> s.regs, cases |-> s.cases, generation |-> s.generation,
                   discovery |-> s.discovery, cycle |-> s.cycle, runtime |-> s.runtime]
          BY <1>1, StoreShape
        <4>2. QED
          BY ONLY <3>2, <4>1
      <3>4. QED
        BY <1>2, <3>1, <3>2, <3>3 DEF DiscoveryFailure
    <2>3. QED
      BY <2>1, <2>2
  <1>4. /\ d.id = s.discovery.id /\ d.complete = s.discovery.complete
        /\ d.target = s.discovery.target /\ d.cursor = s.discovery.cursor
        /\ d \in [id : {None, Now}, target : Nat, cursor : Nat, complete : BOOLEAN, error : Faults]
    BY <1>1, <1>3, StoreShape
  <1>5. r \in [pending : BOOLEAN, discovered : BOOLEAN, refresh : Identities,
               recovery : Identities, error : Faults]
    BY <1>2 DEF Identities
  <1>6. t \in Stores
    BY <1>1, <1>3, <1>4, <1>5, StoreShape DEF Stores
  <1>7. /\ t.regs = s.regs /\ t.cases = s.cases /\ t.generation = s.generation
        /\ t.discovery = d /\ t.cycle = s.cycle /\ t.runtime = r
    BY <1>3
  <1>8. \A i \in Anchors :
          /\ t.cycle.items[i] = "pending" => t.regs[i].state # "absent" /\ t.cycle.id = Now
          /\ t.cycle.items[i] = NoItem => t.regs[i].state \in {"absent", "pending"}
          /\ t.cycle.items[i] \in Good => s.cycle.items[i] \in Good
    BY <1>7 DEF StoreSound, AnchorSound
  <1>9. t.discovery.complete => t.discovery.id = Now
    BY <1>4, <1>7 DEF StoreSound
  <1>10. t.runtime.pending
    BY <1>2, <1>7
  <1>11. Advances(s, t, src)
    BY <1>6, <1>7, <1>8, <1>9, <1>10, SameCasesAdvance
  <1>12. t.runtime.refresh = None /\ t.runtime.recovery = None
    BY <1>2, <1>7
  <1>13. /\ t.discovery.id = s.discovery.id /\ (t.discovery.complete => s.discovery.complete)
         /\ t.discovery.target = s.discovery.target /\ t.discovery.cursor = s.discovery.cursor
    BY <1>4, <1>7
  <1>14. QED
    BY <1>7, <1>10, <1>11, <1>12, <1>13

(* _recover_if_complete.                                                   *)
LEMMA RecoverShape ==
  ASSUME NEW s \in Stores, NEW t, t = RecoverIfComplete(s)
  PROVE  /\ t \in Stores
         /\ t.regs = s.regs /\ t.cases = s.cases /\ t.generation = s.generation
         /\ t.discovery = s.discovery /\ t.cycle = s.cycle
         /\ t.runtime.refresh = s.runtime.refresh /\ t.runtime.recovery = s.runtime.recovery
         /\ t.runtime.pending => s.runtime.pending
         /\ s.runtime.pending /\ ~t.runtime.pending => Revalidated(t)
  <1>1. CASE ~RecoveryComplete(s)
    BY <1>1 DEF RecoverIfComplete
  <1>2. CASE RecoveryComplete(s)
    <2>1. PICK r : r = [s.runtime EXCEPT !.pending = FALSE]
      OBVIOUS
    <2>2. t = [regs |-> s.regs, cases |-> s.cases, generation |-> s.generation,
               discovery |-> s.discovery, cycle |-> s.cycle, runtime |-> r]
      <3>1. t = [s EXCEPT !.runtime = r]
        BY <1>2, <2>1 DEF RecoverIfComplete
      <3>2. QED
        BY <3>1, StoreShape
    <2>3. /\ r \in [pending : BOOLEAN, discovered : BOOLEAN, refresh : Identities,
                    recovery : Identities, error : Faults]
          /\ r.refresh = s.runtime.refresh /\ r.recovery = s.runtime.recovery /\ r.pending = FALSE
      BY <2>1, StoreShape
    <2>4. t \in Stores
      BY <2>2, <2>3, StoreShape DEF Stores
    <2>5. /\ t.regs = s.regs /\ t.cases = s.cases /\ t.generation = s.generation
          /\ t.discovery = s.discovery /\ t.cycle = s.cycle /\ t.runtime = r
      BY <2>2
    <2>6. Revalidated(t)
      BY <1>2, <2>3, <2>5 DEF Revalidated, RecoveryComplete, Registered
    <2>7. QED
      BY <2>3, <2>4, <2>5, <2>6
  <1>3. QED
    BY <1>1, <1>2

(* begin_cycle, when none is unfinished.                                   *)
LEMMA BeginCycleAdvances ==
  ASSUME NEW src \in Marks, NEW s, StoreSound(s, src),
         s.cycle.id = None \/ Attempted(s.cycle), NEW t, t = BeginCycle(s)
  PROVE  /\ Advances(s, t, src)
         /\ t.regs = s.regs /\ t.cases = s.cases /\ t.discovery = s.discovery
         /\ t.cycle.id = Now /\ \A i \in Anchors : t.cycle.items[i] \notin Good
         /\ t.runtime.recovery = s.runtime.recovery /\ (t.runtime.pending => s.runtime.pending)
  <1>1. s \in Stores
    BY DEF StoreSound
  <1>2. PICK c, r :
          /\ c = [id |-> Now,
                  items |-> [i \in Anchors |-> IF i \in Registered(s) THEN "pending" ELSE NoItem],
                  captured |-> [i \in Anchors |-> s.regs[i].requested], finishedLast |-> TRUE]
          /\ r = [s.runtime EXCEPT !.refresh = IF s.runtime.pending /\ s.runtime.discovered
                                               THEN Now ELSE Aged(@)]
    OBVIOUS
  <1>20. PICK u : u = [s EXCEPT !.cycle = c, !.runtime = r]
    OBVIOUS
  <1>3. t = RecoverIfComplete(u)
    <2>1. s.cycle.id # None /\ ~Attempted(s.cycle) => FALSE
      OBVIOUS
    <2>2. QED
      BY <1>2, <1>20, <2>1 DEF BeginCycle
  <1>4. c \in [id : {None, Now}, items : [Anchors -> Outcomes \cup {"pending", NoItem}],
               captured : [Anchors -> Nat], finishedLast : BOOLEAN]
    <2>1. [i \in Anchors |-> s.regs[i].requested] \in [Anchors -> Nat]
      BY <1>1, AnchorShape
    <2>2. [i \in Anchors |-> IF i \in Registered(s) THEN "pending" ELSE NoItem]
            \in [Anchors -> Outcomes \cup {"pending", NoItem}]
      OBVIOUS
    <2>3. QED
      BY <1>2, <2>1, <2>2
  <1>5. /\ r \in [pending : BOOLEAN, discovered : BOOLEAN, refresh : Identities,
                  recovery : Identities, error : Faults]
        /\ r.pending = s.runtime.pending /\ r.recovery = s.runtime.recovery
    BY <1>1, <1>2, StoreShape DEF Identities, Aged
  <1>7. /\ u.regs = s.regs /\ u.cases = s.cases /\ u.generation = s.generation
        /\ u.discovery = s.discovery /\ u.cycle = c /\ u.runtime = r
        /\ u = [regs |-> u.regs, cases |-> u.cases, generation |-> u.generation,
                discovery |-> u.discovery, cycle |-> u.cycle, runtime |-> u.runtime]
    <2>1. /\ u.regs = s.regs /\ u.cases = s.cases /\ u.generation = s.generation
          /\ u.discovery = s.discovery /\ u.cycle = c /\ u.runtime = r
      BY <1>1, <1>20, StoreShape
    <2>2. u = [regs |-> u.regs, cases |-> u.cases, generation |-> u.generation,
               discovery |-> u.discovery, cycle |-> u.cycle, runtime |-> u.runtime]
      BY <1>1, <1>20, StoreShape
    <2>3. QED
      BY <2>1, <2>2
  <1>6. u \in Stores
    BY <1>1, <1>4, <1>5, <1>7, StoreShape, IsStore
  <1>8. /\ t \in Stores
        /\ t.regs = u.regs /\ t.cases = u.cases /\ t.generation = u.generation
        /\ t.discovery = u.discovery /\ t.cycle = u.cycle
        /\ t.runtime.recovery = u.runtime.recovery
        /\ t.runtime.pending => u.runtime.pending
        /\ u.runtime.pending /\ ~t.runtime.pending => Revalidated(t)
    BY <1>3, <1>6, RecoverShape
  <1>9. \A i \in Anchors : c.items[i] = IF i \in Registered(s) THEN "pending" ELSE NoItem
    BY <1>2
  <1>10. \A i \in Anchors :
           /\ t.cycle.items[i] = "pending" => t.regs[i].state # "absent" /\ t.cycle.id = Now
           /\ t.cycle.items[i] = NoItem => t.regs[i].state \in {"absent", "pending"}
           /\ t.cycle.items[i] \notin Good
    BY <1>2, <1>7, <1>8, <1>9 DEF Registered, Good, NoItem
  <1>11. t.discovery.complete => t.discovery.id = Now
    BY <1>7, <1>8 DEF StoreSound
  <1>12. s.runtime.pending /\ ~t.runtime.pending => Revalidated(t)
    BY <1>5, <1>7, <1>8
  <1>13. Advances(s, t, src)
    BY <1>7, <1>8, <1>10, <1>11, <1>12, SameCasesAdvance
  <1>14. QED
    BY <1>2, <1>5, <1>7, <1>8, <1>10, <1>13

(* apply_discovery_page: registrations only grow, and the page's anchors   *)
(* ask for what it read of them.                                           *)
LEMMA RegisterSound ==
  ASSUME NEW src \in Marks, NEW s, StoreSound(s, src), NEW asked,
         DOMAIN asked \subseteq Anchors \ Unmapped,
         \A i \in DOMAIN asked : asked[i] \in Nat /\ asked[i] =< src.heads[i],
         FitsRegistrations(s, asked), NEW u, u = Register(s, asked)
  PROVE  /\ StoreSound(u, src) /\ Grows(s, u, src)
         /\ u.cases = s.cases /\ u.discovery = s.discovery /\ u.cycle = s.cycle /\ u.runtime = s.runtime
         /\ \A i \in Anchors : u.regs[i].requested >= s.regs[i].requested
         /\ \A i \in DOMAIN asked : u.regs[i].requested >= asked[i]
  <1>1. s \in Stores
    BY DEF StoreSound
  <1>2. PICK g : g = [i \in Anchors |->
                        IF i \in DOMAIN asked /\ asked[i] > s.regs[i].requested
                        THEN [requested |-> asked[i], state |-> "pending", error |-> "none"]
                        ELSE s.regs[i]]
    OBVIOUS
  <1>3. u = [s EXCEPT !.regs = g]
    BY <1>2 DEF Register
  <1>4. /\ u.regs = g /\ u.cases = s.cases /\ u.generation = s.generation
        /\ u.discovery = s.discovery /\ u.cycle = s.cycle /\ u.runtime = s.runtime
    BY <1>1, <1>3, StoreShape
  <1>5. u = [regs |-> u.regs, cases |-> u.cases, generation |-> u.generation,
             discovery |-> u.discovery, cycle |-> u.cycle, runtime |-> u.runtime]
    BY <1>1, <1>3, StoreShape
  <1>6. \A i \in Anchors : s.regs[i] \in Registrations /\ s.regs[i].requested \in Nat
    BY <1>1, AnchorShape
  <1>7. \A i \in Anchors :
          \/ u.regs[i] = s.regs[i] /\ (i \in DOMAIN asked => asked[i] =< s.regs[i].requested)
          \/ /\ i \in DOMAIN asked /\ u.regs[i].requested = asked[i] /\ asked[i] > s.regs[i].requested
             /\ u.regs[i].state = "pending" /\ u.regs[i] \in Registrations
    <2>1. SUFFICES ASSUME NEW i \in Anchors
                   PROVE  \/ g[i] = s.regs[i] /\ (i \in DOMAIN asked => asked[i] =< s.regs[i].requested)
                          \/ /\ i \in DOMAIN asked /\ g[i].requested = asked[i]
                             /\ asked[i] > s.regs[i].requested
                             /\ g[i].state = "pending" /\ g[i] \in Registrations
      BY <1>4
    <2>2. CASE i \in DOMAIN asked /\ asked[i] > s.regs[i].requested
      BY <1>2, <2>2 DEF Registrations, Faults
    <2>3. CASE ~(i \in DOMAIN asked /\ asked[i] > s.regs[i].requested)
      BY <1>2, <1>6, <2>3
    <2>4. QED
      BY <2>2, <2>3
  <1>8. g \in [Anchors -> Registrations]
    BY <1>2, <1>4, <1>6, <1>7
  <1>9. u \in Stores
    BY <1>1, <1>4, <1>5, <1>8, StoreShape, IsStore
  <1>10. \A i \in Anchors : (HasCase(u, i) <=> HasCase(s, i)) /\ Current(u, i) = Current(s, i)
    BY <1>4 DEF HasCase, Current
  <1>11. \A i \in Anchors : HasCase(s, i) => Current(s, i).network \in Nat /\ Current(s, i).ssh \in Nat
    BY <1>1, AnchorShape
  <1>12. ASSUME NEW i \in Anchors
         PROVE  AnchorSound(u, i, src)
    <2>1. AnchorSound(s, i, src)
      BY DEF StoreSound
    <2>2. CASE u.regs[i] = s.regs[i]
      BY <1>4, <1>10, <2>1, <2>2 DEF AnchorSound
    <2>3. CASE /\ i \in DOMAIN asked /\ u.regs[i].requested = asked[i]
               /\ asked[i] > s.regs[i].requested /\ u.regs[i].state = "pending"
      <3>1. /\ asked[i] \in Nat /\ asked[i] =< src.heads[i] /\ i \notin Unmapped
            /\ s.regs[i].requested \in Nat
        BY <1>6, <2>3
      <3>2. HasCase(u, i) => Current(u, i).network =< u.regs[i].requested /\ Current(u, i).ssh =< src.ssh
        BY <1>10, <1>11, <2>1, <2>3, <3>1 DEF AnchorSound
      <3>3. QED
        BY <1>4, <2>1, <2>3, <3>1, <3>2 DEF AnchorSound
    <2>4. QED
      BY <1>7, <2>2, <2>3
  <1>13. /\ Cardinality(Registered(u)) =< RegistrationLimit
         /\ \A i \in Anchors : HasCase(u, i) => i \in Registered(u)
    <2>1. Registered(u) \subseteq Registered(s) \cup NewAnchors(s, asked)
      BY <1>7 DEF Registered, NewAnchors
    <2>2. IsFiniteSet(Registered(s)) /\ IsFiniteSet(NewAnchors(s, asked))
      <3>1. Registered(s) \subseteq Anchors /\ NewAnchors(s, asked) \subseteq Anchors
        BY DEF Registered, NewAnchors
      <3>2. QED
        BY <3>1, JointConstants, FS_Subset
    <2>3. /\ IsFiniteSet(Registered(s) \cup NewAnchors(s, asked))
          /\ Cardinality(Registered(s) \cup NewAnchors(s, asked))
               = Cardinality(Registered(s)) + Cardinality(NewAnchors(s, asked))
                 - Cardinality(Registered(s) \cap NewAnchors(s, asked))
      BY <2>2, FS_Union
    <2>4. Cardinality(Registered(u)) =< Cardinality(Registered(s) \cup NewAnchors(s, asked))
      BY <2>1, <2>3, FS_Subset
    <2>5. Registered(s) \cap NewAnchors(s, asked) = {}
      BY DEF NewAnchors
    <2>6. Cardinality(Registered(s) \cap NewAnchors(s, asked)) = 0
      BY <2>5, FS_EmptySet
    <2>7. /\ Cardinality(Registered(s)) \in Nat /\ Cardinality(NewAnchors(s, asked)) \in Nat
          /\ Cardinality(Registered(u)) \in Nat
      BY <2>1, <2>2, <2>3, FS_CardinalityType, FS_Subset
    <2>8. Cardinality(Registered(s)) + Cardinality(NewAnchors(s, asked)) =< RegistrationLimit
      BY DEF FitsRegistrations
    <2>9. Cardinality(Registered(u)) =< RegistrationLimit
      BY <2>3, <2>4, <2>6, <2>7, <2>8, JointConstants
    <2>10. \A i \in Anchors : HasCase(u, i) => i \in Registered(u)
      BY <1>12 DEF AnchorSound, Registered
    <2>11. QED
      BY <2>9, <2>10
  <1>14. OpensCleanly(u) /\ IsFiniteSet(SavedRevisions(u))
    <2>1. SavedRevisions(u) = SavedRevisions(s)
      BY <1>4 DEF SavedRevisions
    <2>2. QED
      BY <1>4, <1>13, <2>1 DEF StoreSound, OpensCleanly
  <1>15. StoreSound(u, src)
    BY <1>4, <1>9, <1>12, <1>14 DEF StoreSound
  <1>16. Grows(s, u, src)
    BY <1>10, <1>11 DEF Grows
  <1>17. \A i \in Anchors : /\ u.regs[i].requested >= s.regs[i].requested
                            /\ i \in DOMAIN asked => u.regs[i].requested >= asked[i]
    BY <1>6, <1>7
  <1>18. QED
    BY <1>4, <1>15, <1>16, <1>17

LEMMA ApplyPageAdvances ==
  ASSUME NEW src \in Marks, NEW s, StoreSound(s, src), NEW asked,
         DOMAIN asked \subseteq Anchors \ Unmapped,
         \A i \in DOMAIN asked : asked[i] \in Nat /\ asked[i] =< src.heads[i],
         FitsRegistrations(s, asked), s.discovery.id = Now, ~s.discovery.complete,
         NEW next \in Nat, NEW complete \in BOOLEAN,
         NEW t, t = ApplyPage(s, s.discovery.cursor, asked, next, complete)
  PROVE  /\ Advances(s, t, src)
         /\ t.cycle.id = s.cycle.id /\ t.cycle.items = s.cycle.items
         /\ t.discovery.id = Now /\ t.discovery.target = s.discovery.target
         /\ t.discovery.cursor = next /\ t.discovery.complete = complete
         /\ t.runtime.pending = s.runtime.pending /\ t.runtime.refresh = s.runtime.refresh
         /\ t.runtime.recovery = s.runtime.recovery
         /\ \A i \in DOMAIN asked : t.regs[i].requested >= asked[i]
  <1>1. PICK u : u = Register(s, asked)
    OBVIOUS
  <1>2. /\ StoreSound(u, src) /\ Grows(s, u, src)
        /\ u.cases = s.cases /\ u.discovery = s.discovery /\ u.cycle = s.cycle /\ u.runtime = s.runtime
        /\ \A i \in Anchors : u.regs[i].requested >= s.regs[i].requested
        /\ \A i \in DOMAIN asked : u.regs[i].requested >= asked[i]
    BY <1>1, RegisterSound
  <1>3. u \in Stores
    BY <1>2 DEF StoreSound
  <1>4. PICK d, c, r :
          /\ d = [u.discovery EXCEPT !.cursor = next, !.complete = complete, !.error = "none"]
          /\ c = [u.cycle EXCEPT !.finishedLast = @ /\ ~complete]
          /\ r = IF complete /\ (~u.runtime.pending \/ u.runtime.recovery = Now)
                 THEN [u.runtime EXCEPT !.discovered = TRUE, !.error = "none"] ELSE u.runtime
    OBVIOUS
  <1>5. t = [u EXCEPT !.discovery = d, !.cycle = c, !.runtime = r]
    <2>1. t = [u EXCEPT !.discovery = [@ EXCEPT !.cursor = next, !.complete = complete,
                                                !.error = "none"],
                        !.cycle.finishedLast = @ /\ ~complete,
                        !.runtime = IF complete /\ (~@.pending \/ @.recovery = Now)
                                    THEN [@ EXCEPT !.discovered = TRUE, !.error = "none"] ELSE @]
      BY <1>1 DEF ApplyPage
    <2>2. u = [regs |-> u.regs, cases |-> u.cases, generation |-> u.generation,
               discovery |-> u.discovery, cycle |-> u.cycle, runtime |-> u.runtime]
      BY <1>3, StoreShape
    <2>3. QED
      BY <1>4, <2>1, <2>2
  <1>6. /\ t.regs = u.regs /\ t.cases = u.cases /\ t.generation = u.generation
        /\ t.discovery = d /\ t.cycle = c /\ t.runtime = r
    BY <1>3, <1>5, StoreShape
  <1>7. t = [regs |-> t.regs, cases |-> t.cases, generation |-> t.generation,
             discovery |-> t.discovery, cycle |-> t.cycle, runtime |-> t.runtime]
    BY <1>3, <1>5, StoreShape
  <1>8. "none" \in Faults
    BY DEF Faults
  <1>9. /\ d \in [id : {None, Now}, target : Nat, cursor : Nat, complete : BOOLEAN, error : Faults]
        /\ d.id = u.discovery.id /\ d.target = u.discovery.target /\ d.cursor = next
        /\ d.complete = complete
    BY <1>3, <1>4, <1>8, StoreShape
  <1>10. /\ c \in [id : {None, Now}, items : [Anchors -> Outcomes \cup {"pending", NoItem}],
                   captured : [Anchors -> Nat], finishedLast : BOOLEAN]
         /\ c.id = u.cycle.id /\ c.items = u.cycle.items
    BY <1>3, <1>4, StoreShape
  <1>11. /\ r \in [pending : BOOLEAN, discovered : BOOLEAN, refresh : Identities,
                   recovery : Identities, error : Faults]
         /\ r.pending = u.runtime.pending /\ r.refresh = u.runtime.refresh
         /\ r.recovery = u.runtime.recovery
    <2>1. u.runtime \in [pending : BOOLEAN, discovered : BOOLEAN, refresh : Identities,
                         recovery : Identities, error : Faults]
      BY <1>3, StoreShape
    <2>2. CASE r = u.runtime
      BY <2>1, <2>2
    <2>3. CASE r = [u.runtime EXCEPT !.discovered = TRUE, !.error = "none"]
      BY <1>8, <2>1, <2>3
    <2>4. QED
      BY <1>4, <2>2, <2>3
  <1>12. t \in Stores
    BY <1>3, <1>6, <1>7, <1>9, <1>10, <1>11, StoreShape, IsStore
  <1>13. \A i \in Anchors :
           /\ t.cycle.items[i] = "pending" => t.regs[i].state # "absent" /\ t.cycle.id = Now
           /\ t.cycle.items[i] = NoItem => t.regs[i].state \in {"absent", "pending"}
    BY <1>2, <1>6, <1>10 DEF StoreSound, AnchorSound
  <1>14. t.discovery.complete => t.discovery.id = Now
    BY <1>2, <1>6, <1>9
  <1>15. /\ StoreSound(t, src)
         /\ \A i \in Anchors : (HasCase(t, i) <=> HasCase(u, i)) /\ Current(t, i) = Current(u, i)
    BY <1>2, <1>6, <1>12, <1>13, <1>14, SameCasesSound
  <1>16. Grows(s, t, src)
    BY <1>2, <1>15 DEF Grows
  <1>17. t.runtime.pending = s.runtime.pending
    BY <1>2, <1>6, <1>11
  <1>18. Advances(s, t, src)
    BY <1>2, <1>6, <1>10, <1>15, <1>16, <1>17 DEF Advances
  <1>19. QED
    BY <1>2, <1>6, <1>9, <1>10, <1>11, <1>18

(* _finish of an item, after registration and case were written.           *)
LEMMA FinishAdvances ==
  ASSUME NEW src \in Marks, NEW s, NEW u, StoreSound(s, src), StoreSound(u, src), Grows(s, u, src),
         u.cycle = s.cycle, u.discovery = s.discovery, u.runtime = s.runtime,
         \A k \in Anchors : u.regs[k].requested = s.regs[k].requested,
         NEW i \in Anchors, u.regs[i].state # "absent", NEW o \in Outcomes,
         o \in Good => HasCase(u, i) /\ Current(u, i).ssh >= src.ssh,
         NEW t, t = FinishItem(u, i, o)
  PROVE  /\ Advances(s, t, src)
         /\ t.cycle.id = s.cycle.id /\ t.discovery = s.discovery
         /\ t.runtime.refresh = s.runtime.refresh /\ t.runtime.recovery = s.runtime.recovery
         /\ t.runtime.pending => s.runtime.pending
  <1>1. s \in Stores /\ u \in Stores
    BY DEF StoreSound
  <1>2. PICK c : c = [u.cycle EXCEPT !.items[i] = o, !.finishedLast = TRUE]
    OBVIOUS
  <1>3. PICK v : v = [u EXCEPT !.cycle = c]
    OBVIOUS
  <1>4. t = RecoverIfComplete(v)
    <2>1. u = [regs |-> u.regs, cases |-> u.cases, generation |-> u.generation,
               discovery |-> u.discovery, cycle |-> u.cycle, runtime |-> u.runtime]
      BY <1>1, StoreShape
    <2>2. [u EXCEPT !.cycle.items[i] = o, !.cycle.finishedLast = TRUE] = v
      BY <1>2, <1>3, <2>1
    <2>3. QED
      BY <2>2 DEF FinishItem
  <1>5. /\ v.regs = u.regs /\ v.cases = u.cases /\ v.generation = u.generation
        /\ v.discovery = u.discovery /\ v.cycle = c /\ v.runtime = u.runtime
    BY <1>1, <1>3, StoreShape
  <1>6. v = [regs |-> v.regs, cases |-> v.cases, generation |-> v.generation,
             discovery |-> v.discovery, cycle |-> v.cycle, runtime |-> v.runtime]
    BY <1>1, <1>3, StoreShape
  <1>7. /\ c \in [id : {None, Now}, items : [Anchors -> Outcomes \cup {"pending", NoItem}],
                  captured : [Anchors -> Nat], finishedLast : BOOLEAN]
        /\ c.id = u.cycle.id /\ c.items = [u.cycle.items EXCEPT ![i] = o]
    <2>1. u.cycle \in [id : {None, Now}, items : [Anchors -> Outcomes \cup {"pending", NoItem}],
                       captured : [Anchors -> Nat], finishedLast : BOOLEAN]
      BY <1>1, StoreShape
    <2>2. PICK f : f = [u.cycle.items EXCEPT ![i] = o]
      OBVIOUS
    <2>3. c = [u.cycle EXCEPT !.items = f, !.finishedLast = TRUE]
      BY <1>2, <2>1, <2>2
    <2>4. f \in [Anchors -> Outcomes \cup {"pending", NoItem}]
      BY <2>1, <2>2
    <2>5. QED
      BY <2>1, <2>2, <2>3, <2>4
  <1>8. v \in Stores
    BY <1>1, <1>5, <1>6, <1>7, StoreShape, IsStore
  <1>9. /\ t \in Stores
        /\ t.regs = v.regs /\ t.cases = v.cases /\ t.generation = v.generation
        /\ t.discovery = v.discovery /\ t.cycle = v.cycle
        /\ t.runtime.refresh = v.runtime.refresh /\ t.runtime.recovery = v.runtime.recovery
        /\ t.runtime.pending => v.runtime.pending
        /\ v.runtime.pending /\ ~t.runtime.pending => Revalidated(t)
    BY <1>4, <1>8, RecoverShape
  <1>10. \A k \in Anchors : t.cycle.items[k] = IF k = i THEN o ELSE s.cycle.items[k]
    <2>1. u.cycle.items \in [Anchors -> Outcomes \cup {"pending", NoItem}]
      BY <1>1, StoreShape
    <2>2. QED
      BY <1>5, <1>7, <1>9, <2>1
  <1>11. \A k \in Anchors :
           /\ t.cycle.items[k] = "pending" => t.regs[k].state # "absent" /\ t.cycle.id = Now
           /\ t.cycle.items[k] = NoItem => t.regs[k].state \in {"absent", "pending"}
    <2>1. o # "pending" /\ o # NoItem
      BY DEF Outcomes, NoItem
    <2>2. \A k \in Anchors : AnchorSound(u, k, src)
      BY DEF StoreSound
    <2>3. QED
      BY <1>5, <1>7, <1>9, <1>10, <2>1, <2>2 DEF AnchorSound
  <1>12. t.discovery.complete => t.discovery.id = Now
    BY <1>5, <1>9 DEF StoreSound
  <1>13. /\ StoreSound(t, src)
         /\ \A k \in Anchors : (HasCase(t, k) <=> HasCase(u, k)) /\ Current(t, k) = Current(u, k)
    BY <1>5, <1>9, <1>11, <1>12, SameCasesSound
  <1>14. Grows(s, t, src)
    BY <1>13 DEF Grows
  <1>15. \A k \in Anchors : t.cycle.items[k] \in Good =>
           s.cycle.items[k] \in Good \/ (HasCase(t, k) /\ Current(t, k).ssh >= src.ssh)
    BY <1>10, <1>13
  <1>16. \A k \in Anchors : s.regs[k].requested \in Nat /\ t.regs[k].requested = s.regs[k].requested
    BY <1>1, <1>5, <1>9, AnchorShape
  <1>17. Advances(s, t, src)
    BY <1>5, <1>9, <1>13, <1>14, <1>15, <1>16 DEF Advances
  <1>18. QED
    BY <1>5, <1>7, <1>9, <1>17

(* The registration of an anchor whose item is worked on.                  *)
Marked(s, i, st, e) == [s EXCEPT !.regs[i] = [@ EXCEPT !.state = st, !.error = e]]
LEMMA MarkSound ==
  ASSUME NEW src \in Marks, NEW s, StoreSound(s, src), NEW i \in Anchors,
         s.cycle.items[i] # NoItem, s.regs[i].state # "absent",
         NEW st \in {"fresh", "unavailable", "needs_review", "not_eligible"}, NEW e \in Faults,
         st = "fresh" => HasCase(s, i) /\ Current(s, i).network = s.regs[i].requested,
         NEW u, u = Marked(s, i, st, e)
  PROVE  /\ StoreSound(u, src) /\ Grows(s, u, src)
         /\ u.cases = s.cases /\ u.cycle = s.cycle /\ u.discovery = s.discovery /\ u.runtime = s.runtime
         /\ \A k \in Anchors : u.regs[k].requested = s.regs[k].requested
         /\ u.regs[i].state = st
  <1>1. s \in Stores
    BY DEF StoreSound
  <1>2. PICK q : q = [s.regs[i] EXCEPT !.state = st, !.error = e]
    OBVIOUS
  <1>3. PICK g : g = [s.regs EXCEPT ![i] = q]
    OBVIOUS
  <1>4. u = [s EXCEPT !.regs = g]
    BY <1>2, <1>3 DEF Marked
  <1>5. /\ u.regs = g /\ u.cases = s.cases /\ u.generation = s.generation
        /\ u.discovery = s.discovery /\ u.cycle = s.cycle /\ u.runtime = s.runtime
    BY <1>1, <1>4, StoreShape
  <1>6. u = [regs |-> u.regs, cases |-> u.cases, generation |-> u.generation,
             discovery |-> u.discovery, cycle |-> u.cycle, runtime |-> u.runtime]
    BY <1>1, <1>4, StoreShape
  <1>7. /\ q \in Registrations /\ q.requested = s.regs[i].requested /\ q.state = st
    <2>1. s.regs[i] \in Registrations
      BY <1>1, AnchorShape
    <2>2. QED
      BY <1>2, <2>1 DEF Registrations
  <1>8. /\ g \in [Anchors -> Registrations] /\ g[i] = q
        /\ \A k \in Anchors \ {i} : g[k] = s.regs[k]
    BY <1>1, <1>3, <1>7, StoreShape
  <1>9. u \in Stores
    BY <1>1, <1>5, <1>6, <1>8, StoreShape, IsStore
  <1>10. \A k \in Anchors : (HasCase(u, k) <=> HasCase(s, k)) /\ Current(u, k) = Current(s, k)
    BY <1>5 DEF HasCase, Current
  <1>11. \A k \in Anchors : HasCase(s, k) => Current(s, k).network \in Nat /\ Current(s, k).ssh \in Nat
    BY <1>1, AnchorShape
  <1>12. ASSUME NEW k \in Anchors
         PROVE  AnchorSound(u, k, src)
    <2>1. AnchorSound(s, k, src)
      BY DEF StoreSound
    <2>2. CASE k # i
      BY <1>5, <1>8, <1>10, <2>1, <2>2 DEF AnchorSound
    <2>3. CASE k = i
      BY <1>5, <1>7, <1>8, <1>10, <2>1, <2>3 DEF AnchorSound
    <2>4. QED
      BY <2>2, <2>3
  <1>13. Registered(u) = Registered(s) /\ SavedRevisions(u) = SavedRevisions(s)
    <2>1. \A k \in Anchors : u.regs[k].state = "absent" <=> s.regs[k].state = "absent"
      BY <1>5, <1>7, <1>8
    <2>2. QED
      BY <1>5, <2>1 DEF Registered, SavedRevisions
  <1>14. OpensCleanly(u) /\ IsFiniteSet(SavedRevisions(u))
    BY <1>5, <1>10, <1>13 DEF StoreSound, OpensCleanly
  <1>15. StoreSound(u, src)
    BY <1>5, <1>9, <1>12, <1>14 DEF StoreSound
  <1>16. Grows(s, u, src)
    BY <1>10, <1>11 DEF Grows
  <1>17. QED
    BY <1>5, <1>7, <1>8, <1>15, <1>16

(* A new revision of a case: revisions stay numbered without gap.          *)
LEMMA AddRevisionSound ==
  ASSUME NEW src \in Marks, NEW s, StoreSound(s, src), NEW i \in Anchors,
         s.regs[i].state # "absent", s.generation < RevisionLimit,
         NEW w, w.network = s.regs[i].requested, w.ssh = src.ssh, NEW u, u = AddRevision(s, i, w)
  PROVE  /\ StoreSound(u, src) /\ Grows(s, u, src)
         /\ u.regs = s.regs /\ u.cycle = s.cycle /\ u.discovery = s.discovery /\ u.runtime = s.runtime
         /\ HasCase(u, i) /\ Current(u, i).network = s.regs[i].requested
         /\ Current(u, i).ssh = src.ssh
  <1>1. s \in Stores
    BY DEF StoreSound
  <1>2. PICK p, n : p = [network |-> w.network, ssh |-> w.ssh, generation |-> s.generation + 1]
                    /\ n = s.generation + 1
    OBVIOUS
  <1>3. PICK b : b = [s.cases EXCEPT ![i] = Append(s.cases[i], p)]
    OBVIOUS
  <1>4. u = [s EXCEPT !.cases = b, !.generation = n]
    <2>1. s = [regs |-> s.regs, cases |-> s.cases, generation |-> s.generation,
               discovery |-> s.discovery, cycle |-> s.cycle, runtime |-> s.runtime]
      BY <1>1, StoreShape
    <2>2. QED
      BY <1>2, <1>3, <2>1 DEF AddRevision
  <1>5. /\ u.regs = s.regs /\ u.cases = b /\ u.generation = n
        /\ u.discovery = s.discovery /\ u.cycle = s.cycle /\ u.runtime = s.runtime
    BY <1>1, <1>4, StoreShape
  <1>6. u = [regs |-> u.regs, cases |-> u.cases, generation |-> u.generation,
             discovery |-> u.discovery, cycle |-> u.cycle, runtime |-> u.runtime]
    BY <1>1, <1>4, StoreShape
  <1>7. /\ p \in Projections /\ p.network = s.regs[i].requested /\ p.ssh = src.ssh
        /\ p.generation = n /\ n \in Nat /\ s.generation \in Nat
    <2>1. s.regs[i].requested \in Nat /\ s.generation \in Nat
      BY <1>1, AnchorShape, StoreShape
    <2>2. src.ssh \in Nat
      BY DEF Marks
    <2>3. QED
      BY <1>2, <2>1, <2>2 DEF Projections
  <1>8. s.cases[i] \in Seq(Projections) /\ s.cases \in [Anchors -> Seq(Projections)]
    BY <1>1, StoreShape
  <1>9. /\ b[i] = Append(s.cases[i], p) /\ \A k \in Anchors \ {i} : b[k] = s.cases[k]
        /\ b \in [Anchors -> Seq(Projections)]
    BY <1>3, <1>7, <1>8
  <1>10. PICK l \in Nat : l = Len(s.cases[i])
    BY <1>8
  <1>11. /\ Len(b[i]) = l + 1 /\ b[i][l + 1] = p /\ b[i] # << >>
         /\ \A k \in 1 .. l : b[i][k] = s.cases[i][k]
    BY <1>7, <1>8, <1>9, <1>10
  <1>12. u \in Stores
    BY <1>1, <1>5, <1>6, <1>7, <1>9, StoreShape, IsStore
  <1>13. /\ \A k \in Anchors \ {i} : (HasCase(u, k) <=> HasCase(s, k)) /\ Current(u, k) = Current(s, k)
         /\ HasCase(u, i) /\ Current(u, i) = p
    BY <1>5, <1>9, <1>11 DEF HasCase, Current
  <1>14. \A k \in Anchors : HasCase(s, k) => Current(s, k).network \in Nat /\ Current(s, k).ssh \in Nat
    BY <1>1, AnchorShape
  <1>15. src.ssh \in Nat /\ s.regs[i].requested \in Nat
    BY <1>1, AnchorShape DEF Marks
  <1>16. ASSUME NEW k \in Anchors
         PROVE  AnchorSound(u, k, src)
    <2>1. AnchorSound(s, k, src)
      BY DEF StoreSound
    <2>2. CASE k # i
      BY <1>5, <1>13, <2>1, <2>2 DEF AnchorSound
    <2>3. CASE k = i
      BY <1>5, <1>7, <1>13, <1>15, <2>1, <2>3 DEF AnchorSound
    <2>4. QED
      BY <2>2, <2>3
  <1>17. Grows(s, u, src)
    <2>1. AnchorSound(s, i, src)
      BY DEF StoreSound
    <2>2. HasCase(s, i) => Current(s, i).network =< p.network /\ Current(s, i).ssh =< p.ssh
      BY <1>7, <2>1 DEF AnchorSound
    <2>3. QED
      BY <1>7, <1>13, <1>14, <1>15, <2>2 DEF Grows
  <1>18. SavedRevisions(u) = SavedRevisions(s) \cup {<<i, l + 1>>} /\ <<i, l + 1>> \notin SavedRevisions(s)
    <2>1. \A k \in Anchors \ {i} : Len(u.cases[k]) = Len(s.cases[k])
      BY <1>5, <1>9
    <2>2. Len(u.cases[i]) = l + 1 /\ Len(s.cases[i]) = l
      BY <1>5, <1>10, <1>11
    <2>3. 1 .. (l + 1) = (1 .. l) \cup {l + 1} /\ l + 1 \notin 1 .. l
      OBVIOUS
    <2>4. \A x : x \in SavedRevisions(u) <=> \E k \in Anchors : \E r \in 1 .. Len(u.cases[k]) : x = <<k, r>>
      BY DEF SavedRevisions
    <2>5. \A x : x \in SavedRevisions(s) <=> \E k \in Anchors : \E r \in 1 .. Len(s.cases[k]) : x = <<k, r>>
      BY DEF SavedRevisions
    <2>6. ASSUME NEW x
          PROVE  x \in SavedRevisions(u) <=> x \in SavedRevisions(s) \cup {<<i, l + 1>>}
      <3>1. ASSUME NEW k \in Anchors, NEW r \in 1 .. Len(u.cases[k]), x = <<k, r>>
            PROVE  x \in SavedRevisions(s) \cup {<<i, l + 1>>}
        <4>1. CASE k # i
          BY <2>1, <2>5, <3>1, <4>1
        <4>2. CASE k = i
          BY <2>2, <2>3, <2>5, <3>1, <4>2
        <4>3. QED
          BY <4>1, <4>2
      <3>2. ASSUME NEW k \in Anchors, NEW r \in 1 .. Len(s.cases[k]), x = <<k, r>>
            PROVE  x \in SavedRevisions(u)
        <4>1. CASE k # i
          BY <2>1, <2>4, <3>2, <4>1
        <4>2. CASE k = i
          <5>1. r \in 1 .. Len(u.cases[k])
            BY <2>2, <2>3, <3>2, <4>2
          <5>2. QED
            BY <2>4, <3>2, <5>1
        <4>3. QED
          BY <4>1, <4>2
      <3>3. <<i, l + 1>> \in SavedRevisions(u)
        <4>1. l + 1 \in 1 .. Len(u.cases[i])
          BY <2>2, <2>3
        <4>2. QED
          BY <2>4, <4>1
      <3>4. QED
        BY <2>4, <2>5, <3>1, <3>2, <3>3
    <2>7. <<i, l + 1>> \notin SavedRevisions(s)
      <3>1. ASSUME NEW k \in Anchors, NEW r \in 1 .. Len(s.cases[k]), <<i, l + 1>> = <<k, r>>
            PROVE  FALSE
        <4>1. k = i /\ r = l + 1
          BY <3>1
        <4>2. QED
          BY <2>2, <2>3, <3>1, <4>1
      <3>2. QED
        BY <2>5, <3>1
    <2>8. QED
      BY <2>6, <2>7
  <1>19. OpensCleanly(s) /\ IsFiniteSet(SavedRevisions(s))
    BY DEF StoreSound
  <1>20. /\ IsFiniteSet(SavedRevisions(u)) /\ Cardinality(SavedRevisions(u)) = n
    <2>1. PICK S, x : S = SavedRevisions(s) /\ x = <<i, l + 1>>
      OBVIOUS
    <2>2. IsFiniteSet(S) /\ x \notin S /\ Cardinality(S) = s.generation
      BY <1>18, <1>19, <2>1 DEF OpensCleanly
    <2>3. IsFiniteSet(S \cup {x}) /\ Cardinality(S \cup {x}) = Cardinality(S) + 1
      BY <2>2, FS_AddElement
    <2>4. QED
      BY <1>2, <1>18, <2>1, <2>2, <2>3
  <1>21. {u.cases[v[1]][v[2]].generation : v \in SavedRevisions(u)} = 1 .. n
    <2>1. \A v \in SavedRevisions(s) : u.cases[v[1]][v[2]] = s.cases[v[1]][v[2]]
      <3>1. SUFFICES ASSUME NEW k \in Anchors, NEW r \in 1 .. Len(s.cases[k])
                     PROVE  u.cases[k][r] = s.cases[k][r]
        BY DEF SavedRevisions
      <3>2. CASE k # i
        BY <1>5, <1>9, <3>2
      <3>3. CASE k = i
        BY <1>5, <1>10, <1>11, <3>3
      <3>4. QED
        BY <3>2, <3>3
    <2>2. u.cases[i][l + 1].generation = n
      BY <1>5, <1>7, <1>11
    <2>3. {s.cases[v[1]][v[2]].generation : v \in SavedRevisions(s)} = 1 .. s.generation
      BY <1>19 DEF OpensCleanly
    <2>4. 1 .. n = (1 .. s.generation) \cup {n}
      BY <1>2, <1>7
    <2>5. {u.cases[v[1]][v[2]].generation : v \in SavedRevisions(s)}
            = {s.cases[v[1]][v[2]].generation : v \in SavedRevisions(s)}
      BY <2>1
    <2>6. {u.cases[v[1]][v[2]].generation : v \in SavedRevisions(u)}
            = {u.cases[v[1]][v[2]].generation : v \in SavedRevisions(s)} \cup {u.cases[i][l + 1].generation}
      BY <1>18
    <2>7. QED
      BY <2>2, <2>3, <2>4, <2>5, <2>6
  <1>22. OpensCleanly(u)
    <2>1. Registered(u) = Registered(s)
      BY <1>5 DEF Registered
    <2>2. \A k \in Anchors : HasCase(u, k) => k \in Registered(u)
      BY <1>16 DEF AnchorSound, Registered
    <2>3. u.generation =< RevisionLimit
      BY <1>2, <1>5, <1>7, JointConstants
    <2>4. QED
      BY <1>5, <1>19, <1>20, <1>21, <2>1, <2>2, <2>3 DEF OpensCleanly
  <1>23. StoreSound(u, src)
    BY <1>5, <1>12, <1>16, <1>20, <1>22 DEF StoreSound
  <1>24. QED
    BY <1>5, <1>7, <1>13, <1>17, <1>23

(* fail and publish.                                                       *)
LEMMA GrowsItself ==
  ASSUME NEW src \in Marks, NEW s, StoreSound(s, src)
  PROVE  Grows(s, s, src)
  <1>1. s \in Stores
    BY DEF StoreSound
  <1>2. \A k \in Anchors : HasCase(s, k) => Current(s, k).network \in Nat /\ Current(s, k).ssh \in Nat
    BY <1>1, AnchorShape
  <1>3. QED
    BY <1>2 DEF Grows

LEMMA GrowsOn ==
  ASSUME NEW src \in Marks, NEW s \in Stores, NEW u \in Stores, NEW v \in Stores,
         Grows(s, u, src), Grows(u, v, src)
  PROVE  Grows(s, v, src)
  <1>1. src.ssh \in Nat
    BY DEF Marks
  <1>2. \A k \in Anchors :
          /\ HasCase(s, k) => Current(s, k).network \in Nat /\ Current(s, k).ssh \in Nat
          /\ HasCase(u, k) => Current(u, k).network \in Nat /\ Current(u, k).ssh \in Nat
          /\ HasCase(v, k) => Current(v, k).network \in Nat /\ Current(v, k).ssh \in Nat
    BY AnchorShape
  <1>3. QED
    BY <1>1, <1>2 DEF Grows

LEMMA FailItemAdvances ==
  ASSUME NEW src \in Marks, NEW s, StoreSound(s, src), NEW i \in Anchors,
         s.cycle.items[i] = "pending", NEW code \in Faults, NEW t, t = FailItem(s, i, code)
  PROVE  /\ Advances(s, t, src)
         /\ t.cycle.id = s.cycle.id /\ t.discovery = s.discovery
         /\ t.runtime.refresh = s.runtime.refresh /\ t.runtime.recovery = s.runtime.recovery
         /\ t.runtime.pending => s.runtime.pending
  <1>1. s.regs[i].state # "absent" /\ s.cycle.items[i] # NoItem
    BY DEF StoreSound, AnchorSound, NoItem
  <1>2. CASE Superseded(s, i)
    <2>1. t = FinishItem(s, i, "superseded")
      BY <1>2 DEF FailItem
    <2>2. "superseded" \in Outcomes /\ "superseded" \notin Good
      BY DEF Outcomes, Good
    <2>3. Grows(s, s, src)
      BY GrowsItself
    <2>4. QED
      BY <1>1, <2>1, <2>2, <2>3, FinishAdvances
  <1>3. CASE ~Superseded(s, i)
    <2>1. PICK u : u = Marked(s, i, "unavailable", code)
      OBVIOUS
    <2>2. t = FinishItem(u, i, "failed")
      BY <1>3, <2>1 DEF FailItem, Marked
    <2>3. /\ StoreSound(u, src) /\ Grows(s, u, src)
          /\ u.cases = s.cases /\ u.cycle = s.cycle /\ u.discovery = s.discovery /\ u.runtime = s.runtime
          /\ \A k \in Anchors : u.regs[k].requested = s.regs[k].requested
          /\ u.regs[i].state = "unavailable"
      BY <1>1, <2>1, MarkSound
    <2>4. "failed" \in Outcomes /\ "failed" \notin Good
      BY DEF Outcomes, Good
    <2>5. QED
      BY <2>2, <2>3, <2>4, FinishAdvances
  <1>4. QED
    BY <1>2, <1>3

LEMMA PublishAdvances ==
  ASSUME NEW src \in Marks, NEW s, StoreSound(s, src), NEW i \in Anchors,
         s.cycle.items[i] = "pending",
         NEW w, w = [network |-> s.cycle.captured[i], ssh |-> src.ssh], NEW t, t = Publish(s, i, w)
  PROVE  /\ Advances(s, t, src)
         /\ t.cycle.id = s.cycle.id /\ t.discovery = s.discovery
         /\ t.runtime.refresh = s.runtime.refresh /\ t.runtime.recovery = s.runtime.recovery
         /\ t.runtime.pending => s.runtime.pending
  <1>1. s.regs[i].state # "absent" /\ s.cycle.items[i] # NoItem
    BY DEF StoreSound, AnchorSound, NoItem
  <1>2. Grows(s, s, src) /\ s \in Stores
    BY GrowsItself DEF StoreSound
  <1>3. "none" \in Faults /\ "capacity" \in Faults /\ "not_local_tcp" \in Faults
    BY DEF Faults
  <1>4. src.ssh \in Nat
    BY DEF Marks
  <1>5. CASE Superseded(s, i)
    <2>1. t = FinishItem(s, i, "superseded")
      BY <1>5 DEF Publish
    <2>2. "superseded" \in Outcomes /\ "superseded" \notin Good
      BY DEF Outcomes, Good
    <2>3. QED
      BY <1>1, <1>2, <2>1, <2>2, FinishAdvances
  <1>6. CASE ~Superseded(s, i) /\ <<i, w.network>> \in Refused
    <2>1. PICK st \in {"needs_review", "not_eligible"} :
            st = IF HasCase(s, i) THEN "needs_review" ELSE "not_eligible"
      OBVIOUS
    <2>2. PICK u : u = Marked(s, i, st, "not_local_tcp")
      OBVIOUS
    <2>3. t = FinishItem(u, i, "not_eligible")
      BY <1>6, <2>1, <2>2 DEF Publish, Reject, Marked
    <2>4. st \in {"fresh", "unavailable", "needs_review", "not_eligible"} /\ st # "fresh" /\ st # "absent"
      BY <2>1
    <2>5. /\ StoreSound(u, src) /\ Grows(s, u, src)
          /\ u.cases = s.cases /\ u.cycle = s.cycle /\ u.discovery = s.discovery /\ u.runtime = s.runtime
          /\ \A k \in Anchors : u.regs[k].requested = s.regs[k].requested
          /\ u.regs[i].state = st
      BY <1>1, <1>3, <2>2, <2>4, MarkSound
    <2>6. "not_eligible" \in Outcomes /\ "not_eligible" \notin Good
      BY DEF Outcomes, Good
    <2>7. QED
      BY <2>3, <2>4, <2>5, <2>6, FinishAdvances
  <1>7. CASE ~Superseded(s, i) /\ <<i, w.network>> \notin Refused /\ ~Changed(s, i, w)
    <2>1. HasCase(s, i) /\ Current(s, i).network = s.regs[i].requested /\ Current(s, i).ssh = src.ssh
      BY <1>7 DEF Superseded, Changed, SameProjection
    <2>2. PICK u : u = MarkFresh(s, i)
      OBVIOUS
    <2>3. t = FinishItem(u, i, "unchanged")
      BY <1>7, <2>2 DEF Publish
    <2>4. /\ StoreSound(u, src) /\ Grows(s, u, src)
          /\ u.cases = s.cases /\ u.cycle = s.cycle /\ u.discovery = s.discovery /\ u.runtime = s.runtime
          /\ \A k \in Anchors : u.regs[k].requested = s.regs[k].requested
          /\ u.regs[i].state = "fresh"
      <3>1. u = Marked(s, i, "fresh", "none")
        BY <2>2 DEF MarkFresh, Marked
      <3>2. QED
        BY <1>1, <1>3, <2>1, <3>1, MarkSound
    <2>5. HasCase(u, i) /\ Current(u, i).ssh >= src.ssh
      BY <1>4, <2>1, <2>4 DEF HasCase, Current
    <2>6. "unchanged" \in Outcomes
      BY DEF Outcomes
    <2>7. QED
      BY <2>3, <2>4, <2>5, <2>6, FinishAdvances
  <1>8. CASE /\ ~Superseded(s, i) /\ <<i, w.network>> \notin Refused /\ Changed(s, i, w)
             /\ s.generation >= RevisionLimit
    <2>1. t = FailItem(s, i, "capacity")
      BY <1>8 DEF Publish
    <2>2. QED
      BY <1>3, <2>1, FailItemAdvances
  <1>9. CASE /\ ~Superseded(s, i) /\ <<i, w.network>> \notin Refused /\ Changed(s, i, w)
             /\ ~(s.generation >= RevisionLimit)
    <2>1. PICK v, u : v = AddRevision(s, i, w) /\ u = MarkFresh(v, i)
      OBVIOUS
    <2>2. t = FinishItem(u, i, "published")
      BY <1>9, <2>1 DEF Publish
    <2>3. s.generation < RevisionLimit
      BY <1>2, <1>9, StoreShape, JointConstants
    <2>4. w.network = s.regs[i].requested /\ w.ssh = src.ssh
      BY <1>9 DEF Superseded
    <2>5. /\ StoreSound(v, src) /\ Grows(s, v, src)
          /\ v.regs = s.regs /\ v.cycle = s.cycle /\ v.discovery = s.discovery /\ v.runtime = s.runtime
          /\ HasCase(v, i) /\ Current(v, i).network = s.regs[i].requested
          /\ Current(v, i).ssh = src.ssh
      BY <1>1, <2>1, <2>3, <2>4, AddRevisionSound
    <2>6. /\ StoreSound(u, src) /\ Grows(v, u, src)
          /\ u.cases = v.cases /\ u.cycle = v.cycle /\ u.discovery = v.discovery /\ u.runtime = v.runtime
          /\ \A k \in Anchors : u.regs[k].requested = v.regs[k].requested
          /\ u.regs[i].state = "fresh"
      <3>1. v.cycle.items[i] # NoItem /\ v.regs[i].state # "absent"
        BY <1>1, <2>5
      <3>2. u = Marked(v, i, "fresh", "none")
        BY <2>1 DEF MarkFresh, Marked
      <3>3. HasCase(v, i) /\ Current(v, i).network = v.regs[i].requested
        BY <2>5
      <3>4. QED
        BY <1>3, <2>5, <3>1, <3>2, <3>3, MarkSound
    <2>7. Grows(s, u, src)
      <3>1. v \in Stores /\ u \in Stores
        BY <2>5, <2>6 DEF StoreSound
      <3>2. QED
        BY <1>2, <2>5, <2>6, <3>1, GrowsOn
    <2>8. HasCase(u, i) /\ Current(u, i).ssh >= src.ssh
      BY <1>4, <2>5, <2>6 DEF HasCase, Current
    <2>9. "published" \in Outcomes
      BY DEF Outcomes
    <2>10. \A k \in Anchors : u.regs[k].requested = s.regs[k].requested
      BY <2>5, <2>6
    <2>11. u.cycle = s.cycle /\ u.discovery = s.discovery /\ u.runtime = s.runtime
      BY <2>5, <2>6
    <2>12. QED
      BY <2>2, <2>6, <2>7, <2>8, <2>9, <2>10, <2>11, FinishAdvances
  <1>10. QED
    BY <1>5, <1>6, <1>7, <1>8, <1>9

(* restore_store.                                                          *)
LEMMA RestoredSound ==
  ASSUME NEW src \in Marks, NEW s, StoreSound(s, src), NEW t, t = Restored(s)
  PROVE  /\ StoreSound(t, src)
         /\ \A i \in Anchors : (HasCase(t, i) <=> HasCase(s, i)) /\ Current(t, i) = Current(s, i)
         /\ t.discovery.id = None /\ t.runtime.pending = TRUE
         /\ t.runtime.refresh = None /\ t.runtime.recovery = None
  <1>1. s \in Stores
    BY DEF StoreSound
  <1>2. PICK r : r = [s.runtime EXCEPT !.pending = TRUE, !.discovered = FALSE, !.refresh = None,
                                       !.recovery = None]
    OBVIOUS
  <1>3. t = [s EXCEPT !.discovery = NoDiscovery, !.runtime = r]
    <2>1. s = [regs |-> s.regs, cases |-> s.cases, generation |-> s.generation,
               discovery |-> s.discovery, cycle |-> s.cycle, runtime |-> s.runtime]
      BY <1>1, StoreShape
    <2>2. QED
      BY <1>2, <2>1 DEF Restored
  <1>4. /\ t.regs = s.regs /\ t.cases = s.cases /\ t.generation = s.generation
        /\ t.discovery = NoDiscovery /\ t.cycle = s.cycle /\ t.runtime = r
    BY <1>1, <1>3, StoreShape
  <1>5. t = [regs |-> t.regs, cases |-> t.cases, generation |-> t.generation,
             discovery |-> t.discovery, cycle |-> t.cycle, runtime |-> t.runtime]
    BY <1>1, <1>3, StoreShape
  <1>6. /\ r \in [pending : BOOLEAN, discovered : BOOLEAN, refresh : Identities,
                  recovery : Identities, error : Faults]
        /\ r.pending = TRUE /\ r.refresh = None /\ r.recovery = None
    <2>1. s.runtime \in [pending : BOOLEAN, discovered : BOOLEAN, refresh : Identities,
                         recovery : Identities, error : Faults]
      BY <1>1, StoreShape
    <2>2. None \in Identities
      BY DEF Identities
    <2>3. QED
      BY <1>2, <2>1, <2>2
  <1>7. /\ NoDiscovery \in [id : {None, Now}, target : Nat, cursor : Nat, complete : BOOLEAN,
                            error : Faults]
        /\ NoDiscovery.id = None /\ NoDiscovery.complete = FALSE
    BY DEF NoDiscovery, Faults
  <1>8. t \in Stores
    BY <1>1, <1>4, <1>5, <1>6, <1>7, StoreShape, IsStore
  <1>9. \A i \in Anchors :
          /\ t.cycle.items[i] = "pending" => t.regs[i].state # "absent" /\ t.cycle.id = Now
          /\ t.cycle.items[i] = NoItem => t.regs[i].state \in {"absent", "pending"}
    BY <1>4 DEF StoreSound, AnchorSound
  <1>10. /\ StoreSound(t, src)
         /\ \A i \in Anchors : (HasCase(t, i) <=> HasCase(s, i)) /\ Current(t, i) = Current(s, i)
    BY <1>4, <1>7, <1>8, <1>9, SameCasesSound
  <1>11. QED
    BY <1>4, <1>6, <1>7, <1>10

LEMMA EmptySound ==
  ASSUME NEW src \in Marks
  PROVE  /\ StoreSound(EmptyStore, src)
         /\ \A i \in Anchors : ~HasCase(EmptyStore, i)
         /\ EmptyStore.discovery.id = None /\ EmptyStore.cycle.id = None
         /\ EmptyStore.runtime.pending = FALSE
         /\ EmptyStore.runtime.refresh = None /\ EmptyStore.runtime.recovery = None
         /\ \A i \in Anchors : EmptyStore.cycle.items[i] = NoItem
  <1>1. PICK s : s = EmptyStore
    OBVIOUS
  <1>2. /\ s.regs = [i \in Anchors |-> NoRegistration] /\ s.cases = [i \in Anchors |-> << >>]
        /\ s.generation = 0 /\ s.discovery = NoDiscovery /\ s.cycle = NoCycle
        /\ s.runtime = [pending |-> FALSE, discovered |-> FALSE, refresh |-> None, recovery |-> None,
                        error |-> "none"]
    BY <1>1 DEF EmptyStore
  <1>3. s = [regs |-> s.regs, cases |-> s.cases, generation |-> s.generation,
             discovery |-> s.discovery, cycle |-> s.cycle, runtime |-> s.runtime]
    BY <1>1 DEF EmptyStore
  <1>4. /\ NoRegistration \in Registrations /\ NoRegistration.state = "absent"
        /\ NoRegistration.requested = 0
    BY DEF NoRegistration, Registrations, Faults
  <1>5. /\ NoCycle \in [id : {None, Now}, items : [Anchors -> Outcomes \cup {"pending", NoItem}],
                        captured : [Anchors -> Nat], finishedLast : BOOLEAN]
        /\ NoCycle.id = None /\ \A i \in Anchors : NoCycle.items[i] = NoItem
    BY DEF NoCycle
  <1>6. /\ NoDiscovery \in [id : {None, Now}, target : Nat, cursor : Nat, complete : BOOLEAN,
                            error : Faults]
        /\ NoDiscovery.id = None /\ NoDiscovery.complete = FALSE
    BY DEF NoDiscovery, Faults
  <1>7. s.runtime \in [pending : BOOLEAN, discovered : BOOLEAN, refresh : Identities,
                       recovery : Identities, error : Faults]
    BY <1>2 DEF Identities, Faults
  <1>8. s.regs \in [Anchors -> Registrations] /\ s.cases \in [Anchors -> Seq(Projections)]
    BY <1>2, <1>4
  <1>9. s \in Stores
    <2>1. s.generation \in Nat
      BY <1>2
    <2>2. s.discovery \in [id : {None, Now}, target : Nat, cursor : Nat, complete : BOOLEAN,
                           error : Faults]
      BY <1>2, <1>6
    <2>3. s.cycle \in [id : {None, Now}, items : [Anchors -> Outcomes \cup {"pending", NoItem}],
                       captured : [Anchors -> Nat], finishedLast : BOOLEAN]
      BY <1>2, <1>5
    <2>4. QED
      BY <1>3, <1>7, <1>8, <2>1, <2>2, <2>3, IsStore
  <1>10. \A i \in Anchors : ~HasCase(s, i)
    BY <1>2 DEF HasCase
  <1>11. \A i \in Anchors : src.heads[i] \in Nat
    BY DEF Marks
  <1>12. \A i \in Anchors : AnchorSound(s, i, src)
    BY <1>2, <1>4, <1>5, <1>10, <1>11 DEF AnchorSound, NoItem
  <1>13. Registered(s) = {} /\ SavedRevisions(s) = {}
    BY <1>2, <1>4 DEF Registered, SavedRevisions
  <1>14. Cardinality({}) = 0 /\ IsFiniteSet({})
    BY FS_EmptySet
  <1>15. {s.cases[v[1]][v[2]].generation : v \in SavedRevisions(s)} = 1 .. s.generation
    BY <1>2, <1>13
  <1>16. OpensCleanly(s) /\ IsFiniteSet(SavedRevisions(s))
    BY <1>2, <1>10, <1>13, <1>14, <1>15, JointConstants DEF OpensCleanly
  <1>17. StoreSound(s, src)
    BY <1>2, <1>6, <1>9, <1>12, <1>16 DEF StoreSound
  <1>18. QED
    BY <1>1, <1>2, <1>5, <1>6, <1>10, <1>17

(* The sources go on: what was sound stays sound.                          *)
LEMMA SoundLater ==
  ASSUME NEW a \in Marks, NEW b \in Marks, Precedes(a, b), NEW s, StoreSound(s, a)
  PROVE  StoreSound(s, b)
  <1>1. s \in Stores
    BY DEF StoreSound
  <1>2. /\ a.ssh \in Nat /\ b.ssh \in Nat /\ a.ssh =< b.ssh
        /\ \A i \in Anchors : a.heads[i] \in Nat /\ b.heads[i] \in Nat /\ a.heads[i] =< b.heads[i]
    BY DEF Marks, Precedes
  <1>3. \A i \in Anchors : /\ s.regs[i].requested \in Nat
                           /\ HasCase(s, i) => Current(s, i).network \in Nat /\ Current(s, i).ssh \in Nat
    BY <1>1, AnchorShape
  <1>4. ASSUME NEW i \in Anchors
        PROVE  AnchorSound(s, i, b)
    <2>1. AnchorSound(s, i, a)
      BY DEF StoreSound
    <2>2. QED
      BY <1>2, <1>3, <2>1 DEF AnchorSound
  <1>5. QED
    BY <1>4 DEF StoreSound

-----------------------------------------------------------------------------
(* What the checkpoint and the job remember.                               *)

LEMMA MemoryShape ==
  ASSUME NEW m \in Memories
  PROVE  /\ m.phase \in {"idle", "discover", "refresh"}
         /\ m.state \in {"not_started", "running", "waiting", "backoff", "blocked"}
         /\ m.qualified \in BOOLEAN /\ m.resume \in BOOLEAN
         /\ m.discovery \in Identities /\ m.refresh \in Identities
         /\ m.oldDiscovery \in Identities /\ m.oldRefresh \in Identities
         /\ m.success \in Marks
         /\ m = [phase |-> m.phase, state |-> m.state, qualified |-> m.qualified,
                 resume |-> m.resume, discovery |-> m.discovery, refresh |-> m.refresh,
                 oldDiscovery |-> m.oldDiscovery, oldRefresh |-> m.oldRefresh, success |-> m.success]
  BY DEF Memories

LEMMA IdentityKinds ==
  /\ None \in Identities /\ Now \in Identities /\ Gone \in Identities
  /\ None # Now /\ Gone # Now /\ None # Gone
  /\ \A id \in Identities : Aged(id) \in Identities /\ Aged(id) # Now /\ (Aged(id) = None <=> id = None)
  BY DEF Identities, None, Now, Gone, Aged

LEMMA StoreIdentities ==
  ASSUME NEW s \in Stores
  PROVE  s.discovery.id \in {None, Now} /\ s.cycle.id \in {None, Now}
  <1>1. /\ s.discovery \in [id : {None, Now}, target : Nat, cursor : Nat, complete : BOOLEAN,
                            error : Faults]
        /\ s.cycle \in [id : {None, Now}, items : [Anchors -> Outcomes \cup {"pending", NoItem}],
                        captured : [Anchors -> Nat], finishedLast : BOOLEAN]
    BY StoreShape
  <1>2. QED
    BY <1>1

(* A memory stays sound as the store advances.                             *)
LEMMA MemoryStays ==
  ASSUME NEW src \in Marks, NEW s, NEW t, StoreSound(s, src), Advances(s, t, src),
         NEW sn \in Marks, Precedes(sn, src), NEW m, MemorySound(m, s, sn, src),
         t.cycle.id = s.cycle.id \/ CycleAfter(t, sn)
  PROVE  MemorySound(m, t, sn, src)
  <1>1. m \in Memories /\ m.success \in Marks /\ Precedes(m.success, src)
    BY MemoryShape DEF MemorySound
  <1>2. Covers(t, m.success) /\ LaterThan(t, m.success)
    BY <1>1, AdvanceKeepsPromises DEF MemorySound
  <1>3. CycleAfter(s, sn) => CycleAfter(t, sn)
    BY AdvanceKeepsPromises
  <1>4. QED
    BY <1>1, <1>2, <1>3 DEF MemorySound

(* A memory that claims no more than it did is as sound as it was.         *)
LEMMA MemoryTurns ==
  ASSUME NEW src, NEW s, NEW sn, NEW m, MemorySound(m, s, sn, src), NEW n \in Memories,
         n.success = m.success, n.phase # "refresh" => n.refresh = None,
         Claims(n) /\ s.cycle.id = Now => Claims(m)
  PROVE  MemorySound(n, s, sn, src)
  BY DEF MemorySound

LEMMA NewStateSound ==
  ASSUME NEW src \in Marks, NEW s, StoreSound(s, src), NEW sn
  PROVE  MemorySound(NewState, s, sn, src)
  <1>1. s \in Stores /\ src.ssh \in Nat /\ \A i \in Anchors : src.heads[i] \in Nat
    BY DEF StoreSound, Marks
  <1>2. Nothing \in Marks /\ Nothing.ssh = 0 /\ \A i \in Anchors : Nothing.heads[i] = 0
    BY DEF Nothing, Marks
  <1>3. PICK m : m = NewState
    OBVIOUS
  <1>4. /\ m.phase = "idle" /\ m.qualified = FALSE /\ m.refresh = None /\ m.success = Nothing
    BY <1>3 DEF NewState
  <1>5. m \in Memories
    BY <1>2, <1>3 DEF NewState, Memories, Identities
  <1>6. Precedes(m.success, src)
    BY <1>1, <1>2, <1>4 DEF Precedes
  <1>7. \A i \in Anchors : HasCase(s, i) => Current(s, i).ssh \in Nat
    BY <1>1, AnchorShape
  <1>8. Covers(s, m.success) /\ LaterThan(s, m.success)
    BY <1>2, <1>4, <1>7 DEF Covers, LaterThan
  <1>9. QED
    BY <1>3, <1>4, <1>5, <1>6, <1>8 DEF MemorySound, Claims

LEMMA InStateSound ==
  ASSUME NEW src, NEW s, NEW sn, NEW m, MemorySound(m, s, sn, src),
         NEW st \in {"not_started", "running", "waiting", "backoff", "blocked"},
         NEW n, n = [m EXCEPT !.state = st]
  PROVE  MemorySound(n, s, sn, src) /\ n.phase = m.phase /\ n.refresh = m.refresh
  <1>1. m \in Memories
    BY DEF MemorySound
  <1>2. n \in Memories
    BY <1>1 DEF Memories
  <1>3. /\ n.success = m.success /\ n.phase = m.phase /\ n.refresh = m.refresh
        /\ n.qualified = m.qualified /\ n.discovery = m.discovery /\ n.oldRefresh = m.oldRefresh
    BY <1>1, MemoryShape
  <1>4. Claims(n) => Claims(m)
    BY <1>3 DEF Claims
  <1>5. n.phase # "refresh" => n.refresh = None
    BY <1>3 DEF MemorySound
  <1>6. QED
    BY <1>2, <1>3, <1>4, <1>5, MemoryTurns

(* _start adopts unfinished work, but does not claim its success.          *)
LEMMA StartSound ==
  ASSUME NEW src, NEW s, StoreSound(s, src), NEW sn, NEW m, MemorySound(m, s, sn, src),
         NEW n, n = Start(m, s)
  PROVE  MemorySound(n, s, sn, src) /\ n.phase \in {"discover", "refresh"}
  <1>1. m \in Memories /\ s \in Stores
    BY DEF MemorySound, StoreSound
  <1>2. s.discovery.id \in Identities /\ s.cycle.id \in Identities
    BY <1>1, StoreIdentities DEF Identities
  <1>3. PICK f : f = [m EXCEPT !.phase = "discover", !.discovery = None, !.refresh = None,
                               !.oldDiscovery = s.discovery.id, !.oldRefresh = s.cycle.id,
                               !.qualified = TRUE, !.resume = FALSE]
    OBVIOUS
  <1>4. f.success = m.success /\ f.phase = "discover" /\ f.refresh = None
    BY <1>1, <1>3, MemoryShape
  <1>5. f \in Memories
    <2>1. f = [phase |-> "discover", state |-> m.state, qualified |-> TRUE, resume |-> FALSE,
               discovery |-> None, refresh |-> None, oldDiscovery |-> s.discovery.id,
               oldRefresh |-> s.cycle.id, success |-> m.success]
      <3>1. m = [phase |-> m.phase, state |-> m.state, qualified |-> m.qualified,
                 resume |-> m.resume, discovery |-> m.discovery, refresh |-> m.refresh,
                 oldDiscovery |-> m.oldDiscovery, oldRefresh |-> m.oldRefresh, success |-> m.success]
        BY <1>1, MemoryShape
      <3>2. QED
        BY ONLY <1>3, <3>1
    <2>2. QED
      BY <1>1, <1>2, <2>1, MemoryShape, IdentityKinds DEF Memories
  <1>6. CASE s.cycle.id # None /\ ~Attempted(s.cycle)
    <2>1. n = [f EXCEPT !.phase = "refresh", !.refresh = s.cycle.id, !.qualified = FALSE]
      BY <1>3, <1>6 DEF Start
    <2>2. n.success = m.success /\ n.phase = "refresh" /\ n.qualified = FALSE
      BY <1>4, <1>5, <2>1, MemoryShape
    <2>3. n \in Memories
      BY <1>2, <1>5, <2>1 DEF Memories
    <2>4. QED
      BY <2>2, <2>3, MemoryTurns DEF Claims
  <1>7. CASE /\ ~(s.cycle.id # None /\ ~Attempted(s.cycle))
             /\ s.discovery.id # None /\ ~s.discovery.complete
    <2>1. n = [f EXCEPT !.discovery = s.discovery.id, !.qualified = FALSE]
      BY <1>3, <1>7 DEF Start
    <2>2. n.success = m.success /\ n.phase = "discover" /\ n.refresh = None
      BY <1>4, <1>5, <2>1, MemoryShape
    <2>3. n \in Memories
      BY <1>2, <1>5, <2>1 DEF Memories
    <2>4. QED
      BY <2>2, <2>3, MemoryTurns DEF Claims
  <1>8. CASE /\ ~(s.cycle.id # None /\ ~Attempted(s.cycle))
             /\ ~(s.discovery.id # None /\ ~s.discovery.complete)
    <2>1. n = f
      BY <1>3, <1>8 DEF Start
    <2>2. QED
      BY <1>4, <1>5, <2>1, MemoryTurns DEF Claims
  <1>9. QED
    BY <1>6, <1>7, <1>8

(* _failure claims nothing.                                                *)
LEMMA FailureSound ==
  ASSUME NEW src, NEW s, StoreSound(s, src), NEW sn, NEW m, MemorySound(m, s, sn, src),
         NEW code, NEW n, n = Failure(m, s, code)
  PROVE  MemorySound(n, s, sn, src)
  <1>1. m \in Memories /\ s \in Stores
    BY DEF MemorySound, StoreSound
  <1>2. s.discovery.id \in Identities /\ s.cycle.id \in Identities
    BY <1>1, StoreIdentities DEF Identities
  <1>3. PICK st \in {"backoff", "blocked"} : st = IF code = "capacity" THEN "blocked" ELSE "backoff"
    OBVIOUS
  <1>4. PICK b : b = [m EXCEPT !.state = st, !.qualified = FALSE]
    OBVIOUS
  <1>5. b \in Memories /\ b.success = m.success /\ b.phase = m.phase /\ b.refresh = m.refresh
        /\ b.qualified = FALSE
    <2>1. b \in Memories
      BY <1>1, <1>3, <1>4 DEF Memories
    <2>2. QED
      BY <1>1, <1>4, <2>1, MemoryShape
  <1>6. CASE m.phase = "discover" /\ Registered(s) # {} /\ code # "capacity"
    <2>1. n = [b EXCEPT !.phase = "refresh", !.resume = TRUE, !.refresh = None,
                        !.discovery = s.discovery.id, !.oldRefresh = s.cycle.id]
      BY <1>3, <1>4, <1>6 DEF Failure
    <2>2. n.success = m.success /\ n.phase = "refresh" /\ n.qualified = FALSE
      BY <1>5, <2>1, MemoryShape
    <2>3. n \in Memories
      <3>1. n = [phase |-> "refresh", state |-> b.state, qualified |-> b.qualified, resume |-> TRUE,
                 discovery |-> s.discovery.id, refresh |-> None, oldDiscovery |-> b.oldDiscovery,
                 oldRefresh |-> s.cycle.id, success |-> b.success]
        BY <1>5, <2>1, MemoryShape
      <3>2. QED
        BY <1>2, <1>5, <3>1, MemoryShape, IdentityKinds DEF Memories
    <2>4. QED
      BY <2>2, <2>3, MemoryTurns DEF Claims
  <1>7. CASE ~(m.phase = "discover" /\ Registered(s) # {} /\ code # "capacity")
    <2>1. n = b
      BY <1>3, <1>4, <1>7 DEF Failure
    <2>2. b.phase # "refresh" => b.refresh = None
      BY <1>5 DEF MemorySound
    <2>3. QED
      BY <1>5, <2>1, <2>2, MemoryTurns DEF Claims
  <1>8. QED
    BY <1>6, <1>7

(* _discovery_step goes on to a cycle that is yet to begin.                *)
LEMMA ToRefreshSound ==
  ASSUME NEW src, NEW s, StoreSound(s, src), NEW sn, NEW m, MemorySound(m, s, sn, src),
         NEW n, n = [m EXCEPT !.phase = "refresh", !.refresh = None, !.oldRefresh = s.cycle.id]
  PROVE  MemorySound(n, s, sn, src)
  <1>1. m \in Memories /\ s.cycle.id \in Identities
    BY StoreIdentities DEF MemorySound, StoreSound, Identities
  <1>2. n \in Memories
    BY <1>1, IdentityKinds DEF Memories
  <1>3. n.success = m.success /\ n.phase = "refresh" /\ n.refresh = None /\ n.oldRefresh = s.cycle.id
    BY <1>1, MemoryShape
  <1>4. ~(Claims(n) /\ s.cycle.id = Now)
    BY <1>3, IdentityKinds DEF Claims
  <1>5. QED
    BY <1>2, <1>3, <1>4, MemoryTurns

(* The tick notes the discovery it works on.                               *)
LEMMA NotedSound ==
  ASSUME NEW src, NEW s, StoreSound(s, src), NEW sn, NEW m, MemorySound(m, s, sn, src),
         m.phase = "discover", NEW n, n = [m EXCEPT !.discovery = s.discovery.id]
  PROVE  MemorySound(n, s, sn, src) /\ n.phase = "discover"
  <1>1. m \in Memories /\ s.discovery.id \in Identities
    BY StoreIdentities DEF MemorySound, StoreSound, Identities
  <1>2. n \in Memories
    BY <1>1 DEF Memories
  <1>3. n.success = m.success /\ n.phase = m.phase /\ n.refresh = m.refresh
    BY <1>1, MemoryShape
  <1>4. n.refresh = None
    BY <1>3 DEF MemorySound
  <1>5. QED
    BY <1>2, <1>3, <1>4, MemoryTurns DEF Claims

(* A new discovery: no round of before may claim success any more.         *)
LEMMA AgedDiscoverySound ==
  ASSUME NEW src, NEW s, NEW sn, NEW sp, NEW m, MemorySound(m, s, sn, src),
         NEW n, n = AgedDiscovery(m)
  PROVE  MemorySound(n, s, sp, src) /\ n.phase = m.phase
  <1>1. m \in Memories
    BY DEF MemorySound
  <1>2. /\ Aged(m.discovery) \in Identities /\ Aged(m.oldDiscovery) \in Identities
        /\ Aged(m.discovery) # Now
    BY <1>1, MemoryShape, IdentityKinds
  <1>3. /\ n.success = m.success /\ n.phase = m.phase /\ n.refresh = m.refresh
        /\ n.discovery = Aged(m.discovery)
    BY <1>1, MemoryShape DEF AgedDiscovery
  <1>4. n \in Memories
    <2>1. n = [m EXCEPT !.discovery = Aged(m.discovery), !.oldDiscovery = Aged(m.oldDiscovery)]
      BY <1>1, MemoryShape DEF AgedDiscovery
    <2>2. QED
      BY <1>1, <1>2, <2>1 DEF Memories
  <1>5. ~Claims(n)
    BY <1>2, <1>3 DEF Claims
  <1>6. QED
    BY <1>3, <1>4, <1>5 DEF MemorySound

(* A new cycle, in which nothing is published yet.                         *)
LEMMA AgedRefreshSound ==
  ASSUME NEW src, NEW s, NEW sn, NEW m, MemorySound(m, s, sn, src), CycleAfter(s, sn),
         NEW n, n = AgedRefresh(m)
  PROVE  MemorySound(n, s, sn, src) /\ n.phase = m.phase
  <1>1. m \in Memories
    BY DEF MemorySound
  <1>2. /\ Aged(m.refresh) \in Identities /\ Aged(m.oldRefresh) \in Identities
        /\ Aged(m.refresh) = None <=> m.refresh = None
    BY <1>1, MemoryShape, IdentityKinds
  <1>3. /\ n.success = m.success /\ n.phase = m.phase /\ n.refresh = Aged(m.refresh)
    BY <1>1, MemoryShape DEF AgedRefresh
  <1>4. n \in Memories
    <2>1. n = [m EXCEPT !.refresh = Aged(m.refresh), !.oldRefresh = Aged(m.oldRefresh)]
      BY <1>1, MemoryShape DEF AgedRefresh
    <2>2. QED
      BY <1>1, <1>2, <2>1 DEF Memories
  <1>5. QED
    BY <1>2, <1>3, <1>4 DEF MemorySound

LEMMA OnCycleSound ==
  ASSUME NEW src, NEW s, NEW sn, NEW m, MemorySound(m, s, sn, src), CycleAfter(s, sn),
         m.phase = "refresh", NEW n, n = [m EXCEPT !.refresh = Now]
  PROVE  MemorySound(n, s, sn, src) /\ n.phase = "refresh" /\ n.refresh = Now
  <1>1. m \in Memories
    BY DEF MemorySound
  <1>2. n \in Memories
    BY <1>1, IdentityKinds DEF Memories
  <1>3. n.success = m.success /\ n.phase = m.phase /\ n.refresh = Now
    BY <1>1, MemoryShape
  <1>4. QED
    BY <1>2, <1>3 DEF MemorySound

(* _refresh_step: a round may lose its claim, and adopts a cycle that      *)
(* began since it took note of the previous one.                           *)
LEMMA RequalifiedSound ==
  ASSUME NEW src, NEW sn, NEW m, StoreSound(store, src), MemorySound(m, store, sn, src),
         NEW n, n = Requalified(m)
  PROVE  MemorySound(n, store, sn, src) /\ n.phase = m.phase /\ n.refresh = m.refresh
  <1>1. m \in Memories
    BY DEF MemorySound
  <1>2. PICK q \in BOOLEAN :
          q = (m.qualified /\ store.discovery.id # None /\ store.discovery.id = m.discovery
               /\ store.discovery.complete /\ store.discovery.error = "none")
    OBVIOUS
  <1>3. n = [m EXCEPT !.qualified = q]
    BY <1>1, <1>2, MemoryShape DEF Requalified
  <1>4. n \in Memories
    BY <1>1, <1>3 DEF Memories
  <1>5. /\ n.success = m.success /\ n.phase = m.phase /\ n.refresh = m.refresh
        /\ n.oldRefresh = m.oldRefresh /\ n.discovery = m.discovery /\ n.qualified = q
    BY <1>1, <1>3, MemoryShape
  <1>6. Claims(n) => Claims(m)
    BY <1>2, <1>5 DEF Claims
  <1>7. n.phase # "refresh" => n.refresh = None
    BY <1>5 DEF MemorySound
  <1>8. QED
    BY <1>4, <1>5, <1>6, <1>7, MemoryTurns

Adopts(m, s, n) ==
  \/ n = [m EXCEPT !.refresh = s.cycle.id] /\ s.cycle.id # m.oldRefresh
  \/ n = [m EXCEPT !.refresh = s.cycle.id, !.qualified = FALSE]
LEMMA AdoptedSound ==
  ASSUME NEW src, NEW s, StoreSound(s, src), NEW sn, NEW m, MemorySound(m, s, sn, src),
         m.phase = "refresh", m.refresh = None, s.cycle.id # None,
         NEW n, Adopts(m, s, n)
  PROVE  MemorySound(n, s, sn, src) /\ n.phase = "refresh" /\ n.refresh = Now
  <1>1. m \in Memories /\ s.cycle.id = Now /\ Now \in Identities
    BY StoreIdentities, IdentityKinds DEF MemorySound, StoreSound
  <1>2. CASE n = [m EXCEPT !.refresh = s.cycle.id] /\ s.cycle.id # m.oldRefresh
    <2>1. n \in Memories
      BY <1>1, <1>2 DEF Memories
    <2>2. /\ n.success = m.success /\ n.phase = m.phase /\ n.refresh = Now
          /\ n.discovery = m.discovery /\ n.qualified = m.qualified
      BY <1>1, <1>2, MemoryShape
    <2>3. Claims(n) => Claims(m)
      BY <1>1, <1>2, <2>2 DEF Claims
    <2>4. QED
      BY <2>1, <2>2, <2>3, MemoryTurns
  <1>3. CASE n = [m EXCEPT !.refresh = s.cycle.id, !.qualified = FALSE]
    <2>1. n \in Memories
      BY <1>1, <1>3 DEF Memories
    <2>2. n.success = m.success /\ n.phase = m.phase /\ n.refresh = Now /\ n.qualified = FALSE
      BY <1>1, <1>3, MemoryShape
    <2>3. QED
      BY <2>1, <2>2, MemoryTurns DEF Claims
  <1>4. QED
    BY <1>2, <1>3 DEF Adopts

(* _finish: success is claimed only for a round that published all that    *)
(* the sources held as its discovery began.                                *)
LEMMA FinishRoundSound ==
  ASSUME NEW src \in Marks, NEW s, StoreSound(s, src), seen \in Marks, Precedes(seen, src),
         LaterThan(s, seen), ScanSound(s, seen), NEW m, MemorySound(m, s, seen, src),
         m.phase = "refresh", m.refresh = Now, s.cycle.id = Now, NEW n, n = FinishRound(m, s)
  PROVE  MemorySound(n, s, seen, src)
  <1>1. m \in Memories /\ s \in Stores /\ s.cycle.id \in Identities
    BY IdentityKinds DEF MemorySound, StoreSound
  <1>2. ASSUME WholeRound(m, s) PROVE Covers(s, seen)
    <2>1. /\ m.qualified /\ s.discovery.id # None /\ s.discovery.id = m.discovery
          /\ s.discovery.complete /\ AllRefreshed(s.cycle)
          /\ \A i \in Registered(s) : s.regs[i].state = "fresh"
      BY <1>2 DEF WholeRound
    <2>2. Claims(m)
      BY <1>1, <2>1, StoreIdentities DEF Claims
    <2>3. CycleAfter(s, seen)
      BY <2>2 DEF MemorySound
    <2>4. QED
      BY <2>1, <2>3, WholeRoundCovers
  <1>3. PICK w : w = IF WholeRound(m, s) THEN seen ELSE m.success
    OBVIOUS
  <1>4. w \in Marks /\ Precedes(w, src) /\ Covers(s, w) /\ LaterThan(s, w)
    <2>1. CASE WholeRound(m, s)
      BY <1>2, <1>3, <2>1
    <2>2. CASE ~WholeRound(m, s)
      BY <1>1, <1>3, <2>2, MemoryShape DEF MemorySound
    <2>3. QED
      BY <2>1, <2>2
  <1>5. PICK d : d = [m EXCEPT !.oldRefresh = s.cycle.id, !.success = w]
    OBVIOUS
  <1>6. d \in Memories
    BY <1>1, <1>4, <1>5 DEF Memories
  <1>7. d = [m EXCEPT !.oldRefresh = s.cycle.id, !.success = IF WholeRound(m, s) THEN seen ELSE @]
    BY <1>1, <1>3, <1>5, MemoryShape
  <1>8. d.success = w /\ d.phase = "refresh"
    BY <1>1, <1>5, MemoryShape
  <1>9. PICK st : st \in {"backoff", "waiting"} /\
          \/ n = [d EXCEPT !.state = "blocked", !.qualified = FALSE]
          \/ n = [d EXCEPT !.phase = "discover", !.refresh = None, !.qualified = FALSE,
                           !.resume = FALSE, !.state = "backoff"]
          \/ n = [d EXCEPT !.phase = "idle", !.qualified = FALSE, !.refresh = None, !.state = st]
    <2>1. PICK e : e = IF StatusError(s) # "none" THEN StatusError(s)
                       ELSE IF ~AllRefreshed(s.cycle) THEN "refresh_required" ELSE "none"
      OBVIOUS
    <2>2. n = IF e = "capacity"
              THEN [d EXCEPT !.state = "blocked", !.qualified = FALSE]
              ELSE IF m.resume
              THEN [d EXCEPT !.phase = "discover", !.refresh = None, !.qualified = FALSE,
                             !.resume = FALSE, !.state = "backoff"]
              ELSE [d EXCEPT !.phase = "idle", !.qualified = FALSE, !.refresh = None,
                             !.state = IF e # "none" THEN "backoff" ELSE "waiting"]
      BY <1>7, <2>1 DEF FinishRound
    <2>3. CASE e # "none"
      BY <2>2, <2>3
    <2>4. CASE e = "none"
      BY <2>2, <2>4
    <2>5. QED
      BY <2>3, <2>4
  <1>10. n \in Memories /\ n.success = w /\ n.qualified = FALSE
         /\ (n.phase # "refresh" => n.refresh = None)
    <2>1. CASE n = [d EXCEPT !.state = "blocked", !.qualified = FALSE]
      <3>1. n \in Memories
        BY <1>6, <2>1 DEF Memories
      <3>2. n.success = d.success /\ n.phase = d.phase /\ n.qualified = FALSE
        BY <1>6, <2>1, MemoryShape
      <3>3. QED
        BY <1>8, <3>1, <3>2
    <2>2. CASE n = [d EXCEPT !.phase = "discover", !.refresh = None, !.qualified = FALSE,
                             !.resume = FALSE, !.state = "backoff"]
      <3>1. n \in Memories
        BY <1>6, <2>2, IdentityKinds DEF Memories
      <3>2. n.success = d.success /\ n.refresh = None /\ n.qualified = FALSE
        BY <1>6, <2>2, MemoryShape
      <3>3. QED
        BY <1>8, <3>1, <3>2
    <2>3. CASE n = [d EXCEPT !.phase = "idle", !.qualified = FALSE, !.refresh = None, !.state = st]
      <3>1. n \in Memories
        BY <1>6, <1>9, <2>3, IdentityKinds DEF Memories
      <3>2. n.success = d.success /\ n.refresh = None /\ n.qualified = FALSE
        BY <1>6, <2>3, MemoryShape
      <3>3. QED
        BY <1>8, <3>1, <3>2
    <2>4. QED
      BY <1>9, <2>1, <2>2, <2>3
  <1>11. QED
    BY <1>4, <1>10 DEF MemorySound, Claims

-----------------------------------------------------------------------------
(* The catalog, its pages, and the next item of a cycle.                   *)

LEMMA CatalogEnd ==
  ASSUME Sources \in Marks,
         \A i \in Anchors : heads[i] > 0 => \A j \in 1 .. i - 1 : heads[j] > 0
  PROVE  /\ CatalogTarget \in Nat /\ CatalogTarget =< Cardinality(Anchors)
         /\ \A i \in Anchors : heads[i] > 0 => i =< CatalogTarget
  <1>1. PICK S : S = {i \in Anchors : heads[i] > 0}
    OBVIOUS
  <1>2. IsFiniteSet(S) /\ Cardinality(S) =< Cardinality(Anchors)
    BY <1>1, JointConstants, FS_Subset
  <1>3. Cardinality(S) \in Nat
    BY <1>2, FS_CardinalityType
  <1>4. CatalogTarget = Cardinality(S)
    BY <1>1 DEF CatalogTarget
  <1>5. ASSUME NEW i \in Anchors, heads[i] > 0 PROVE i =< Cardinality(S)
    <2>1. PICK n \in Nat : Anchors = 1 .. n
      BY JointConstants
    <2>2. i \in 1 .. n
      BY <2>1
    <2>3. ASSUME NEW j \in 1 .. i PROVE j \in S
      <3>1. j \in Anchors
        BY <2>1, <2>2
      <3>2. j = i \/ j \in 1 .. i - 1
        BY <2>2
      <3>3. heads[j] > 0
        BY <1>5, <3>2
      <3>4. QED
        BY <1>1, <3>1, <3>3
    <2>4. 1 .. i \in SUBSET S
      BY <2>3
    <2>5. Cardinality(1 .. i) = i
      <3>1. 1 \in Int /\ i \in Int /\ ~(1 > i)
        BY <2>2
      <3>2. Cardinality(1 .. i) = IF 1 > i THEN 0 ELSE i - 1 + 1
        BY <3>1, FS_Interval
      <3>3. QED
        BY <3>1, <3>2
    <2>6. Cardinality(1 .. i) =< Cardinality(S)
      BY <1>2, <2>4, FS_Subset
    <2>7. QED
      BY <2>5, <2>6
  <1>6. QED
    BY <1>2, <1>3, <1>4, <1>5

(* A page asks for the heads between the cursor and its end.               *)
LEMMA PageFacts ==
  ASSUME Sources \in Marks, NEW s \in Stores, NEW sn, ScanSound(s, sn), s.discovery.id = Now,
         NEW asked, asked = PageRequests(s)
  PROVE  /\ PageEnd(s) \in Nat /\ PageEnd(s) =< s.discovery.target
         /\ DOMAIN asked \subseteq Anchors \ Unmapped
         /\ \A i \in DOMAIN asked : asked[i] \in Nat /\ asked[i] = Sources.heads[i]
         /\ \A i \in Anchors : i =< PageEnd(s) /\ i \notin Unmapped =>
              i =< s.discovery.cursor \/ i \in DOMAIN asked
  <1>1. /\ s.discovery.cursor \in Nat /\ s.discovery.target \in Nat
        /\ s.discovery.cursor =< s.discovery.target
        /\ s.discovery.target =< Cardinality(Anchors)
    BY StoreShape DEF ScanSound
  <1>2. PICK n \in Nat : Anchors = 1 .. n /\ n = Cardinality(Anchors)
    BY JointConstants
  <1>3. PageEnd(s) \in Nat /\ PageEnd(s) =< s.discovery.target
    BY <1>1, JointConstants DEF PageEnd
  <1>4. PICK e \in Nat : e = PageEnd(s)
    BY <1>3
  <1>5. PICK c \in Nat : c = s.discovery.cursor
    BY <1>1
  <1>6. asked = [i \in {j \in c + 1 .. e : j \notin Unmapped} |-> heads[i]]
    BY <1>4, <1>5 DEF PageRequests
  <1>7. DOMAIN asked = {j \in c + 1 .. e : j \notin Unmapped}
    BY <1>6
  <1>8. e =< n
    BY <1>1, <1>2, <1>3, <1>4
  <1>9. DOMAIN asked \subseteq Anchors \ Unmapped
    BY <1>2, <1>7, <1>8
  <1>10. \A i \in Anchors : heads[i] \in Nat /\ Sources.heads[i] = heads[i]
    BY DEF Marks, Sources
  <1>11. \A i \in DOMAIN asked : asked[i] = heads[i]
    BY <1>6, <1>7
  <1>12. \A i \in Anchors : i =< e /\ i \notin Unmapped => i =< c \/ i \in DOMAIN asked
    BY <1>2, <1>7
  <1>13. QED
    BY <1>3, <1>4, <1>5, <1>9, <1>10, <1>11, <1>12

LEMMA NextIsPending ==
  ASSUME NEW s \in Stores, ~Attempted(s.cycle)
  PROVE  NextItem(s) \in Anchors /\ s.cycle.items[NextItem(s)] = "pending"
  <1>1. PICK S : S = ItemsIn(s.cycle, {"pending"})
    OBVIOUS
  <1>2. S # {} /\ S \in SUBSET Nat
    BY <1>1, JointConstants DEF Attempted, ItemsIn
  <1>3. \E x \in S : \A y \in S : x =< y
    BY <1>2, LeastNat
  <1>4. NextItem(s) = CHOOSE x \in S : \A y \in S : x =< y
    BY <1>1 DEF NextItem
  <1>5. NextItem(s) \in S
    BY <1>3, <1>4
  <1>6. QED
    BY <1>1, <1>5 DEF ItemsIn

-----------------------------------------------------------------------------
(* What the store's steps keep of its promises.                            *)

LEMMA NowPast ==
  ASSUME NEW src \in Marks, NEW s, StoreSound(s, src)
  PROVE  LaterThan(s, src)
  <1>1. s \in Stores /\ \A i \in Anchors : src.heads[i] \in Nat
    BY DEF StoreSound, Marks
  <1>2. ASSUME NEW i \in Anchors, HasCase(s, i) PROVE src.heads[i] # 0
    <2>1. AnchorSound(s, i, src) /\ s.regs[i].requested \in Nat
      BY <1>1, AnchorShape DEF StoreSound
    <2>2. QED
      BY <1>1, <1>2, <2>1 DEF AnchorSound
  <1>3. QED
    BY <1>2 DEF LaterThan

LEMMA BeginDiscoveryKeeps ==
  ASSUME NEW src \in Marks, NEW s, NEW sn, NEW fl, StoreInv(s, sn, fl, src), Precedes(fl, src),
         s.discovery.id = None \/ s.discovery.complete,
         NEW target \in Nat, target =< Cardinality(Anchors),
         \A i \in Anchors : src.heads[i] > 0 => i =< target,
         NEW t, t = BeginDiscovery(s, target)
  PROVE  /\ StoreInv(t, src, fl, src) /\ Advances(s, t, src)
         /\ t.discovery.id = Now /\ t.runtime.pending = s.runtime.pending
  <1>1. StoreSound(s, src)
    BY DEF StoreInv
  <1>2. /\ Advances(s, t, src)
        /\ t.discovery.id = Now /\ t.discovery.target = target /\ t.discovery.cursor = 0
        /\ t.discovery.complete => target = 0
        /\ t.runtime.pending = s.runtime.pending /\ t.runtime.refresh = None
        /\ t.runtime.recovery = Now
    BY <1>1, BeginDiscoveryAdvances
  <1>3. StoreSound(t, src)
    BY <1>2 DEF Advances
  <1>4. LaterThan(t, src)
    BY <1>3, NowPast
  <1>5. ScanSound(t, src)
    <2>1. PICK n \in Nat : Anchors = 1 .. n
      BY JointConstants
    <2>2. \A i \in Anchors : ~(i =< 0)
      BY <2>1
    <2>3. QED
      BY <1>2, <2>2 DEF ScanSound
  <1>6. RuntimeSound(t, src, fl)
    BY <1>2, IdentityKinds DEF RuntimeSound
  <1>7. QED
    BY <1>2, <1>3, <1>4, <1>5, <1>6 DEF StoreInv

LEMMA FailureKeeps ==
  ASSUME NEW src \in Marks, NEW s, NEW sn \in Marks, NEW fl, StoreInv(s, sn, fl, src),
         Precedes(sn, src), NEW code \in Faults, NEW t,
         \/ t = DiscoveryFailure(s, code)
         \/ t = FailDiscovery(s, s.discovery.cursor, code) /\ ~s.discovery.complete
  PROVE  /\ StoreInv(t, sn, src, src) /\ Advances(s, t, src) /\ t.cycle = s.cycle
         /\ t.runtime.pending /\ t.discovery.id = s.discovery.id
         /\ t.discovery.complete => s.discovery.complete
  <1>1. StoreSound(s, src) /\ LaterThan(s, sn) /\ ScanSound(s, sn)
    BY DEF StoreInv
  <1>2. /\ Advances(s, t, src)
        /\ t.regs = s.regs /\ t.cases = s.cases /\ t.cycle = s.cycle
        /\ t.discovery.id = s.discovery.id /\ (t.discovery.complete => s.discovery.complete)
        /\ t.discovery.target = s.discovery.target /\ t.discovery.cursor = s.discovery.cursor
        /\ t.runtime.pending /\ t.runtime.refresh = None /\ t.runtime.recovery = None
    BY <1>1, FailureAdvances
  <1>3. StoreSound(t, src)
    BY <1>2 DEF Advances
  <1>4. LaterThan(t, sn)
    BY <1>1, <1>2, AdvanceKeepsPromises
  <1>5. ScanSound(t, sn)
    BY <1>1, <1>2 DEF ScanSound
  <1>6. RuntimeSound(t, sn, src)
    BY <1>2, IdentityKinds DEF RuntimeSound
  <1>7. QED
    BY <1>2, <1>3, <1>4, <1>5, <1>6 DEF StoreInv

LEMMA ApplyPageKeeps ==
  ASSUME NEW src \in Marks, NEW s, NEW sn \in Marks, NEW fl, StoreInv(s, sn, fl, src),
         Precedes(sn, src), NEW asked, DOMAIN asked \subseteq Anchors \ Unmapped,
         \A i \in DOMAIN asked : asked[i] \in Nat /\ asked[i] = src.heads[i],
         FitsRegistrations(s, asked), s.discovery.id = Now, ~s.discovery.complete,
         NEW next \in Nat, next =< s.discovery.target,
         \A i \in Anchors : i =< next /\ i \notin Unmapped =>
           i =< s.discovery.cursor \/ i \in DOMAIN asked,
         NEW complete \in BOOLEAN, complete => next = s.discovery.target,
         NEW t, t = ApplyPage(s, s.discovery.cursor, asked, next, complete)
  PROVE  /\ StoreInv(t, sn, fl, src) /\ Advances(s, t, src) /\ t.cycle.id = s.cycle.id
         /\ t.discovery.id = Now /\ t.runtime.pending = s.runtime.pending
  <1>1. StoreSound(s, src) /\ LaterThan(s, sn) /\ ScanSound(s, sn) /\ RuntimeSound(s, sn, fl)
    BY DEF StoreInv
  <1>2. /\ src.ssh \in Nat /\ \A i \in Anchors : src.heads[i] \in Nat /\ sn.heads[i] \in Nat
        /\ \A i \in Anchors : sn.heads[i] =< src.heads[i]
    BY DEF Marks, Precedes
  <1>3. \A i \in DOMAIN asked : asked[i] \in Nat /\ asked[i] =< src.heads[i]
    BY <1>2
  <1>4. /\ Advances(s, t, src)
        /\ t.cycle.id = s.cycle.id /\ t.cycle.items = s.cycle.items
        /\ t.discovery.id = Now /\ t.discovery.target = s.discovery.target
        /\ t.discovery.cursor = next /\ t.discovery.complete = complete
        /\ t.runtime.pending = s.runtime.pending /\ t.runtime.refresh = s.runtime.refresh
        /\ t.runtime.recovery = s.runtime.recovery
        /\ \A i \in DOMAIN asked : t.regs[i].requested >= asked[i]
    BY <1>1, <1>3, ApplyPageAdvances
  <1>5. StoreSound(t, src) /\ \A i \in Anchors : t.regs[i].requested >= s.regs[i].requested
    BY <1>4 DEF Advances
  <1>6. LaterThan(t, sn) /\ (CycleAfter(s, sn) => CycleAfter(t, sn))
    BY <1>1, <1>4, AdvanceKeepsPromises
  <1>7. ASSUME NEW i \in Anchors, i =< next, i \notin Unmapped
        PROVE  t.regs[i].requested >= sn.heads[i]
    <2>1. s.regs[i].requested \in Nat /\ t.regs[i].requested \in Nat
      BY <1>1, <1>5, AnchorShape DEF StoreSound
    <2>2. CASE i =< s.discovery.cursor
      <3>1. s.regs[i].requested >= sn.heads[i]
        BY <1>1, <1>7, <2>2 DEF ScanSound
      <3>2. QED
        BY <1>2, <1>5, <2>1, <3>1
    <2>3. CASE i \in DOMAIN asked
      <3>1. t.regs[i].requested >= src.heads[i]
        BY <1>4, <2>3
      <3>2. QED
        BY <1>2, <2>1, <3>1
    <2>4. QED
      BY <1>7, <2>2, <2>3
  <1>8. ScanSound(t, sn)
    BY <1>1, <1>4, <1>7 DEF ScanSound
  <1>9. RuntimeSound(t, sn, fl)
    BY <1>1, <1>4, <1>6, IdentityKinds DEF RuntimeSound
  <1>10. QED
    BY <1>4, <1>5, <1>6, <1>8, <1>9 DEF StoreInv

(* Cycles and their items; and revalidation is earned.                     *)
LEMMA CycleKeeps ==
  ASSUME NEW src \in Marks, NEW s, NEW t, NEW sn \in Marks, NEW fl \in Marks,
         StoreInv(s, sn, fl, src), Precedes(sn, src), Advances(s, t, src),
         t.discovery = s.discovery, t.runtime.recovery = s.runtime.recovery,
         t.runtime.pending => s.runtime.pending,
         t.runtime.refresh = Now => s.runtime.refresh = Now \/ CycleAfter(t, sn),
         NEW g, t.runtime.pending => g = fl
  PROVE  /\ StoreInv(t, sn, g, src)
         /\ s.runtime.pending /\ ~t.runtime.pending => Covers(t, fl)
  <1>1. StoreSound(s, src) /\ LaterThan(s, sn) /\ ScanSound(s, sn) /\ RuntimeSound(s, sn, fl)
    BY DEF StoreInv
  <1>2. /\ StoreSound(t, src) /\ \A i \in Anchors : t.regs[i].requested >= s.regs[i].requested
        /\ s.runtime.pending /\ ~t.runtime.pending => Revalidated(t)
    BY DEF Advances
  <1>3. LaterThan(t, sn) /\ (CycleAfter(s, sn) => CycleAfter(t, sn))
    BY <1>1, AdvanceKeepsPromises
  <1>4. t.runtime.refresh = Now => CycleAfter(t, sn)
    BY <1>1, <1>3 DEF RuntimeSound
  <1>5. ScanSound(t, sn)
    <2>1. \A i \in Anchors : /\ s.regs[i].requested \in Nat /\ t.regs[i].requested \in Nat
                             /\ sn.heads[i] \in Nat
      BY <1>1, <1>2, AnchorShape DEF StoreSound, Marks
    <2>2. QED
      BY <1>1, <1>2, <2>1 DEF ScanSound
  <1>6. t.discovery.id = None => t.runtime.pending \/ sn = Nothing
    <2>1. SUFFICES ASSUME t.discovery.id = None, ~t.runtime.pending, s.runtime.pending PROVE FALSE
      BY <1>1 DEF RuntimeSound
    <2>2. t.discovery.complete
      BY <1>2, <2>1 DEF Revalidated
    <2>3. QED
      BY <1>2, <2>1, <2>2, IdentityKinds DEF StoreSound
  <1>7. t.runtime.pending /\ t.runtime.recovery = Now => Precedes(g, sn)
    BY <1>1 DEF RuntimeSound
  <1>8. StoreInv(t, sn, g, src)
    BY <1>2, <1>3, <1>4, <1>5, <1>6, <1>7 DEF StoreInv, RuntimeSound
  <1>9. ASSUME s.runtime.pending, ~t.runtime.pending PROVE Covers(t, fl)
    <2>1. Revalidated(t)
      BY <1>2, <1>9
    <2>2. t \in Stores /\ t.discovery.id = Now
      BY <1>2, <2>1 DEF StoreSound, Revalidated
    <2>3. t.cycle.id = Now
      BY <2>1, <2>2, StoreIdentities DEF Revalidated
    <2>4. t.runtime.refresh = Now /\ s.runtime.recovery = Now
      BY <2>1, <2>2, <2>3 DEF Revalidated
    <2>5. Covers(t, sn)
      BY <1>2, <1>4, <1>5, <2>1, <2>4, WholeRoundCovers DEF Revalidated
    <2>6. Precedes(fl, sn)
      BY <1>1, <1>9, <2>4 DEF RuntimeSound
    <2>7. QED
      BY <2>2, <2>5, <2>6, EarlierIsCovered
  <1>10. QED
    BY <1>8, <1>9

-----------------------------------------------------------------------------
(* The invariant holds at the start, and while the sources go on.          *)

Earned == store.runtime.pending /\ ~store'.runtime.pending => Covers(store', failed)

LEMMA NothingMark ==
  /\ Nothing \in Marks /\ Nothing.ssh = 0 /\ \A i \in Anchors : Nothing.heads[i] = 0
  /\ \A m \in Marks : Precedes(Nothing, m)
  <1>1. Nothing \in Marks /\ Nothing.ssh = 0 /\ \A i \in Anchors : Nothing.heads[i] = 0
    BY DEF Nothing, Marks
  <1>2. ASSUME NEW m \in Marks PROVE Precedes(Nothing, m)
    <2>1. m.ssh \in Nat /\ \A i \in Anchors : m.heads[i] \in Nat
      BY DEF Marks
    <2>2. QED
      BY <1>1, <2>1 DEF Precedes
  <1>3. QED
    BY <1>1, <1>2

LEMMA PrecedesOn ==
  ASSUME NEW a \in Marks, NEW b \in Marks, NEW c \in Marks, Precedes(a, b), Precedes(b, c)
  PROVE  Precedes(a, c)
  <1>1. /\ a.ssh \in Nat /\ b.ssh \in Nat /\ c.ssh \in Nat
        /\ \A i \in Anchors : a.heads[i] \in Nat /\ b.heads[i] \in Nat /\ c.heads[i] \in Nat
    BY DEF Marks
  <1>2. QED
    BY <1>1 DEF Precedes

LEMMA PrecedesItself ==
  ASSUME NEW a \in Marks
  PROVE  Precedes(a, a)
  <1>1. a.ssh \in Nat /\ \A i \in Anchors : a.heads[i] \in Nat
    BY DEF Marks
  <1>2. QED
    BY <1>1 DEF Precedes

LEMMA JointStarts == JointInit => JointInv
  <1>1. SUFFICES ASSUME JointInit PROVE JointInv
    OBVIOUS
  <1>2. PICK z \in Marks : z = Nothing
    BY NothingMark
  <1>3. Sources = z /\ seen = z /\ failed = z
    BY <1>1, <1>2 DEF JointInit, Sources, Nothing
  <1>4. \A i \in Anchors : heads[i] = 0
    BY <1>1 DEF JointInit
  <1>5. Precedes(z, z)
    BY PrecedesItself
  <1>6. PICK s : s = EmptyStore /\ s = store /\ s = snapshot
    BY <1>1 DEF JointInit
  <1>7. /\ StoreSound(s, z) /\ \A i \in Anchors : ~HasCase(s, i)
        /\ s.discovery.id = None /\ s.runtime.refresh = None /\ s.runtime.recovery = None
    BY <1>6, EmptySound
  <1>8. LaterThan(s, z)
    BY <1>7 DEF LaterThan
  <1>9. ScanSound(s, z) /\ RuntimeSound(s, z, z)
    BY <1>2, <1>7, IdentityKinds DEF ScanSound, RuntimeSound
  <1>10. MemorySound(NewState, s, z, z)
    BY <1>7, NewStateSound
  <1>11. job = NoJob /\ checkpoint = NewState
    BY <1>1 DEF JointInit
  <1>12. job.mem = NewState
    BY <1>11 DEF NoJob
  <1>13. JobSound
    BY <1>11, <1>12 DEF JobSound, NoJob, AtDiscovery, AtRefresh
  <1>14. StoreInv(s, z, z, z)
    BY <1>7, <1>8, <1>9 DEF StoreInv
  <1>15. QED
    BY <1>3, <1>4, <1>5, <1>6, <1>7, <1>8, <1>10, <1>11, <1>12, <1>13, <1>14 DEF JointInv

LEMMA SourcesGoOn ==
  ASSUME JointInv, UNCHANGED <<store, snapshot, checkpoint, job, seen, failed>>,
         Sources' \in Marks, Precedes(Sources, Sources'),
         \A i \in Anchors : heads'[i] > 0 => \A j \in 1 .. i - 1 : heads'[j] > 0
  PROVE  JointInv'
  <1>1. PICK a \in Marks, b \in Marks : a = Sources /\ b = Sources'
    BY DEF JointInv
  <1>2. /\ Precedes(a, b) /\ Precedes(seen, a) /\ Precedes(failed, a)
        /\ seen \in Marks /\ failed \in Marks
        /\ StoreInv(store, seen, failed, a) /\ StoreSound(snapshot, a) /\ LaterThan(snapshot, seen)
        /\ MemorySound(checkpoint, store, seen, a) /\ MemorySound(job.mem, store, seen, a)
        /\ JobSound
    BY <1>1 DEF JointInv
  <1>3. Precedes(seen, b) /\ Precedes(failed, b)
    BY <1>1, <1>2, PrecedesOn
  <1>4. StoreSound(store, b) /\ StoreSound(snapshot, b)
    BY <1>1, <1>2, SoundLater DEF StoreInv
  <1>5. StoreInv(store, seen, failed, b)
    BY <1>2, <1>4 DEF StoreInv
  <1>6. ASSUME NEW m, MemorySound(m, store, seen, a) PROVE MemorySound(m, store, seen, b)
    <2>1. m.success \in Marks /\ Precedes(m.success, a)
      BY <1>6, MemoryShape DEF MemorySound
    <2>2. Precedes(m.success, b)
      BY <1>1, <1>2, <2>1, PrecedesOn
    <2>3. QED
      BY <1>6, <2>2 DEF MemorySound
  <1>7. MemorySound(checkpoint, store, seen, b) /\ MemorySound(job.mem, store, seen, b)
    BY <1>2, <1>6
  <1>8. JobSound'
    BY <1>2 DEF JobSound
  <1>9. /\ store' = store /\ snapshot' = snapshot /\ checkpoint' = checkpoint /\ job' = job
        /\ seen' = seen /\ failed' = failed
    OBVIOUS
  <1>10. /\ Sources' \in Marks /\ seen' \in Marks /\ failed' \in Marks
         /\ Precedes(seen', Sources') /\ Precedes(failed', Sources')
    BY <1>1, <1>2, <1>3, <1>9
  <1>11. /\ StoreInv(store', seen', failed', Sources')
         /\ StoreSound(snapshot', Sources') /\ LaterThan(snapshot', seen')
         /\ MemorySound(checkpoint', store', seen', Sources')
         /\ MemorySound(job'.mem, store', seen', Sources')
    BY <1>1, <1>2, <1>4, <1>5, <1>7, <1>9
  <1>12. QED
    BY <1>8, <1>10, <1>11 DEF JointInv

LEMMA ReviseKeeps == JointInv /\ ReviseIncident => JointInv'
  <1>1. SUFFICES ASSUME JointInv, ReviseIncident PROVE JointInv'
    OBVIOUS
  <1>2. PICK i \in Anchors : /\ \A j \in 1 .. i - 1 : heads[j] > 0
                             /\ heads' = [heads EXCEPT ![i] = @ + 1]
                             /\ UNCHANGED <<last, ssh, store, snapshot, checkpoint, job, upsets, seen, failed>>
    BY <1>1 DEF ReviseIncident
  <1>3. heads \in [Anchors -> Nat] /\ ssh \in Nat
    BY <1>1 DEF JointInv, Marks, Sources
  <1>4. PICK h \in [Anchors -> Nat] : h = heads'
    <2>1. heads[i] + 1 \in Nat
      BY <1>3
    <2>2. heads' \in [Anchors -> Nat]
      BY <1>2, <1>3, <2>1
    <2>3. QED
      BY <2>2
  <1>5. h[i] = heads[i] + 1 /\ \A k \in Anchors \ {i} : h[k] = heads[k]
    BY <1>2, <1>3, <1>4
  <1>6. Sources = [heads |-> heads, ssh |-> ssh] /\ Sources' = [heads |-> h, ssh |-> ssh]
    BY <1>2, <1>4 DEF Sources
  <1>7. Sources' \in Marks
    BY <1>3, <1>6 DEF Marks
  <1>8. \A k \in Anchors : heads[k] =< h[k]
    BY <1>3, <1>5
  <1>9. Precedes(Sources, Sources')
    BY <1>3, <1>6, <1>8 DEF Precedes
  <1>10. ASSUME NEW k \in Anchors, h[k] > 0, NEW j \in 1 .. k - 1
         PROVE  h[j] > 0
    <2>1. PICK n \in Nat : Anchors = 1 .. n
      BY JointConstants
    <2>2. j \in Anchors
      BY <2>1
    <2>3. heads[j] > 0
      BY <1>1, <1>2, <1>5, <1>10 DEF JointInv
    <2>4. heads[j] =< h[j] /\ heads[j] \in Nat /\ h[j] \in Nat
      BY <1>3, <1>4, <1>8, <2>2
    <2>5. QED
      BY <2>3, <2>4
  <1>11. QED
    BY <1>1, <1>2, <1>4, <1>7, <1>9, <1>10, SourcesGoOn

LEMMA SshArrivesKeeps == JointInv /\ SshArrives => JointInv'
  <1>1. SUFFICES ASSUME JointInv, SshArrives PROVE JointInv'
    OBVIOUS
  <1>2. heads \in [Anchors -> Nat] /\ ssh \in Nat
    BY <1>1 DEF JointInv, Marks, Sources
  <1>3. heads' = heads /\ ssh' = ssh + 1
    BY <1>1 DEF SshArrives
  <1>4. Sources = [heads |-> heads, ssh |-> ssh] /\ Sources' = [heads |-> heads, ssh |-> ssh + 1]
    BY <1>3 DEF Sources
  <1>5. Sources' \in Marks
    BY <1>2, <1>4 DEF Marks
  <1>6. \A k \in Anchors : heads[k] =< heads[k]
    BY <1>2
  <1>7. Precedes(Sources, Sources')
    BY <1>2, <1>4, <1>6 DEF Precedes
  <1>8. UNCHANGED <<store, snapshot, checkpoint, job, seen, failed>>
    BY <1>1 DEF SshArrives
  <1>9. \A i \in Anchors : heads'[i] > 0 => \A j \in 1 .. i - 1 : heads'[j] > 0
    BY <1>1, <1>3 DEF JointInv
  <1>10. QED
    BY <1>1, <1>5, <1>7, <1>8, <1>9, SourcesGoOn

(* A step that leaves the sources alone.                                   *)
LEMMA JointAssembled ==
  ASSUME JointInv, UNCHANGED <<heads, ssh>>, NEW src, src = Sources,
         seen' \in Marks, failed' \in Marks, Precedes(seen', src), Precedes(failed', src),
         StoreInv(store', seen', failed', src),
         StoreSound(snapshot', src), LaterThan(snapshot', seen'),
         MemorySound(checkpoint', store', seen', src), MemorySound(job'.mem, store', seen', src),
         JobSound'
  PROVE  JointInv'
  <1>1. Sources' = src /\ src \in Marks /\ heads' = heads
    BY DEF Sources, JointInv
  <1>2. Sources' \in Marks /\ Precedes(seen', Sources') /\ Precedes(failed', Sources')
    BY <1>1
  <1>3. \A i \in Anchors : heads'[i] > 0 => \A j \in 1 .. i - 1 : heads'[j] > 0
    BY <1>1 DEF JointInv
  <1>4. /\ StoreInv(store', seen', failed', Sources')
        /\ StoreSound(snapshot', Sources') /\ LaterThan(snapshot', seen')
        /\ MemorySound(checkpoint', store', seen', Sources')
        /\ MemorySound(job'.mem, store', seen', Sources')
    BY <1>1
  <1>5. QED
    BY <1>2, <1>3, <1>4 DEF JointInv

(* ... and only moves the job and its checkpoint.                          *)
LEMMA OnlyTheJob ==
  ASSUME JointInv, UNCHANGED <<heads, ssh, store, seen, failed>>, NEW src, src = Sources,
         snapshot' = snapshot \/ snapshot' = store,
         MemorySound(checkpoint', store, seen, src), MemorySound(job'.mem, store, seen, src),
         JobSound'
  PROVE  JointInv' /\ Earned
  <1>1. /\ store' = store /\ seen' = seen /\ failed' = failed
    OBVIOUS
  <1>2. /\ seen \in Marks /\ failed \in Marks /\ Precedes(seen, src) /\ Precedes(failed, src)
        /\ StoreInv(store, seen, failed, src) /\ StoreSound(snapshot, src) /\ LaterThan(snapshot, seen)
    BY DEF JointInv
  <1>3. StoreSound(snapshot', src) /\ LaterThan(snapshot', seen)
    BY <1>2 DEF StoreInv
  <1>4. JointInv'
    BY <1>1, <1>2, <1>3, JointAssembled
  <1>5. Earned
    BY <1>1 DEF Earned
  <1>6. QED
    BY <1>4, <1>5

-----------------------------------------------------------------------------
(* Where the job goes.                                                     *)

LEMMA RefreshToShape ==
  ASSUME JobSound, NEW at, NEW mem, RefreshTo(at, mem)
  PROVE  /\ job'.by = job.by /\ job'.at = at /\ job'.mem = mem
         /\ job' = [by |-> job'.by, at |-> job'.at, mem |-> job'.mem, left |-> job'.left]
  BY DEF JobSound, RefreshTo

LEMMA NoJobShape ==
  /\ NoJob.by = "nobody" /\ NoJob.at = "idle" /\ NoJob.mem = NewState
  /\ NoJob = [by |-> NoJob.by, at |-> NoJob.at, mem |-> NoJob.mem, left |-> NoJob.left]
  BY DEF NoJob

JobEnds(t, sn, src) ==
  /\ job' = [by |-> job'.by, at |-> job'.at, mem |-> job'.mem, left |-> job'.left]
  /\ job'.at \in {"save", "idle"}
  /\ job'.by # "tick" => job'.mem = NewState
  /\ MemorySound(job'.mem, t, sn, src)

LEMMA EndsSound ==
  ASSUME NEW t, NEW sn, NEW src, JobEnds(t, sn, src)
  PROVE  JobSound' /\ MemorySound(job'.mem, t, sn, src)
  BY DEF JobEnds, JobSound, AtDiscovery, AtRefresh

LEMMA IdleEnds ==
  ASSUME NEW src \in Marks, NEW t, StoreSound(t, src), NEW sn, job' = NoJob
  PROVE  JobEnds(t, sn, src)
  <1>1. MemorySound(NewState, t, sn, src)
    BY NewStateSound
  <1>2. QED
    BY <1>1, NoJobShape DEF JobEnds

LEMMA EndWithEnds ==
  ASSUME JobSound, job.by = "tick", NEW t, NEW sn, NEW src, NEW mem, MemorySound(mem, t, sn, src),
         EndWith(mem)
  PROVE  JobEnds(t, sn, src)
  <1>1. PICK n : n = IF mem.state = "running" THEN [mem EXCEPT !.state = "waiting"] ELSE mem
    OBVIOUS
  <1>2. RefreshTo("save", n)
    BY <1>1 DEF EndWith
  <1>3. MemorySound(n, t, sn, src)
    <2>1. CASE mem.state = "running"
      <3>1. n = [mem EXCEPT !.state = "waiting"]
        BY <1>1, <2>1
      <3>2. QED
        BY <3>1, InStateSound
    <2>2. CASE mem.state # "running"
      BY <1>1, <2>2
    <2>3. QED
      BY <2>1, <2>2
  <1>4. QED
    BY <1>2, <1>3, RefreshToShape DEF JobEnds

LEMMA FailureEnds ==
  ASSUME JobSound, job.by = "tick", NEW t, NEW sn, NEW src, StoreSound(t, src),
         NEW mem, MemorySound(mem, t, sn, src), NEW code, RefreshTo("save", Failure(mem, t, code))
  PROVE  JobEnds(t, sn, src)
  <1>1. PICK n : n = Failure(mem, t, code)
    OBVIOUS
  <1>2. MemorySound(n, t, sn, src)
    BY <1>1, FailureSound
  <1>3. RefreshTo("save", n)
    BY <1>1
  <1>4. QED
    BY <1>2, <1>3, RefreshToShape DEF JobEnds

LEMMA RaiseEnds ==
  ASSUME JobSound, NEW src \in Marks, NEW t, NEW sn, StoreSound(t, src),
         MemorySound(job.mem, t, sn, src), NEW code, Raise(t, code)
  PROVE  JobEnds(t, sn, src)
  <1>1. CASE job.by = "tick"
    <2>1. RefreshTo("save", Failure(job.mem, t, code))
      BY <1>1 DEF Raise
    <2>2. QED
      BY <1>1, <2>1, FailureEnds
  <1>2. CASE job.by # "tick"
    <2>1. job' = NoJob
      BY <1>2 DEF Raise
    <2>2. QED
      BY <2>1, IdleEnds
  <1>3. QED
    BY <1>1, <1>2

LEMMA DiscoveredEnds ==
  ASSUME JobSound, NEW src \in Marks, NEW t, NEW sn, StoreSound(t, src),
         t.cycle.id = store.cycle.id, NEW mem, MemorySound(mem, t, sn, src),
         job.by = "tick" => mem.phase = "discover", Discovered(mem, t)
  PROVE  JobEnds(t, sn, src)
  <1>1. CASE job.by = "tick"
    <2>1. PICK m : m = [mem EXCEPT !.discovery = t.discovery.id]
      OBVIOUS
    <2>2. MemorySound(m, t, sn, src)
      BY <1>1, <2>1, NotedSound
    <2>3. EndWith(IF t.discovery.complete THEN ToRefresh(m) ELSE m)
      BY <1>1, <2>1 DEF Discovered
    <2>4. PICK n : n = IF t.discovery.complete THEN ToRefresh(m) ELSE m
      OBVIOUS
    <2>5. MemorySound(n, t, sn, src)
      <3>1. CASE t.discovery.complete
        <4>1. n = [m EXCEPT !.phase = "refresh", !.refresh = None, !.oldRefresh = t.cycle.id]
          BY <2>4, <3>1 DEF ToRefresh
        <4>2. QED
          BY <2>2, <4>1, ToRefreshSound
      <3>2. CASE ~t.discovery.complete
        BY <2>2, <2>4, <3>2
      <3>3. QED
        BY <3>1, <3>2
    <2>6. EndWith(n)
      BY <2>3, <2>4
    <2>7. QED
      BY <1>1, <2>5, <2>6, EndWithEnds
  <1>2. CASE job.by # "tick"
    <2>1. job' = NoJob
      BY <1>2 DEF Discovered
    <2>2. QED
      BY <2>1, IdleEnds
  <1>3. QED
    BY <1>1, <1>2

-----------------------------------------------------------------------------
(* The steps of a job, one lemma each.                                     *)

LEMMA TickKeeps == JointInv /\ Tick => JointInv' /\ Earned
  <1>1. SUFFICES ASSUME JointInv, Tick PROVE JointInv' /\ Earned
    OBVIOUS
  <1>2. PICK lost \in BOOLEAN :
          LET old == IF lost THEN NewState ELSE checkpoint
              mem == [(IF old.phase = "idle" THEN Start(old, store) ELSE old) EXCEPT !.state = "running"]
          IN  /\ checkpoint' = mem
              /\ job' = [by |-> "tick", at |-> mem.phase, mem |-> mem, left |-> 0]
    BY <1>1 DEF Tick
  <1>3. UNCHANGED <<heads, ssh, store, seen, failed, snapshot>>
    BY <1>1 DEF Tick
  <1>4. PICK src \in Marks : src = Sources
    BY <1>1 DEF JointInv
  <1>5. StoreSound(store, src) /\ MemorySound(checkpoint, store, seen, src)
    BY <1>1, <1>4 DEF JointInv, StoreInv
  <1>6. PICK old : old = IF lost THEN NewState ELSE checkpoint
    OBVIOUS
  <1>7. MemorySound(old, store, seen, src)
    <2>1. CASE lost
      BY <1>5, <1>6, <2>1, NewStateSound
    <2>2. CASE ~lost
      BY <1>5, <1>6, <2>2
    <2>3. QED
      BY <2>1, <2>2
  <1>8. PICK begun : begun = IF old.phase = "idle" THEN Start(old, store) ELSE old
    OBVIOUS
  <1>9. MemorySound(begun, store, seen, src) /\ begun.phase \in {"discover", "refresh"}
    <2>1. CASE old.phase = "idle"
      <3>1. begun = Start(old, store)
        BY <1>8, <2>1
      <3>2. QED
        BY <1>5, <1>7, <3>1, StartSound
    <2>2. CASE old.phase # "idle"
      <3>1. old.phase \in {"idle", "discover", "refresh"}
        BY <1>7, MemoryShape DEF MemorySound
      <3>2. QED
        BY <1>7, <1>8, <2>2, <3>1
    <2>3. QED
      BY <2>1, <2>2
  <1>10. PICK mem : mem = [begun EXCEPT !.state = "running"]
    OBVIOUS
  <1>11. MemorySound(mem, store, seen, src) /\ mem.phase \in {"discover", "refresh"}
    BY <1>9, <1>10, InStateSound
  <1>12. checkpoint' = mem /\ job' = [by |-> "tick", at |-> mem.phase, mem |-> mem, left |-> 0]
    BY <1>2, <1>6, <1>8, <1>10
  <1>13. job'.by = "tick" /\ job'.at = mem.phase /\ job'.mem = mem /\ job'.left = 0
    BY <1>12
  <1>14. JobSound'
    <2>1. job' = [by |-> job'.by, at |-> job'.at, mem |-> job'.mem, left |-> job'.left]
      BY <1>12, <1>13
    <2>2. QED
      BY <1>11, <1>13, <2>1 DEF JobSound, AtDiscovery, AtRefresh
  <1>15. QED
    BY <1>1, <1>3, <1>4, <1>11, <1>12, <1>13, <1>14, OnlyTheJob

LEMMA DiscoveryStepKeeps == JointInv /\ DiscoveryStep => JointInv' /\ Earned
  <1>1. SUFFICES ASSUME JointInv, DiscoveryStep PROVE JointInv' /\ Earned
    OBVIOUS
  <1>2. UNCHANGED <<heads, ssh, store, snapshot, checkpoint, seen, failed>>
        /\ job.by = "tick" /\ job.at = "discover"
    BY <1>1 DEF DiscoveryStep
  <1>3. PICK src \in Marks : src = Sources
    BY <1>1 DEF JointInv
  <1>4. /\ StoreSound(store, src) /\ MemorySound(checkpoint, store, seen, src)
        /\ MemorySound(job.mem, store, seen, src) /\ JobSound
    BY <1>1, <1>3 DEF JointInv, StoreInv
  <1>5. job.mem.phase = "discover"
    BY <1>2, <1>4 DEF JobSound, AtDiscovery
  <1>6. PICK m : m = IF job.mem.discovery = None /\ store.discovery.id # job.mem.oldDiscovery
                     THEN [job.mem EXCEPT !.discovery = store.discovery.id] ELSE job.mem
    OBVIOUS
  <1>7. MemorySound(m, store, seen, src) /\ m.phase = "discover"
    <2>1. CASE job.mem.discovery = None /\ store.discovery.id # job.mem.oldDiscovery
      <3>1. m = [job.mem EXCEPT !.discovery = store.discovery.id]
        BY <1>6, <2>1
      <3>2. QED
        BY <1>4, <1>5, <3>1, NotedSound
    <2>2. CASE ~(job.mem.discovery = None /\ store.discovery.id # job.mem.oldDiscovery)
      BY <1>4, <1>5, <1>6, <2>2
    <2>3. QED
      BY <2>1, <2>2
  <1>8. \/ EndWith(Realign(job.mem, store))
        \/ RefreshTo("save", Failure(m, store, store.discovery.error))
        \/ EndWith(ToRefresh(m))
        \/ RefreshTo("begin", m)
    BY <1>1, <1>6 DEF DiscoveryStep
  <1>9. JobSound' /\ MemorySound(job'.mem, store, seen, src)
    <2>1. CASE EndWith(Realign(job.mem, store))
      <3>1. PICK n : n = Start(job.mem, store)
        OBVIOUS
      <3>2. MemorySound(n, store, seen, src) /\ EndWith(n)
        BY <1>4, <2>1, <3>1, StartSound DEF Realign
      <3>3. QED
        BY <1>2, <1>4, <3>2, EndWithEnds, EndsSound
    <2>2. CASE RefreshTo("save", Failure(m, store, store.discovery.error))
      BY <1>2, <1>4, <1>7, <2>2, FailureEnds, EndsSound
    <2>3. CASE EndWith(ToRefresh(m))
      <3>1. PICK n : n = [m EXCEPT !.phase = "refresh", !.refresh = None, !.oldRefresh = store.cycle.id]
        OBVIOUS
      <3>2. MemorySound(n, store, seen, src) /\ EndWith(n)
        BY <1>4, <1>7, <2>3, <3>1, ToRefreshSound DEF ToRefresh
      <3>3. QED
        BY <1>2, <1>4, <3>2, EndWithEnds, EndsSound
    <2>4. CASE RefreshTo("begin", m)
      BY <1>2, <1>4, <1>7, <2>4, RefreshToShape DEF JobSound, AtDiscovery, AtRefresh
    <2>5. QED
      BY <1>8, <2>1, <2>2, <2>3, <2>4
  <1>10. QED
    BY <1>1, <1>2, <1>3, <1>4, <1>9, OnlyTheJob

LEMMA AgedNewState == AgedDiscovery(NewState) = NewState /\ AgedRefresh(NewState) = NewState
  BY DEF AgedDiscovery, AgedRefresh, NewState, Aged, None, Now

LEMMA DiscoverKeeps == JointInv /\ Discover => JointInv' /\ Earned
  <1>1. SUFFICES ASSUME JointInv, Discover PROVE JointInv' /\ Earned
    OBVIOUS
  <1>2. UNCHANGED <<heads, ssh, snapshot>> /\ job.at = "begin"
    BY <1>1 DEF Discover
  <1>3. PICK src \in Marks : src = Sources
    BY <1>1 DEF JointInv
  <1>4. /\ StoreInv(store, seen, failed, src) /\ StoreSound(store, src)
        /\ StoreSound(snapshot, src) /\ LaterThan(snapshot, seen)
        /\ MemorySound(checkpoint, store, seen, src)
        /\ MemorySound(job.mem, store, seen, src) /\ JobSound
        /\ seen \in Marks /\ failed \in Marks /\ Precedes(seen, src) /\ Precedes(failed, src)
    BY <1>1, <1>3 DEF JointInv, StoreInv
  <1>5. job.by = "tick" => job.mem.phase = "discover"
    BY <1>2, <1>4 DEF JobSound, AtDiscovery
  <1>6. job.by # "tick" => job.mem = NewState
    BY <1>4 DEF JobSound
  <1>7. CASE /\ store.discovery.id # None /\ ~store.discovery.complete
             /\ RefreshTo("page", job.mem)
             /\ UNCHANGED <<store, checkpoint, seen, failed>>
    <2>1. store.discovery.id = Now
      BY <1>4, <1>7, StoreIdentities DEF StoreSound
    <2>2. job'.by = job.by /\ job'.at = "page" /\ job'.mem = job.mem
          /\ job' = [by |-> job'.by, at |-> job'.at, mem |-> job'.mem, left |-> job'.left]
      BY <1>4, <1>7, RefreshToShape
    <2>3. JobSound'
      BY <1>5, <1>6, <1>7, <2>1, <2>2 DEF JobSound, AtDiscovery, AtRefresh
    <2>4. QED
      BY <1>1, <1>2, <1>3, <1>4, <1>7, <2>2, <2>3, OnlyTheJob
  <1>8. CASE /\ store.discovery.id = None \/ store.discovery.complete
             /\ store' = BeginDiscovery(store, CatalogTarget)
             /\ seen' = Sources /\ checkpoint' = AgedDiscovery(checkpoint)
             /\ IF store'.discovery.complete THEN Discovered(AgedDiscovery(job.mem), store')
                ELSE RefreshTo("page", AgedDiscovery(job.mem))
             /\ UNCHANGED failed
    <2>1. /\ CatalogTarget \in Nat /\ CatalogTarget =< Cardinality(Anchors)
          /\ \A i \in Anchors : src.heads[i] > 0 => i =< CatalogTarget
      BY <1>1, <1>3, CatalogEnd DEF JointInv, Sources
    <2>2. PICK t : t = store'
      OBVIOUS
    <2>3. PICK e \in Nat : e = CatalogTarget
      BY <2>1
    <2>4. t = BeginDiscovery(store, e)
      BY <1>8, <2>2, <2>3
    <2>5. /\ StoreInv(t, src, failed, src) /\ Advances(store, t, src)
          /\ t.discovery.id = Now /\ t.runtime.pending = store.runtime.pending
      BY <1>4, <1>8, <2>1, <2>3, <2>4, BeginDiscoveryKeeps
    <2>6. t.cycle.id = store.cycle.id
      BY <1>4, <1>8, <2>4, BeginDiscoveryAdvances
    <2>7. StoreSound(t, src)
      BY <2>5 DEF StoreInv
    <2>8. MemorySound(checkpoint, t, seen, src) /\ MemorySound(job.mem, t, seen, src)
      BY <1>4, <2>5, <2>6, MemoryStays
    <2>9. MemorySound(checkpoint', t, src, src)
      BY <1>8, <2>8, AgedDiscoverySound
    <2>10. PICK m : m = AgedDiscovery(job.mem)
      OBVIOUS
    <2>11. MemorySound(m, t, src, src) /\ m.phase = job.mem.phase
      BY <2>8, <2>10, AgedDiscoverySound
    <2>12. job.by # "tick" => m = NewState
      BY <1>6, <2>10, AgedNewState
    <2>13. JobSound' /\ MemorySound(job'.mem, t, src, src)
      <3>1. CASE t.discovery.complete
        <4>1. Discovered(m, t)
          BY <1>8, <2>2, <2>10, <3>1
        <4>2. JobEnds(t, src, src)
          BY <1>4, <1>5, <2>6, <2>7, <2>11, <4>1, DiscoveredEnds
        <4>3. QED
          BY <4>2, EndsSound
      <3>2. CASE ~t.discovery.complete
        <4>1. RefreshTo("page", m)
          BY <1>8, <2>2, <2>10, <3>2
        <4>2. job'.by = job.by /\ job'.at = "page" /\ job'.mem = m
              /\ job' = [by |-> job'.by, at |-> job'.at, mem |-> job'.mem, left |-> job'.left]
          BY <1>4, <4>1, RefreshToShape
        <4>3. JobSound'
          BY <1>5, <2>2, <2>5, <2>11, <2>12, <3>2, <4>2 DEF JobSound, AtDiscovery, AtRefresh
        <4>4. QED
          BY <2>11, <4>2, <4>3
      <3>3. QED
        BY <3>1, <3>2
    <2>14. LaterThan(snapshot, src) /\ Precedes(src, src)
      BY <1>4, NowPast, PrecedesItself
    <2>15. seen' = src /\ failed' = failed /\ snapshot' = snapshot
      BY <1>2, <1>3, <1>8
    <2>16. JointInv'
      BY <1>1, <1>2, <1>3, <1>4, <2>2, <2>5, <2>9, <2>13, <2>14, <2>15, JointAssembled
    <2>17. Earned
      BY <2>2, <2>5 DEF Earned
    <2>18. QED
      BY <2>16, <2>17
  <1>9. CASE /\ store' = DiscoveryFailure(store, "read") /\ failed' = Sources
             /\ Raise(store', "read")
             /\ UNCHANGED <<checkpoint, seen>>
    <2>1. PICK t : t = store'
      OBVIOUS
    <2>2. "read" \in Faults
      BY DEF Faults
    <2>3. t = DiscoveryFailure(store, "read") /\ Raise(t, "read")
      BY <1>9, <2>1
    <2>4. StoreInv(t, seen, src, src) /\ Advances(store, t, src) /\ t.cycle = store.cycle /\ t.runtime.pending
      BY <1>4, <2>2, <2>3, FailureKeeps
    <2>5. MemorySound(checkpoint, t, seen, src) /\ MemorySound(job.mem, t, seen, src)
      BY <1>4, <2>4, MemoryStays
    <2>6. StoreSound(t, src)
      BY <2>4 DEF StoreInv
    <2>7. JobSound' /\ MemorySound(job'.mem, t, seen, src)
      BY <1>4, <2>3, <2>5, <2>6, RaiseEnds, EndsSound
    <2>8. seen' = seen /\ failed' = src /\ snapshot' = snapshot /\ checkpoint' = checkpoint
      BY <1>2, <1>3, <1>9
    <2>9. Precedes(src, src)
      BY PrecedesItself
    <2>10. JointInv'
      BY <1>1, <1>2, <1>3, <1>4, <2>1, <2>4, <2>5, <2>7, <2>8, <2>9, JointAssembled
    <2>11. QED
      BY <2>1, <2>4, <2>10 DEF Earned
  <1>10. QED
    BY <1>1, <1>7, <1>8, <1>9 DEF Discover

LEMMA DiscoverPageKeeps == JointInv /\ DiscoverPage => JointInv' /\ Earned
  <1>1. SUFFICES ASSUME JointInv, DiscoverPage PROVE JointInv' /\ Earned
    OBVIOUS
  <1>2. UNCHANGED <<heads, ssh, snapshot, checkpoint, seen>> /\ job.at = "page"
    BY <1>1 DEF DiscoverPage
  <1>3. PICK src \in Marks : src = Sources
    BY <1>1 DEF JointInv
  <1>4. /\ StoreInv(store, seen, failed, src) /\ StoreSound(store, src) /\ ScanSound(store, seen)
        /\ StoreSound(snapshot, src) /\ LaterThan(snapshot, seen)
        /\ MemorySound(checkpoint, store, seen, src)
        /\ MemorySound(job.mem, store, seen, src) /\ JobSound
        /\ seen \in Marks /\ failed \in Marks /\ Precedes(seen, src) /\ Precedes(failed, src)
    BY <1>1, <1>3 DEF JointInv, StoreInv
  <1>5. /\ job.by = "tick" => job.mem.phase = "discover"
        /\ store.discovery.id = Now /\ ~store.discovery.complete
    BY <1>2, <1>4 DEF JobSound, AtDiscovery
  <1>6. PICK asked : asked = PageRequests(store)
    OBVIOUS
  <1>7. PICK t : t = store'
    OBVIOUS
  <1>8. CASE /\ FitsRegistrations(store, asked)
             /\ t = ApplyPage(store, store.discovery.cursor, asked, PageEnd(store), PageIsLast(store))
             /\ Discovered(job.mem, t) /\ UNCHANGED failed
    <2>1. /\ PageEnd(store) \in Nat /\ PageEnd(store) =< store.discovery.target
          /\ DOMAIN asked \subseteq Anchors \ Unmapped
          /\ \A i \in DOMAIN asked : asked[i] \in Nat /\ asked[i] = src.heads[i]
          /\ \A i \in Anchors : i =< PageEnd(store) /\ i \notin Unmapped =>
               i =< store.discovery.cursor \/ i \in DOMAIN asked
      BY <1>3, <1>4, <1>5, <1>6, PageFacts DEF StoreSound
    <2>2. PICK e \in Nat, l \in BOOLEAN : e = PageEnd(store) /\ l = PageIsLast(store)
      BY <2>1 DEF PageIsLast
    <2>3. l => e = store.discovery.target
      BY <2>2 DEF PageIsLast
    <2>4. t = ApplyPage(store, store.discovery.cursor, asked, e, l)
      BY <1>8, <2>2
    <2>5. /\ e =< store.discovery.target
          /\ \A i \in Anchors : i =< e /\ i \notin Unmapped =>
               i =< store.discovery.cursor \/ i \in DOMAIN asked
      BY <2>1, <2>2
    <2>6. /\ StoreInv(t, seen, failed, src) /\ Advances(store, t, src) /\ t.cycle.id = store.cycle.id
          /\ t.discovery.id = Now /\ t.runtime.pending = store.runtime.pending
      BY <1>4, <1>5, <1>8, <2>1, <2>3, <2>4, <2>5, ApplyPageKeeps
    <2>7. MemorySound(checkpoint, t, seen, src) /\ MemorySound(job.mem, t, seen, src)
      BY <1>4, <2>6, MemoryStays
    <2>8. StoreSound(t, src)
      BY <2>6 DEF StoreInv
    <2>9. JobSound' /\ MemorySound(job'.mem, t, seen, src)
      BY <1>4, <1>5, <1>8, <2>6, <2>7, <2>8, DiscoveredEnds, EndsSound
    <2>10. seen' = seen /\ failed' = failed /\ snapshot' = snapshot /\ checkpoint' = checkpoint
      BY <1>2, <1>8
    <2>11. JointInv'
      BY <1>1, <1>2, <1>3, <1>4, <1>7, <2>6, <2>7, <2>9, <2>10, JointAssembled
    <2>12. QED
      BY <1>7, <2>6, <2>11 DEF Earned
  <1>9. ASSUME NEW c \in {"read", "capacity"}, t = FailDiscovery(store, store.discovery.cursor, c),
               Raise(t, c), failed' = Sources
        PROVE  JointInv' /\ Earned
    <2>1. c \in Faults
      BY DEF Faults
    <2>2. StoreInv(t, seen, src, src) /\ Advances(store, t, src) /\ t.cycle = store.cycle /\ t.runtime.pending
      <3>1. t = FailDiscovery(store, store.discovery.cursor, c) /\ ~store.discovery.complete
        BY <1>5, <1>9
      <3>2. src \in Marks /\ seen \in Marks /\ StoreInv(store, seen, failed, src) /\ Precedes(seen, src)
        BY <1>3, <1>4
      <3>3. QED
        BY ONLY <2>1, <3>1, <3>2, FailureKeeps
    <2>3. MemorySound(checkpoint, t, seen, src) /\ MemorySound(job.mem, t, seen, src)
      BY <1>4, <2>2, MemoryStays
    <2>4. StoreSound(t, src)
      BY <2>2 DEF StoreInv
    <2>5. JobSound' /\ MemorySound(job'.mem, t, seen, src)
      BY <1>4, <1>9, <2>3, <2>4, RaiseEnds, EndsSound
    <2>6. seen' = seen /\ failed' = src /\ snapshot' = snapshot /\ checkpoint' = checkpoint
      BY <1>2, <1>3, <1>9
    <2>7. Precedes(src, src)
      BY PrecedesItself
    <2>8. JointInv'
      BY <1>1, <1>2, <1>3, <1>4, <1>7, <2>2, <2>3, <2>5, <2>6, <2>7, JointAssembled
    <2>9. QED
      BY <1>7, <2>2, <2>8 DEF Earned
  <1>10. \/ /\ FitsRegistrations(store, asked)
            /\ t = ApplyPage(store, store.discovery.cursor, asked, PageEnd(store), PageIsLast(store))
            /\ Discovered(job.mem, t) /\ UNCHANGED failed
         \/ \E c \in {"read", "capacity"} :
              t = FailDiscovery(store, store.discovery.cursor, c) /\ Raise(t, c) /\ failed' = Sources
    BY <1>1, <1>6, <1>7 DEF DiscoverPage
  <1>11. QED
    BY <1>8, <1>9, <1>10

LEMMA PreflightFailsKeeps == JointInv /\ PreflightFails => JointInv' /\ Earned
  <1>1. SUFFICES ASSUME JointInv, PreflightFails PROVE JointInv' /\ Earned
    OBVIOUS
  <1>2. /\ UNCHANGED <<heads, ssh, snapshot, checkpoint, seen>>
        /\ store' = DiscoveryFailure(store, "read") /\ failed' = Sources /\ Raise(store', "read")
    BY <1>1 DEF PreflightFails
  <1>3. PICK src \in Marks : src = Sources
    BY <1>1 DEF JointInv
  <1>4. /\ StoreInv(store, seen, failed, src) /\ StoreSound(store, src)
        /\ StoreSound(snapshot, src) /\ LaterThan(snapshot, seen)
        /\ MemorySound(checkpoint, store, seen, src)
        /\ MemorySound(job.mem, store, seen, src) /\ JobSound
        /\ seen \in Marks /\ Precedes(seen, src)
    BY <1>1, <1>3 DEF JointInv, StoreInv
  <1>5. PICK t : t = store'
    OBVIOUS
  <1>6. "read" \in Faults
    BY DEF Faults
  <1>7. t = DiscoveryFailure(store, "read") /\ Raise(t, "read")
    BY <1>2, <1>5
  <1>8. StoreInv(t, seen, src, src) /\ Advances(store, t, src) /\ t.cycle = store.cycle /\ t.runtime.pending
    BY <1>4, <1>6, <1>7, FailureKeeps
  <1>9. MemorySound(checkpoint, t, seen, src) /\ MemorySound(job.mem, t, seen, src)
    BY <1>4, <1>8, MemoryStays
  <1>10. StoreSound(t, src)
    BY <1>8 DEF StoreInv
  <1>11. JobSound' /\ MemorySound(job'.mem, t, seen, src)
    BY <1>4, <1>7, <1>9, <1>10, RaiseEnds, EndsSound
  <1>12. seen' = seen /\ failed' = src /\ snapshot' = snapshot /\ checkpoint' = checkpoint
    BY <1>2, <1>3
  <1>13. Precedes(src, src)
    BY PrecedesItself
  <1>14. JointInv'
    BY <1>1, <1>2, <1>3, <1>4, <1>5, <1>8, <1>9, <1>11, <1>12, <1>13, JointAssembled
  <1>15. QED
    BY <1>5, <1>8, <1>14 DEF Earned

LEMMA RefreshStepKeeps == JointInv /\ RefreshStep => JointInv' /\ Earned
  <1>1. SUFFICES ASSUME JointInv, RefreshStep PROVE JointInv' /\ Earned
    OBVIOUS
  <1>2. /\ UNCHANGED <<heads, ssh, store, snapshot, checkpoint, seen, failed>>
        /\ job.by = "tick" /\ job.at = "refresh"
    BY <1>1 DEF RefreshStep
  <1>3. PICK src \in Marks : src = Sources
    BY <1>1 DEF JointInv
  <1>4. /\ StoreSound(store, src) /\ LaterThan(store, seen) /\ ScanSound(store, seen)
        /\ MemorySound(checkpoint, store, seen, src)
        /\ MemorySound(job.mem, store, seen, src) /\ JobSound
        /\ seen \in Marks /\ Precedes(seen, src)
    BY <1>1, <1>3 DEF JointInv, StoreInv
  <1>5. job.mem.phase = "refresh" /\ store.cycle.id \in {None, Now}
    BY <1>2, <1>4, StoreIdentities DEF JobSound, AtRefresh, StoreSound
  <1>6. PICK m : m = Requalified(job.mem)
    OBVIOUS
  <1>7. MemorySound(m, store, seen, src) /\ m.phase = "refresh"
    BY <1>4, <1>5, <1>6, RequalifiedSound
  <1>8. PICK a : a = IF m.refresh # None THEN m
                     ELSE IF store.cycle.id # None /\ store.cycle.id # m.oldRefresh
                     THEN [m EXCEPT !.refresh = store.cycle.id]
                     ELSE IF store.cycle.id # None /\ ~Attempted(store.cycle)
                     THEN [m EXCEPT !.refresh = store.cycle.id, !.qualified = FALSE]
                     ELSE m
    OBVIOUS
  <1>9. IF m.refresh # None /\ store.cycle.id # m.refresh THEN EndWith(Realign(m, store))
        ELSE IF a.refresh = None THEN RefreshTo("preflight", m)
        ELSE IF Attempted(store.cycle) THEN EndWith(FinishRound(a, store))
        ELSE job' = [job EXCEPT !.at = "items", !.mem = a, !.left = ItemLimit]
    BY <1>1, <1>6, <1>8 DEF RefreshStep
  <1>10. CASE m.refresh # None /\ store.cycle.id # m.refresh
    <2>1. PICK n : n = Start(m, store)
      OBVIOUS
    <2>2. MemorySound(n, store, seen, src) /\ EndWith(n)
      BY <1>4, <1>7, <1>9, <1>10, <2>1, StartSound DEF Realign
    <2>3. JobSound' /\ MemorySound(job'.mem, store, seen, src)
      BY <1>2, <1>4, <2>2, EndWithEnds, EndsSound
    <2>4. QED
      BY <1>1, <1>2, <1>3, <1>4, <2>3, OnlyTheJob
  <1>11. CASE ~(m.refresh # None /\ store.cycle.id # m.refresh) /\ a.refresh = None
    <2>1. RefreshTo("preflight", m)
      BY <1>9, <1>11
    <2>2. job'.by = "tick" /\ job'.at = "preflight" /\ job'.mem = m
          /\ job' = [by |-> job'.by, at |-> job'.at, mem |-> job'.mem, left |-> job'.left]
      BY <1>2, <1>4, <2>1, RefreshToShape
    <2>3. store.cycle.id = None \/ Attempted(store.cycle)
      <3>1. SUFFICES ASSUME store.cycle.id # None, ~Attempted(store.cycle) PROVE FALSE
        OBVIOUS
      <3>2. m.refresh = None
        BY <1>8, <1>11
      <3>3. Adopts(m, store, a)
        BY <1>8, <3>1, <3>2 DEF Adopts
      <3>4. a.refresh = Now
        BY <1>4, <1>7, <3>1, <3>2, <3>3, AdoptedSound
      <3>5. QED
        BY <1>11, <3>4, IdentityKinds
    <2>4. JobSound'
      BY <1>2, <1>7, <2>2, <2>3 DEF JobSound, AtDiscovery, AtRefresh
    <2>5. QED
      BY <1>1, <1>2, <1>3, <1>4, <1>7, <2>2, <2>4, OnlyTheJob
  <1>12. CASE ~(m.refresh # None /\ store.cycle.id # m.refresh) /\ a.refresh # None
    <2>1. MemorySound(a, store, seen, src) /\ a.phase = "refresh" /\ a.refresh = Now /\ store.cycle.id = Now
      <3>1. CASE m.refresh # None
        BY <1>5, <1>7, <1>8, <1>12, <3>1
      <3>2. CASE m.refresh = None
        <4>1. store.cycle.id # None /\ Adopts(m, store, a)
          BY <1>8, <1>12, <3>2 DEF Adopts
        <4>2. QED
          BY <1>4, <1>5, <1>7, <3>2, <4>1, AdoptedSound
      <3>3. QED
        BY <3>1, <3>2
    <2>2. CASE Attempted(store.cycle)
      <3>1. PICK n : n = FinishRound(a, store)
        OBVIOUS
      <3>2. EndWith(n)
        BY <1>9, <1>12, <2>2, <3>1
      <3>3. MemorySound(n, store, seen, src)
        BY <1>4, <2>1, <3>1, FinishRoundSound
      <3>4. JobSound' /\ MemorySound(job'.mem, store, seen, src)
        BY <1>2, <1>4, <3>2, <3>3, EndWithEnds, EndsSound
      <3>5. QED
        BY <1>1, <1>2, <1>3, <1>4, <3>4, OnlyTheJob
    <2>3. CASE ~Attempted(store.cycle)
      <3>1. job' = [job EXCEPT !.at = "items", !.mem = a, !.left = ItemLimit]
        BY <1>9, <1>12, <2>3
      <3>2. job'.by = "tick" /\ job'.at = "items" /\ job'.mem = a
            /\ job' = [by |-> job'.by, at |-> job'.at, mem |-> job'.mem, left |-> job'.left]
        BY <1>2, <1>4, <3>1 DEF JobSound
      <3>3. JobSound'
        BY <2>1, <3>2 DEF JobSound, AtDiscovery, AtRefresh
      <3>4. QED
        BY <1>1, <1>2, <1>3, <1>4, <2>1, <3>2, <3>3, OnlyTheJob
    <2>4. QED
      BY <2>2, <2>3
  <1>13. QED
    BY <1>10, <1>11, <1>12

LEMMA OpenCycleKeeps == JointInv /\ OpenCycle => JointInv' /\ Earned
  <1>1. SUFFICES ASSUME JointInv, OpenCycle PROVE JointInv' /\ Earned
    OBVIOUS
  <1>2. UNCHANGED <<heads, ssh, snapshot, seen>> /\ job.at = "preflight" /\ StillFailed
        /\ store' = BeginCycle(store)
    BY <1>1 DEF OpenCycle
  <1>3. PICK src \in Marks : src = Sources
    BY <1>1 DEF JointInv
  <1>4. /\ StoreInv(store, seen, failed, src) /\ StoreSound(store, src)
        /\ StoreSound(snapshot, src) /\ LaterThan(snapshot, seen)
        /\ MemorySound(checkpoint, store, seen, src)
        /\ MemorySound(job.mem, store, seen, src) /\ JobSound
        /\ seen \in Marks /\ failed \in Marks /\ Precedes(seen, src) /\ Precedes(failed, src)
    BY <1>1, <1>3 DEF JointInv, StoreInv
  <1>5. /\ job.by = "tick" => job.mem.phase = "refresh"
        /\ job.by = "tick" => store.cycle.id = None \/ Attempted(store.cycle)
        /\ job.by # "tick" => job.mem = NewState
    BY <1>2, <1>4 DEF JobSound, AtRefresh
  <1>6. PICK t : t = store'
    OBVIOUS
  <1>7. PICK g : g = failed'
    OBVIOUS
  <1>8. g = IF t.runtime.pending THEN failed ELSE Nothing
    BY <1>2, <1>6, <1>7 DEF StillFailed
  <1>9. g \in Marks /\ Precedes(g, src) /\ (t.runtime.pending => g = failed)
    BY <1>4, <1>8, NothingMark
  <1>10. CASE store.cycle.id = None \/ Attempted(store.cycle)
    <2>1. /\ checkpoint' = AgedRefresh(checkpoint)
          /\ job.by = "tick" => job' = [job EXCEPT !.at = "begun",
                                                   !.mem = [AgedRefresh(job.mem) EXCEPT !.refresh = Now],
                                                   !.left = ItemLimit]
          /\ job.by # "tick" => job' = [job EXCEPT !.at = "items", !.left = ItemLimit]
      BY <1>1, <1>10 DEF OpenCycle
    <2>2. /\ Advances(store, t, src) /\ t.discovery = store.discovery
          /\ t.cycle.id = Now /\ \A i \in Anchors : t.cycle.items[i] \notin Good
          /\ t.runtime.recovery = store.runtime.recovery
          /\ t.runtime.pending => store.runtime.pending
      BY <1>2, <1>4, <1>6, <1>10, BeginCycleAdvances
    <2>3. CycleAfter(t, seen)
      BY <2>2 DEF CycleAfter, Good
    <2>4. /\ StoreInv(t, seen, g, src)
          /\ store.runtime.pending /\ ~t.runtime.pending => Covers(t, failed)
      BY <1>4, <1>9, <2>2, <2>3, CycleKeeps
    <2>5. MemorySound(checkpoint, t, seen, src) /\ MemorySound(job.mem, t, seen, src)
      BY <1>4, <2>2, <2>3, MemoryStays
    <2>6. MemorySound(checkpoint', t, seen, src)
      BY <2>1, <2>3, <2>5, AgedRefreshSound
    <2>7. JobSound' /\ MemorySound(job'.mem, t, seen, src)
      <3>1. CASE job.by = "tick"
        <4>1. PICK n : n = AgedRefresh(job.mem)
          OBVIOUS
        <4>2. MemorySound(n, t, seen, src) /\ n.phase = "refresh"
          BY <1>5, <2>3, <2>5, <3>1, <4>1, AgedRefreshSound
        <4>3. PICK k : k = [n EXCEPT !.refresh = Now]
          OBVIOUS
        <4>4. MemorySound(k, t, seen, src) /\ k.phase = "refresh" /\ k.refresh = Now
          BY <2>3, <4>2, <4>3, OnCycleSound
        <4>5. job' = [job EXCEPT !.at = "begun", !.mem = k, !.left = ItemLimit]
          BY <2>1, <3>1, <4>1, <4>3
        <4>6. job'.by = "tick" /\ job'.at = "begun" /\ job'.mem = k
              /\ job' = [by |-> job'.by, at |-> job'.at, mem |-> job'.mem, left |-> job'.left]
          BY <1>4, <3>1, <4>5 DEF JobSound
        <4>7. JobSound'
          BY <4>4, <4>6 DEF JobSound, AtDiscovery, AtRefresh
        <4>8. QED
          BY <4>4, <4>6, <4>7
      <3>2. CASE job.by # "tick"
        <4>1. job' = [job EXCEPT !.at = "items", !.left = ItemLimit]
          BY <2>1, <3>2
        <4>2. job'.by = job.by /\ job'.at = "items" /\ job'.mem = job.mem
              /\ job' = [by |-> job'.by, at |-> job'.at, mem |-> job'.mem, left |-> job'.left]
          BY <1>4, <4>1 DEF JobSound
        <4>3. JobSound'
          BY <1>5, <3>2, <4>2 DEF JobSound, AtDiscovery, AtRefresh
        <4>4. QED
          BY <2>5, <4>2, <4>3
      <3>3. QED
        BY <3>1, <3>2
    <2>8. JointInv'
      BY <1>1, <1>2, <1>3, <1>4, <1>6, <1>7, <1>9, <2>4, <2>6, <2>7, JointAssembled
    <2>9. QED
      BY <1>6, <2>4, <2>8 DEF Earned
  <1>11. CASE ~(store.cycle.id = None \/ Attempted(store.cycle))
    <2>1. job.by # "tick"
      BY <1>5, <1>11
    <2>2. checkpoint' = checkpoint /\ job' = [job EXCEPT !.at = "items", !.left = ItemLimit]
      BY <1>1, <1>11, <2>1 DEF OpenCycle
    <2>3. t = store
      BY <1>2, <1>6, <1>11 DEF BeginCycle
    <2>4. job'.by = job.by /\ job'.at = "items" /\ job'.mem = job.mem
          /\ job' = [by |-> job'.by, at |-> job'.at, mem |-> job'.mem, left |-> job'.left]
      BY <1>4, <2>2 DEF JobSound
    <2>5. JobSound'
      BY <1>5, <2>1, <2>4 DEF JobSound, AtDiscovery, AtRefresh
    <2>6. StoreInv(t, seen, g, src)
      <3>1. RuntimeSound(t, seen, g)
        BY <1>4, <1>9, <2>3 DEF StoreInv, RuntimeSound
      <3>2. QED
        BY <1>4, <2>3, <3>1 DEF StoreInv
    <2>7. JointInv'
      BY <1>1, <1>2, <1>3, <1>4, <1>6, <1>7, <1>9, <2>2, <2>3, <2>4, <2>5, <2>6, JointAssembled
    <2>8. QED
      BY <1>6, <2>3, <2>7 DEF Earned
  <1>12. QED
    BY <1>10, <1>11

LEMMA SaveCycleKeeps == JointInv /\ SaveCycle => JointInv' /\ Earned
  <1>1. SUFFICES ASSUME JointInv, SaveCycle PROVE JointInv' /\ Earned
    OBVIOUS
  <1>2. /\ UNCHANGED <<heads, ssh, store, snapshot, seen, failed>>
        /\ job.at = "begun" /\ checkpoint' = job.mem /\ RefreshTo("items", job.mem)
    BY <1>1 DEF SaveCycle
  <1>3. PICK src \in Marks : src = Sources
    BY <1>1 DEF JointInv
  <1>4. MemorySound(job.mem, store, seen, src) /\ JobSound
    BY <1>1, <1>3 DEF JointInv
  <1>5. job'.by = job.by /\ job'.at = "items" /\ job'.mem = job.mem
        /\ job' = [by |-> job'.by, at |-> job'.at, mem |-> job'.mem, left |-> job'.left]
    BY <1>2, <1>4, RefreshToShape
  <1>6. /\ job.by = "tick" => job.mem.phase = "refresh" /\ job.mem.refresh = Now
        /\ job.by # "tick" => job.mem = NewState
    BY <1>2, <1>4 DEF JobSound, AtRefresh
  <1>7. JobSound'
    BY <1>5, <1>6 DEF JobSound, AtDiscovery, AtRefresh
  <1>8. QED
    BY <1>1, <1>2, <1>3, <1>4, <1>5, <1>7, OnlyTheJob

LEMMA ReconcileKeeps == JointInv /\ Reconcile => JointInv' /\ Earned
  <1>1. SUFFICES ASSUME JointInv, Reconcile PROVE JointInv' /\ Earned
    OBVIOUS
  <1>2. /\ UNCHANGED <<heads, ssh, snapshot, checkpoint, seen>> /\ StillFailed
        /\ job.at = "items" /\ ~Attempted(store.cycle) /\ job' = [job EXCEPT !.left = @ - 1]
    BY <1>1 DEF Reconcile
  <1>3. PICK src \in Marks : src = Sources
    BY <1>1 DEF JointInv
  <1>4. /\ StoreInv(store, seen, failed, src) /\ StoreSound(store, src) /\ store \in Stores
        /\ StoreSound(snapshot, src) /\ LaterThan(snapshot, seen)
        /\ MemorySound(checkpoint, store, seen, src)
        /\ MemorySound(job.mem, store, seen, src) /\ JobSound
        /\ seen \in Marks /\ failed \in Marks /\ Precedes(seen, src) /\ Precedes(failed, src)
    BY <1>1, <1>3 DEF JointInv, StoreInv, StoreSound
  <1>5. PICK t : t = store'
    OBVIOUS
  <1>6. PICK g : g = failed'
    OBVIOUS
  <1>7. g \in Marks /\ Precedes(g, src) /\ (t.runtime.pending => g = failed)
    <2>1. g = IF t.runtime.pending THEN failed ELSE Nothing
      BY <1>2, <1>5, <1>6 DEF StillFailed
    <2>2. QED
      BY <1>4, <2>1, NothingMark
  <1>8. PICK i \in Anchors : i = NextItem(store) /\ store.cycle.items[i] = "pending"
    BY <1>2, <1>4, NextIsPending
  <1>9. PICK w : w = [network |-> store.cycle.captured[i], ssh |-> src.ssh]
    OBVIOUS
  <1>10. t = Publish(store, i, w) \/ t = FailItem(store, i, "read")
    <2>1. src.ssh = ssh
      BY <1>3 DEF Sources
    <2>2. QED
      BY <1>1, <1>5, <1>8, <1>9, <2>1 DEF Reconcile
  <1>11. /\ Advances(store, t, src) /\ t.cycle.id = store.cycle.id /\ t.discovery = store.discovery
         /\ t.runtime.refresh = store.runtime.refresh /\ t.runtime.recovery = store.runtime.recovery
         /\ t.runtime.pending => store.runtime.pending
    <2>1. CASE t = Publish(store, i, w)
      BY <1>4, <1>8, <1>9, <2>1, PublishAdvances
    <2>2. CASE t = FailItem(store, i, "read")
      <3>1. "read" \in Faults
        BY DEF Faults
      <3>2. QED
        BY <1>4, <1>8, <2>2, <3>1, FailItemAdvances
    <2>3. QED
      BY <1>10, <2>1, <2>2
  <1>12. /\ StoreInv(t, seen, g, src)
         /\ store.runtime.pending /\ ~t.runtime.pending => Covers(t, failed)
    BY <1>4, <1>7, <1>11, CycleKeeps
  <1>13. MemorySound(checkpoint, t, seen, src) /\ MemorySound(job.mem, t, seen, src)
    BY <1>4, <1>11, MemoryStays
  <1>14. job'.by = job.by /\ job'.at = "items" /\ job'.mem = job.mem
         /\ job' = [by |-> job'.by, at |-> job'.at, mem |-> job'.mem, left |-> job'.left]
    BY <1>2, <1>4 DEF JobSound
  <1>15. JobSound'
    <2>1. /\ job.by = "tick" => job.mem.phase = "refresh" /\ job.mem.refresh = Now
          /\ job.by # "tick" => job.mem = NewState
      BY <1>2, <1>4 DEF JobSound, AtRefresh
    <2>2. QED
      BY <1>14, <2>1 DEF JobSound, AtDiscovery, AtRefresh
  <1>16. seen' = seen /\ snapshot' = snapshot /\ checkpoint' = checkpoint
    BY <1>2
  <1>17. JointInv'
    BY <1>1, <1>2, <1>3, <1>4, <1>5, <1>6, <1>7, <1>12, <1>13, <1>14, <1>15, <1>16, JointAssembled
  <1>18. QED
    BY <1>5, <1>12, <1>17 DEF Earned

LEMMA SettleRoundKeeps == JointInv /\ SettleRound => JointInv' /\ Earned
  <1>1. SUFFICES ASSUME JointInv, SettleRound PROVE JointInv' /\ Earned
    OBVIOUS
  <1>2. /\ UNCHANGED <<heads, ssh, store, snapshot, checkpoint, seen, failed>> /\ job.at = "items"
        /\ IF job.by # "tick" THEN job' = NoJob
           ELSE IF OutOfSpace THEN RefreshTo("save", Failure(job.mem, store, "capacity"))
           ELSE EndWith(IF Attempted(store.cycle) /\ store.cycle.id = job.mem.refresh
                        THEN FinishRound(job.mem, store) ELSE job.mem)
    BY <1>1 DEF SettleRound
  <1>3. PICK src \in Marks : src = Sources
    BY <1>1 DEF JointInv
  <1>4. /\ StoreSound(store, src) /\ LaterThan(store, seen) /\ ScanSound(store, seen)
        /\ MemorySound(checkpoint, store, seen, src)
        /\ MemorySound(job.mem, store, seen, src) /\ JobSound
        /\ seen \in Marks /\ Precedes(seen, src)
    BY <1>1, <1>3 DEF JointInv, StoreInv
  <1>5. job.by = "tick" => job.mem.phase = "refresh" /\ job.mem.refresh = Now
    BY <1>2, <1>4 DEF JobSound, AtRefresh
  <1>6. JobSound' /\ MemorySound(job'.mem, store, seen, src)
    <2>1. CASE job.by # "tick"
      BY <1>2, <1>4, <2>1, IdleEnds, EndsSound
    <2>2. CASE job.by = "tick" /\ OutOfSpace
      <3>1. RefreshTo("save", Failure(job.mem, store, "capacity"))
        BY <1>2, <2>2
      <3>2. QED
        BY <1>4, <2>2, <3>1, FailureEnds, EndsSound
    <2>3. CASE job.by = "tick" /\ ~OutOfSpace
      <3>1. PICK n : n = IF Attempted(store.cycle) /\ store.cycle.id = job.mem.refresh
                         THEN FinishRound(job.mem, store) ELSE job.mem
        OBVIOUS
      <3>2. EndWith(n)
        BY <1>2, <2>3, <3>1
      <3>3. MemorySound(n, store, seen, src)
        <4>1. CASE Attempted(store.cycle) /\ store.cycle.id = job.mem.refresh
          <5>1. n = FinishRound(job.mem, store) /\ store.cycle.id = Now
            BY <1>5, <2>3, <3>1, <4>1
          <5>2. QED
            BY <1>4, <1>5, <2>3, <5>1, FinishRoundSound
        <4>2. CASE ~(Attempted(store.cycle) /\ store.cycle.id = job.mem.refresh)
          BY <1>4, <3>1, <4>2
        <4>3. QED
          BY <4>1, <4>2
      <3>4. QED
        BY <1>4, <2>3, <3>2, <3>3, EndWithEnds, EndsSound
    <2>4. QED
      BY <2>1, <2>2, <2>3
  <1>7. QED
    BY <1>1, <1>2, <1>3, <1>4, <1>6, OnlyTheJob

LEMMA JobGoneKeeps == JointInv /\ (Save \/ Die) => JointInv' /\ Earned
  <1>1. SUFFICES ASSUME JointInv, Save \/ Die PROVE JointInv' /\ Earned
    OBVIOUS
  <1>2. /\ UNCHANGED <<heads, ssh, store, snapshot, seen, failed>> /\ job' = NoJob
        /\ checkpoint' = job.mem \/ checkpoint' = checkpoint
    BY <1>1 DEF Save, Die
  <1>3. PICK src \in Marks : src = Sources
    BY <1>1 DEF JointInv
  <1>4. /\ StoreSound(store, src) /\ MemorySound(checkpoint, store, seen, src)
        /\ MemorySound(job.mem, store, seen, src)
    BY <1>1, <1>3 DEF JointInv, StoreInv
  <1>5. JobSound' /\ MemorySound(job'.mem, store, seen, src)
    BY <1>2, <1>4, IdleEnds, EndsSound
  <1>6. MemorySound(checkpoint', store, seen, src)
    BY <1>2, <1>4
  <1>7. QED
    BY <1>1, <1>2, <1>3, <1>5, <1>6, OnlyTheJob

LEMMA CommandKeeps == JointInv /\ (DiscoverCommand \/ RefreshCommand) => JointInv' /\ Earned
  <1>1. SUFFICES ASSUME JointInv, DiscoverCommand \/ RefreshCommand PROVE JointInv' /\ Earned
    OBVIOUS
  <1>2. /\ UNCHANGED <<heads, ssh, store, snapshot, checkpoint, seen, failed>>
        /\ \/ job' = [NoJob EXCEPT !.by = "cli", !.at = "begin"]
           \/ job' = [NoJob EXCEPT !.by = "cli", !.at = "preflight"]
    BY <1>1 DEF DiscoverCommand, RefreshCommand
  <1>3. PICK src \in Marks : src = Sources
    BY <1>1 DEF JointInv
  <1>4. StoreSound(store, src) /\ MemorySound(checkpoint, store, seen, src)
    BY <1>1, <1>3 DEF JointInv, StoreInv
  <1>5. /\ job'.by = "cli" /\ job'.at \in {"begin", "preflight"} /\ job'.mem = NewState
        /\ job' = [by |-> job'.by, at |-> job'.at, mem |-> job'.mem, left |-> job'.left]
    BY <1>2 DEF NoJob
  <1>6. JobSound'
    BY <1>5 DEF JobSound, AtDiscovery, AtRefresh
  <1>7. MemorySound(job'.mem, store, seen, src)
    BY <1>4, <1>5, NewStateSound
  <1>8. QED
    BY <1>1, <1>2, <1>3, <1>4, <1>6, <1>7, OnlyTheJob

LEMMA SnapshotKeeps == JointInv /\ SnapshotCommand => JointInv' /\ Earned
  <1>1. SUFFICES ASSUME JointInv, SnapshotCommand PROVE JointInv' /\ Earned
    OBVIOUS
  <1>2. UNCHANGED <<heads, ssh, store, checkpoint, job, seen, failed>> /\ snapshot' = store
    BY <1>1 DEF SnapshotCommand
  <1>3. PICK src \in Marks : src = Sources
    BY <1>1 DEF JointInv
  <1>4. /\ MemorySound(checkpoint, store, seen, src) /\ MemorySound(job.mem, store, seen, src)
        /\ JobSound
    BY <1>1, <1>3 DEF JointInv
  <1>5. JobSound'
    BY <1>2, <1>4 DEF JobSound
  <1>6. QED
    BY <1>1, <1>2, <1>3, <1>4, <1>5, OnlyTheJob

LEMMA RestoreKeeps == JointInv /\ RestoreCommand => JointInv' /\ Earned
  <1>1. SUFFICES ASSUME JointInv, RestoreCommand PROVE JointInv' /\ Earned
    OBVIOUS
  <1>2. /\ UNCHANGED <<heads, ssh, snapshot, job, seen>> /\ job = NoJob
        /\ store' = Restored(snapshot) /\ checkpoint' = NewState /\ failed' = Sources
    BY <1>1 DEF RestoreCommand, Command
  <1>3. PICK src \in Marks : src = Sources
    BY <1>1 DEF JointInv
  <1>4. /\ StoreSound(snapshot, src) /\ LaterThan(snapshot, seen)
        /\ seen \in Marks /\ Precedes(seen, src)
    BY <1>1, <1>3 DEF JointInv
  <1>5. PICK t : t = store'
    OBVIOUS
  <1>6. /\ StoreSound(t, src)
        /\ \A i \in Anchors : (HasCase(t, i) <=> HasCase(snapshot, i)) /\ Current(t, i) = Current(snapshot, i)
        /\ t.discovery.id = None /\ t.runtime.pending = TRUE
        /\ t.runtime.refresh = None /\ t.runtime.recovery = None
    BY <1>2, <1>4, <1>5, RestoredSound
  <1>7. LaterThan(t, seen)
    BY <1>4, <1>6 DEF LaterThan
  <1>8. ScanSound(t, seen) /\ RuntimeSound(t, seen, src)
    BY <1>6, IdentityKinds DEF ScanSound, RuntimeSound
  <1>9. StoreInv(t, seen, src, src)
    BY <1>6, <1>7, <1>8 DEF StoreInv
  <1>10. MemorySound(NewState, t, seen, src)
    BY <1>6, NewStateSound
  <1>11. job'.mem = NewState /\ JobSound'
    <2>1. job' = NoJob
      BY <1>2
    <2>2. job'.by = "nobody" /\ job'.at = "idle" /\ job'.mem = NewState
          /\ job' = [by |-> job'.by, at |-> job'.at, mem |-> job'.mem, left |-> job'.left]
      BY <2>1, NoJobShape
    <2>3. QED
      BY <2>2 DEF JobSound, AtDiscovery, AtRefresh
  <1>12. Precedes(src, src)
    BY PrecedesItself
  <1>13. failed' = src /\ seen' = seen /\ snapshot' = snapshot
    BY <1>2, <1>3
  <1>14. JointInv'
    BY <1>1, <1>2, <1>3, <1>4, <1>5, <1>9, <1>10, <1>11, <1>12, <1>13, JointAssembled
  <1>15. QED
    BY <1>5, <1>6, <1>14 DEF Earned

-----------------------------------------------------------------------------
(* What the invariant says of the store, its health and its freshness.     *)

LEMMA JointInvIsTrue ==
  JointInv => StoreStaysSound /\ SuccessCoversTheRound /\ NoFalseFreshness
  <1>1. SUFFICES ASSUME JointInv PROVE StoreStaysSound /\ SuccessCoversTheRound /\ NoFalseFreshness
    OBVIOUS
  <1>2. PICK src \in Marks : src = Sources
    BY <1>1 DEF JointInv
  <1>3. /\ StoreSound(store, src) /\ StoreSound(snapshot, src) /\ ScanSound(store, seen)
        /\ RuntimeSound(store, seen, failed) /\ MemorySound(checkpoint, store, seen, src)
        /\ MemorySound(job.mem, store, seen, src) /\ seen \in Marks
    BY <1>1, <1>2 DEF JointInv, StoreInv
  <1>4. StoreStaysSound
    BY <1>3 DEF StoreStaysSound, StoreSound
  <1>5. SuccessCoversTheRound
    BY <1>3 DEF SuccessCoversTheRound, MemorySound
  <1>6. ASSUME NEW i \in Anchors, SaysCurrent(checkpoint, store, i)
        PROVE  /\ Current(store, i).network >= seen.heads[i]
               /\ Current(store, i).ssh >= checkpoint.success.ssh
    <2>1. /\ HasCase(store, i) /\ store.regs[i].state = "fresh" /\ ~store.runtime.pending
          /\ ~(store.discovery.id # None /\ ~store.discovery.complete)
      BY <1>6 DEF SaysCurrent, Healthy, Unfinished
    <2>2. store \in Stores /\ AnchorSound(store, i, src)
      BY <1>3 DEF StoreSound
    <2>3. /\ store.regs[i].requested \in Nat /\ Current(store, i).network \in Nat
          /\ Current(store, i).ssh \in Nat /\ seen.heads[i] \in Nat
      BY <1>3, <2>1, <2>2, AnchorShape DEF Marks
    <2>4. Current(store, i).network = store.regs[i].requested /\ i \notin Unmapped
      BY <2>1, <2>2 DEF AnchorSound
    <2>5. store.regs[i].requested >= seen.heads[i]
      <3>1. CASE store.discovery.id = None
        <4>1. seen = Nothing
          BY <1>3, <2>1, <3>1 DEF RuntimeSound
        <4>2. QED
          BY <2>3, <4>1, NothingMark
      <3>2. CASE store.discovery.id # None
        <4>1. store.discovery.id = Now /\ store.discovery.complete
          BY <2>1, <2>2, <3>2, StoreIdentities
        <4>2. CASE seen.heads[i] > 0
          <5>1. i =< store.discovery.cursor
            BY <1>3, <4>1, <4>2 DEF ScanSound
          <5>2. QED
            BY <1>3, <2>4, <4>1, <5>1 DEF ScanSound
        <4>3. CASE ~(seen.heads[i] > 0)
          BY <2>3, <4>3
        <4>4. QED
          BY <4>2, <4>3
      <3>3. QED
        BY <3>1, <3>2
    <2>6. Current(store, i).ssh >= checkpoint.success.ssh
      <3>1. checkpoint.success \in Marks
        BY <1>3, MemoryShape DEF MemorySound
      <3>2. checkpoint.success.heads[i] \in Nat
        BY <3>1 DEF Marks
      <3>3. Covers(store, checkpoint.success) /\ LaterThan(store, checkpoint.success)
        BY <1>3 DEF MemorySound
      <3>4. CASE checkpoint.success.heads[i] = 0
        BY <2>1, <3>3, <3>4 DEF LaterThan
      <3>5. CASE checkpoint.success.heads[i] > 0
        BY <2>4, <3>3, <3>5 DEF Covers
      <3>6. QED
        BY <3>2, <3>4, <3>5
    <2>7. QED
      BY <2>4, <2>5, <2>6
  <1>7. NoFalseFreshness
    BY <1>6 DEF NoFalseFreshness
  <1>8. QED
    BY <1>4, <1>5, <1>7

LEMMA JointStep == JointInv /\ [JointNext]_jointVars => JointInv' /\ Earned
  <1>1. SUFFICES ASSUME JointInv, [JointNext]_jointVars PROVE JointInv' /\ Earned
    OBVIOUS
  <1>2. CASE ReviseIncident
    BY <1>1, <1>2, ReviseKeeps DEF ReviseIncident, Earned
  <1>3. CASE SshArrives
    BY <1>1, <1>3, SshArrivesKeeps DEF SshArrives, Earned
  <1>4. CASE UNCHANGED jointVars
    <2>1. UNCHANGED <<heads, ssh, store, snapshot, checkpoint, job, seen, failed>>
      BY <1>4 DEF jointVars
    <2>2. PICK src \in Marks : src = Sources
      BY <1>1 DEF JointInv
    <2>3. /\ MemorySound(checkpoint, store, seen, src) /\ MemorySound(job.mem, store, seen, src)
          /\ JobSound
      BY <1>1, <2>2 DEF JointInv
    <2>4. JobSound'
      BY <2>1, <2>3 DEF JobSound
    <2>5. QED
      BY <1>1, <2>1, <2>2, <2>3, <2>4, OnlyTheJob
  <1>5. CASE Tick \/ DiscoveryStep \/ Discover \/ DiscoverPage \/ RefreshStep \/ PreflightFails
    BY <1>1, <1>5, TickKeeps, DiscoveryStepKeeps, DiscoverKeeps, DiscoverPageKeeps, RefreshStepKeeps,
       PreflightFailsKeeps
  <1>6. CASE OpenCycle \/ SaveCycle \/ Reconcile \/ SettleRound \/ Save \/ Die
    BY <1>1, <1>6, OpenCycleKeeps, SaveCycleKeeps, ReconcileKeeps, SettleRoundKeeps, JobGoneKeeps
  <1>7. CASE DiscoverCommand \/ RefreshCommand \/ SnapshotCommand \/ RestoreCommand
    BY <1>1, <1>7, CommandKeeps, SnapshotKeeps, RestoreKeeps
  <1>8. QED
    BY <1>1, <1>2, <1>3, <1>4, <1>5, <1>6, <1>7 DEF JointNext, JobStep

(* The joint store can be trusted: whatever dies, fails, is commanded or   *)
(* restored, it opens and copies (OpensCleanly), last_success_at and       *)
(* "current" are never claimed for what is older than the discovery they   *)
(* rest on, and the mark for revalidation goes only when what is published *)
(* is no older than the sources were at the failure.                       *)
THEOREM JointStoreTrue == JointSpec => JointStoreIsTrue
  <1>1. JointInv => StoreStaysSound /\ SuccessCoversTheRound /\ NoFalseFreshness
    BY JointInvIsTrue
  <1>2. JointInv /\ [JointNext]_jointVars =>
          [store.runtime.pending /\ ~store'.runtime.pending => Covers(store', failed)]_jointVars
    BY JointStep DEF Earned
  <1>3. JointInv /\ [JointNext]_jointVars => JointInv'
    BY JointStep
  <1>4. QED
    BY <1>1, <1>2, <1>3, JointStarts, PTL DEF JointSpec, JointStoreIsTrue, RevalidationIsEarned

=============================================================================

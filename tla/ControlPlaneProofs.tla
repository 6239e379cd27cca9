------------------------- MODULE ControlPlaneProofs -------------------------
(***************************************************************************)
(* Proofs about the central control service with its hosts: the last       *)
(* operation a host has recorded on a key decides its saved list, so a     *)
(* verified unban is never undone by an older ban, and a verified ban      *)
(* stays saved until it expires.                                           *)
(***************************************************************************)
EXTENDS ControlPlane, HostLemmas, FiniteSetTheorems

-----------------------------------------------------------------------------
(* The orders of operators: plans, jobs and the requests they lead to.     *)

PlanItems == [source : Sources, ip : IPs, channel : Channels,
              action : {"ban", "unban"}, duration : Deadlines]
Items == [source : Sources, ip : IPs, channel : Channels, action : {"ban", "unban"},
          expires : Deadlines \cup {Absent}, status : Open \cup Final, attempts : Nat]

(* A sequence over a set is one over every larger set.                     *)
LEMMA LargerSeq ==
    ASSUME NEW S, NEW T, NEW q \in Seq(S), \A n \in DOMAIN q : q[n] \in T
    PROVE  q \in Seq(T)
  OBVIOUS

(* The i-th item of job n is an item of an order.                          *)
LEMMA ItemAt ==
    ASSUME jobs \in Seq(Job), NEW n \in DOMAIN jobs
    PROVE  /\ n \in 1 .. Len(jobs)
           /\ jobs[n] \in Job
           /\ jobs[n].items \in Seq(Items)
           /\ \A i \in DOMAIN jobs[n].items :
                i \in 1 .. Len(jobs[n].items) /\ Item(n, i) \in Items
  <1>1. n \in 1 .. Len(jobs) /\ jobs[n] \in Job
    OBVIOUS
  <1>2. jobs[n].items \in Seq(Items)
    BY <1>1 DEF Job, Items
  <1>3. QED
    BY <1>1, <1>2 DEF Item

(* A preview saves the items of a request.                                 *)
PlansAreBodies == \A p \in DOMAIN plans : \E body \in Bodies : plans[p].items = ItemsOf(body)

(* Every job has a plan of its own, so there are at most MaxPlans jobs.    *)
Confirmed == {p \in DOMAIN plans : plans[p].job # 0}
JobsCounted == Len(plans) <= MaxPlans /\ Len(jobs) = Cardinality(Confirmed)

(* The items of a job have one action and one deadline, and ids.           *)
ItemsOfOneOrder(items) ==
    \A i \in DOMAIN items :
        /\ \A m \in 1 .. MaxPlans : <<m, i>> \in RequestIds
        /\ items[i].action = "ban" => items[i].expires \in Deadlines
        /\ items[i].action = "unban" => items[i].expires = Absent
        /\ \A k \in DOMAIN items :
             items[i].action = items[k].action /\ items[i].expires = items[k].expires
JobsAreOrders == \A n \in DOMAIN jobs : ItemsOfOneOrder(jobs[n].items)

(* The worker is at an item of a job.                                      *)
WorkerIsAtItem ==
    worker.phase \in {"calling", "notify"} =>
        worker.job \in DOMAIN jobs /\ worker.item \in DOMAIN jobs[worker.job].items

OrderInv ==
    /\ ControlTypeOK
    /\ PlansAreBodies /\ JobsCounted /\ JobsAreOrders /\ WorkerIsAtItem

(* There are no more jobs than plans.                                      *)
LEMMA JobsBounded == OrderInv => Len(jobs) <= MaxPlans
  <1> SUFFICES ASSUME OrderInv PROVE Len(jobs) <= MaxPlans
    OBVIOUS
  <1>1. IsFiniteSet(1 .. Len(plans)) /\ Cardinality(1 .. Len(plans)) = Len(plans)
    <2>1. Len(plans) \in Nat
      BY DEF OrderInv, ControlTypeOK
    <2>2. \A b \in Int : /\ IsFiniteSet(1 .. b)
                        /\ Cardinality(1 .. b) = IF 1 > b THEN 0 ELSE b - 1 + 1
      <3>1. 1 \in Int
        OBVIOUS
      <3>2. QED
        BY <3>1, FS_Interval, Zenon
    <2>3. PICK n \in Nat : n = Len(plans)
      BY <2>1
    <2>4. IsFiniteSet(1 .. n) /\ Cardinality(1 .. n) = IF 1 > n THEN 0 ELSE n - 1 + 1
      <3>1. n \in Int
        OBVIOUS
      <3>2. QED
        BY <2>2, <3>1, Zenon
    <2>5. (IF 1 > n THEN 0 ELSE n - 1 + 1) = n
      OBVIOUS
    <2>6. QED
      BY <2>3, <2>4, <2>5, Zenon
  <1>2. Confirmed \subseteq 1 .. Len(plans)
    BY DEF OrderInv, ControlTypeOK, Confirmed
  <1>3. Cardinality(Confirmed) <= Len(plans)
    BY <1>1, <1>2, FS_Subset
  <1>4. Len(plans) \in Nat /\ Len(jobs) \in Nat
    BY DEF OrderInv, ControlTypeOK
  <1>5. QED
    BY <1>3, <1>4, BoundsAssumption DEF OrderInv, JobsCounted

(* What is sent for an item is a request.                                  *)
LEMMA RequestType ==
    ASSUME OrderInv, NEW n \in DOMAIN jobs, NEW i \in DOMAIN jobs[n].items
    PROVE  Request(n, i) \in Requests
  <1>1. Item(n, i) \in Items /\ n \in 1 .. Len(jobs)
    BY ItemAt DEF OrderInv, ControlTypeOK
  <1>2. n \in 1 .. MaxPlans
    BY <1>1, JobsBounded, BoundsAssumption DEF OrderInv, ControlTypeOK
  <1>3. /\ <<n, i>> \in RequestIds
        /\ Item(n, i).action = "ban" => Item(n, i).expires \in Deadlines
        /\ Item(n, i).action = "unban" => Item(n, i).expires = Absent
    BY <1>2 DEF OrderInv, JobsAreOrders, ItemsOfOneOrder, Item
  <1>4. QED
    BY <1>1, <1>3 DEF Request, Requests, Items

-----------------------------------------------------------------------------
(* How the steps of the worker change a job.                               *)

SameOrder(x, y) ==
    /\ x.source = y.source /\ x.ip = y.ip /\ x.channel = y.channel
    /\ x.action = y.action /\ x.expires = y.expires

(* Job j changes its status and what happened to its item i, nothing else. *)
OnlyItemChanges(j, i) ==
    /\ jobs' \in Seq(Job) /\ DOMAIN jobs' = DOMAIN jobs /\ Len(jobs') = Len(jobs)
    /\ \A n \in DOMAIN jobs : n # j => jobs'[n] = jobs[n]
    /\ DOMAIN jobs'[j].items = DOMAIN jobs[j].items
    /\ \A k \in DOMAIN jobs[j].items : k # i => jobs'[j].items[k] = jobs[j].items[k]
    /\ SameOrder(jobs'[j].items[i], jobs[j].items[i])

(* Taking an item counts an attempt.                                       *)
LEMMA AttemptedItem ==
    ASSUME NEW item \in Items
    PROVE  /\ Attempted(item) \in Items
           /\ SameOrder(Attempted(item), item)
           /\ Attempted(item).status = "running"
           /\ Attempted(item).attempts = item.attempts + 1
  <1> DEFINE a == [item EXCEPT !.status = "running"]
  <1>1. a \in Items /\ SameOrder(a, item) /\ a.status = "running" /\ a.attempts = item.attempts
    BY DEF Items, SameOrder, Open
  <1>2. Attempted(item) = [a EXCEPT !.attempts = @ + 1]
    BY DEF Attempted
  <1>3. Attempted(item) = [a EXCEPT !.attempts = item.attempts + 1]
    BY <1>1, <1>2
  <1> HIDE DEF a
  <1>4. QED
    BY <1>1, <1>3 DEF Items, SameOrder

LEMMA SendingJob ==
    ASSUME NEW job \in Job, NEW i \in DOMAIN job.items
    PROVE  /\ Sending(job, i) \in Job
           /\ Sending(job, i).status = "running"
           /\ Sending(job, i).items = [job.items EXCEPT ![i] = Attempted(job.items[i])]
  <1>1. job.items \in Seq(Items)
    BY DEF Job, Items
  <1>2. Attempted(job.items[i]) \in Items
    BY <1>1, AttemptedItem
  <1>3. [job.items EXCEPT ![i] = Attempted(job.items[i])] \in Seq(Items)
    BY <1>1, <1>2
  <1> DEFINE items == [job.items EXCEPT ![i] = Attempted(job.items[i])]
             a == [job EXCEPT !.status = "running"]
             b == [a EXCEPT !.leased = TRUE]
  <1>4. a \in Job /\ a.status = "running" /\ a.items = job.items
    BY DEF Job, Unfinished
  <1>5. b \in Job /\ b.status = "running" /\ b.items = job.items
    <2> HIDE DEF a
    <2> QED BY <1>4 DEF Job
  <1>6. Sending(job, i) = [b EXCEPT !.items = items]
    BY DEF Sending
  <1>7. QED
    <2> HIDE DEF b
    <2> QED BY <1>3, <1>5, <1>6 DEF Job, Items

LEMMA TakeChanges ==
    ASSUME jobs \in Seq(Job), NEW j \in DOMAIN jobs, NEW i \in DOMAIN jobs[j].items, Take(j, i)
    PROVE  /\ OnlyItemChanges(j, i)
           /\ jobs'[j].status = "running"
           /\ jobs'[j].items[i].status = "running"
           /\ jobs'[j].items[i].attempts = jobs[j].items[i].attempts + 1
  <1>1. jobs[j] \in Job /\ jobs[j].items \in Seq(Items) /\ jobs[j].items[i] \in Items
    BY ItemAt DEF Item
  <1>2. jobs' = [jobs EXCEPT ![j] = Sending(jobs[j], i)]
    BY DEF Take
  <1>3. /\ Sending(jobs[j], i) \in Job /\ Sending(jobs[j], i).status = "running"
        /\ Sending(jobs[j], i).items = [jobs[j].items EXCEPT ![i] = Attempted(jobs[j].items[i])]
    BY <1>1, SendingJob
  <1>4. jobs' \in Seq(Job) /\ DOMAIN jobs' = DOMAIN jobs /\ Len(jobs') = Len(jobs)
    BY <1>2, <1>3
  <1>5. jobs'[j] = Sending(jobs[j], i)
    BY <1>2
  <1>6. QED
    BY <1>1, <1>2, <1>3, <1>4, <1>5, AttemptedItem DEF OnlyItemChanges

(* Recording an outcome changes the status of the item, and of its job.    *)
LEMMA RecordedJob ==
    ASSUME NEW job \in Job, NEW i \in DOMAIN job.items, NEW outcome \in Open \cup Final
    PROVE  /\ Recorded(job, i, outcome) \in Job
           /\ DOMAIN Recorded(job, i, outcome).items = DOMAIN job.items
           /\ \A k \in DOMAIN job.items : k # i =>
                Recorded(job, i, outcome).items[k] = job.items[k]
           /\ SameOrder(Recorded(job, i, outcome).items[i], job.items[i])
           /\ Recorded(job, i, outcome).items[i].status = outcome
           /\ Recorded(job, i, outcome).items[i].attempts = job.items[i].attempts
  <1> DEFINE item == [job.items[i] EXCEPT !.status = outcome]
             items == [job.items EXCEPT ![i] = item]
             a == [job EXCEPT !.items = items]
             b == [a EXCEPT !.status = JobStatus(items)]
  <1>1. job.items \in Seq(Items) /\ job.items[i] \in Items
    <2>1. job.items \in Seq(Items)
      BY DEF Job, Items
    <2>2. QED
      BY <2>1
  <1>2. /\ item \in Items /\ SameOrder(item, job.items[i])
        /\ item.status = outcome /\ item.attempts = job.items[i].attempts
    BY <1>1 DEF Items, SameOrder
  <1>3. /\ items \in Seq(Items) /\ DOMAIN items = DOMAIN job.items /\ items[i] = item
        /\ \A k \in DOMAIN job.items : k # i => items[k] = job.items[k]
    <2> HIDE DEF item
    <2> QED BY <1>1, <1>2
  <1>4. Recorded(job, i, outcome) = [b EXCEPT !.leased = outcome = "pending"]
    BY DEF Recorded
  <1>5. JobStatus(items) \in Unfinished \cup {"done", "partial", "failed"}
    BY DEF JobStatus, Unfinished
  <1> HIDE DEF items
  <1>6. a \in Job /\ a.items = items
    BY <1>3 DEF Job, Items
  <1>7. b \in Job /\ b.items = items
    <2> HIDE DEF a
    <2> QED BY <1>5, <1>6 DEF Job
  <1>8. Recorded(job, i, outcome) \in Job /\ Recorded(job, i, outcome).items = items
    <2> HIDE DEF b
    <2> QED BY <1>4, <1>7 DEF Job
  <1>9. QED
    BY <1>2, <1>3, <1>8

(* The outcome of an attempt is a status of an item.                       *)
LEMMA OutcomeType ==
    ASSUME NEW item, NEW reply
    PROVE  /\ Outcome(item, reply) \in Open \cup Final
           /\ Retried(item) \in {"pending", "uncertain"}
           /\ Outcome(item, reply) = "ok" => Confirms(item, reply)
  BY DEF Outcome, Retried, Open, Final

LEMMA SettleChanges ==
    ASSUME jobs \in Seq(Job), WorkerIsAtItem, worker.phase = "calling",
           NEW outcome \in Open \cup Final, Settle(outcome)
    PROVE  /\ worker.job \in DOMAIN jobs /\ worker.item \in DOMAIN jobs[worker.job].items
           /\ OnlyItemChanges(worker.job, worker.item)
           /\ jobs'[worker.job].items[worker.item].status = outcome
           /\ jobs'[worker.job].items[worker.item].attempts
                = jobs[worker.job].items[worker.item].attempts
  <1> DEFINE j == worker.job
             i == worker.item
             job == Recorded(jobs[j], i, outcome)
  <1>1. j \in DOMAIN jobs /\ i \in DOMAIN jobs[j].items
    BY DEF WorkerIsAtItem
  <1>2. jobs[j] \in Job
    BY <1>1
  <1>3. jobs' = [jobs EXCEPT ![j] = job]
    BY DEF Settle
  <1>4. /\ job \in Job /\ DOMAIN job.items = DOMAIN jobs[j].items
        /\ \A k \in DOMAIN jobs[j].items : k # i => job.items[k] = jobs[j].items[k]
        /\ SameOrder(job.items[i], jobs[j].items[i])
        /\ job.items[i].status = outcome
        /\ job.items[i].attempts = jobs[j].items[i].attempts
    BY <1>1, <1>2, RecordedJob
  <1> HIDE DEF job, j, i
  <1>5. jobs' \in Seq(Job) /\ DOMAIN jobs' = DOMAIN jobs /\ Len(jobs') = Len(jobs)
    BY <1>1, <1>3, <1>4
  <1>6. jobs'[j] = job /\ \A n \in DOMAIN jobs : n # j => jobs'[n] = jobs[n]
    BY <1>1, <1>3
  <1>7. QED
    BY <1>1, <1>4, <1>5, <1>6 DEF OnlyItemChanges, j, i

-----------------------------------------------------------------------------
(* Types and orders, action by action.                                     *)

(* Recording what happened to an item changes no order.                    *)
LEMMA OrdersStay ==
    ASSUME OrderInv, NEW j \in DOMAIN jobs, NEW i \in DOMAIN jobs[j].items,
           OnlyItemChanges(j, i)
    PROVE  /\ JobsAreOrders'
           /\ \A n \in DOMAIN jobs : DOMAIN jobs'[n].items = DOMAIN jobs[n].items
           /\ \A n \in DOMAIN jobs : \A k \in DOMAIN jobs[n].items :
                SameOrder(jobs'[n].items[k], jobs[n].items[k])
  <1>1. \A n \in DOMAIN jobs :
          /\ DOMAIN jobs'[n].items = DOMAIN jobs[n].items
          /\ \A k \in DOMAIN jobs[n].items : SameOrder(jobs'[n].items[k], jobs[n].items[k])
    BY DEF OnlyItemChanges, SameOrder
  <1>2. JobsAreOrders'
    BY <1>1 DEF OrderInv, JobsAreOrders, ItemsOfOneOrder, SameOrder, OnlyItemChanges
  <1>3. QED
    BY <1>1, <1>2

(* What the worker carries with it in each phase.                          *)
LEMMA WorkerShape ==
    ASSUME worker \in WorkerStates
    PROVE  /\ worker.phase \in {"idle", "calling", "notify", "asking", "asked"}
           /\ worker.phase = "calling" =>
                worker \in [phase : {"calling"}, job : Nat, item : Nat,
                           reply : Answers \cup {NoAnswer}]
           /\ worker.phase = "notify" => worker \in [phase : {"notify"}, job : Nat, item : Nat]
           /\ worker.phase = "asking" => worker \in [phase : {"asking"}, left : SUBSET Sources]
           /\ worker.phase = "asked" =>
                worker \in [phase : {"asked"}, left : SUBSET Sources, source : Sources,
                           seen : BlockLists \cup {NoTable, NoAnswer}]
  BY DEF WorkerStates, WorkerIdle

(* The items of a request have its action and its duration, and ids.       *)
LEMMA BodyItems ==
    ASSUME NEW body \in Bodies
    PROVE  /\ body.action \in {"ban", "unban"} /\ body.duration \in Deadlines
           /\ ItemsOf(body) \in Seq(PlanItems)
           /\ \A n \in DOMAIN ItemsOf(body) :
                /\ ItemsOf(body)[n] \in PlanItems
                /\ ItemsOf(body)[n].action = body.action
                /\ ItemsOf(body)[n].duration = body.duration
           /\ (1 .. MaxPlans) \X (1 .. Len(ItemsOf(body))) \subseteq RequestIds
  <1> DEFINE items == [source : Sources, ip : IPs, channel : Channels,
                       action : {body.action}, duration : {body.duration}]
  <1>1. /\ body.action \in {"ban", "unban"} /\ body.duration \in Deadlines
        /\ ItemsOf(body) \in Seq(items)
        /\ (1 .. MaxPlans) \X (1 .. Len(ItemsOf(body))) \subseteq RequestIds
    BY BodiesAssumption
  <1>2. \A n \in DOMAIN ItemsOf(body) : ItemsOf(body)[n] \in items
    <2> HIDE DEF items
    <2> QED BY <1>1
  <1>3. \A n \in DOMAIN ItemsOf(body) :
          /\ ItemsOf(body)[n] \in PlanItems
          /\ ItemsOf(body)[n].action = body.action
          /\ ItemsOf(body)[n].duration = body.duration
    BY <1>1, <1>2 DEF PlanItems
  <1>4. ItemsOf(body) \in Seq(PlanItems)
    <2> HIDE DEF items
    <2> QED BY <1>1, <1>3, LargerSeq
  <1>5. QED
    BY <1>1, <1>3, <1>4

(* A preview saves a plan of the items asked for.                          *)
LEMMA PreviewOrder ==
    ASSUME OrderInv, NEW actor \in Actors, NEW body \in Bodies, Preview(actor, body)
    PROVE  OrderInv'
  <1> DEFINE plan == [actor |-> actor, items |-> ItemsOf(body),
                      expires |-> clock + PlanTtl, job |-> 0]
  <1>1. plans' = Append(plans, plan) /\ Len(plans) < MaxPlans
    BY DEF Preview
  <1>2. plan \in Plan /\ plan.items = ItemsOf(body) /\ plan.job = 0
    <2>1. ItemsOf(body) \in Seq(PlanItems)
      BY BodyItems
    <2>2. clock + PlanTtl \in Times
      BY BoundsAssumption DEF OrderInv, ControlTypeOK, TypeOK, Times
    <2>3. QED
      BY <2>1, <2>2 DEF Plan, PlanItems
  <1> HIDE DEF plan
  <1>3. plans \in Seq(Plan)
    BY DEF OrderInv, ControlTypeOK
  <1>4. /\ plans' \in Seq(Plan) /\ Len(plans') = Len(plans) + 1
        /\ DOMAIN plans' = DOMAIN plans \cup {Len(plans) + 1}
        /\ plans'[Len(plans) + 1] = plan
        /\ \A p \in DOMAIN plans : plans'[p] = plans[p]
    BY <1>1, <1>2, <1>3
  <1>5. PlansAreBodies'
    BY <1>2, <1>4 DEF OrderInv, PlansAreBodies
  <1>6. Confirmed' = Confirmed
    BY <1>2, <1>4 DEF Confirmed
  <1>7. JobsCounted'
    BY <1>1, <1>3, <1>4, <1>6, BoundsAssumption DEF OrderInv, JobsCounted, Preview
  <1>8. ControlTypeOK' /\ JobsAreOrders' /\ WorkerIsAtItem'
    BY <1>4 DEF Preview, hostVars, OrderInv, ControlTypeOK, TypeOK, JobsAreOrders,
               WorkerIsAtItem
  <1>9. QED
    BY <1>5, <1>7, <1>8 DEF OrderInv

(* A confirmed plan becomes the last job.                                  *)
Queued(actor, plan) ==
    [actor |-> actor, status |-> "queued", leased |-> FALSE,
     items |-> [n \in DOMAIN plan.items |->
       LET item == plan.items[n]
       IN [source |-> item.source, ip |-> item.ip, channel |-> item.channel,
           action |-> item.action, status |-> "pending", attempts |-> 0,
           expires |-> IF item.action = "unban" THEN Absent
                       ELSE IF item.duration = Permanent THEN Permanent
                       ELSE clock + item.duration]]]

(* It is an order of which nothing has been sent.                          *)
LEMMA QueuedJob ==
    ASSUME OrderInv, NEW actor \in Actors, NEW p \in DOMAIN plans
    PROVE  /\ Queued(actor, plans[p]) \in Job
           /\ ItemsOfOneOrder(Queued(actor, plans[p]).items)
           /\ Queued(actor, plans[p]).status = "queued"
           /\ \A i \in DOMAIN Queued(actor, plans[p]).items :
                /\ Queued(actor, plans[p]).items[i].attempts = 0
                /\ Queued(actor, plans[p]).items[i].status = "pending"
  <1> DEFINE items == Queued(actor, plans[p]).items
             source == plans[p].items
  <1>1. PICK body \in Bodies : source = ItemsOf(body)
    BY DEF OrderInv, PlansAreBodies
  <1>2. /\ body.action \in {"ban", "unban"} /\ body.duration \in Deadlines
        /\ source \in Seq(PlanItems)
        /\ (1 .. MaxPlans) \X (1 .. Len(source)) \subseteq RequestIds
    BY <1>1, BodyItems
  <1>3. clock \in Nat
    BY DEF OrderInv, ControlTypeOK, TypeOK, Times
  <1> DEFINE expires == IF body.action = "unban" THEN Absent
                        ELSE IF body.duration = Permanent THEN Permanent
                        ELSE clock + body.duration
  <1>4. /\ expires \in Deadlines \cup {Absent}
        /\ body.action = "ban" => expires \in Deadlines
        /\ body.action = "unban" => expires = Absent
    BY <1>2, <1>3 DEF Deadlines, Times
  <1>5. \A n \in DOMAIN source :
          /\ source[n].source \in Sources /\ source[n].ip \in IPs
          /\ source[n].channel \in Channels
          /\ source[n].action = body.action /\ source[n].duration = body.duration
    BY <1>1, BodyItems DEF PlanItems
  <1>6. DOMAIN source = 1 .. Len(source) /\ Len(source) \in Nat
    BY <1>2
  <1>7. items = [n \in 1 .. Len(source) |->
                   [source |-> source[n].source, ip |-> source[n].ip,
                    channel |-> source[n].channel, action |-> body.action,
                    status |-> "pending", attempts |-> 0, expires |-> expires]]
    BY <1>5, <1>6 DEF Queued
  <1> HIDE DEF expires
  <1>8. items \in [1 .. Len(source) -> Items]
    BY <1>2, <1>4, <1>5, <1>6, <1>7 DEF Items, Open
  <1>9. items \in Seq(Items)
    <2> HIDE DEF items, source
    <2> QED BY <1>6, <1>8
  <1>10. Queued(actor, plans[p]) \in Job
    BY <1>9 DEF Queued, Job, Items, Unfinished
  <1>11. ItemsOfOneOrder(items)
    BY <1>2, <1>4, <1>6, <1>7 DEF ItemsOfOneOrder
  <1>12. QED
    BY <1>7, <1>10, <1>11 DEF Queued

LEMMA ExecuteOrder ==
    ASSUME OrderInv, NEW actor \in Actors, NEW p \in DOMAIN plans, Execute(actor, p)
    PROVE  /\ OrderInv'
           /\ DOMAIN jobs' = DOMAIN jobs \cup {Len(jobs) + 1}
           /\ \A n \in DOMAIN jobs : jobs'[n] = jobs[n]
           /\ jobs'[Len(jobs) + 1] = Queued(actor, plans[p])
  <1> DEFINE job == Queued(actor, plans[p])
  <1>1. jobs' = Append(jobs, job)
    BY DEF Execute, Queued
  <1>2. job \in Job /\ ItemsOfOneOrder(job.items)
    BY QueuedJob
  <1>3. /\ jobs \in Seq(Job) /\ Len(jobs) \in Nat
        /\ plans \in Seq(Plan) /\ Len(plans) \in Nat
    BY DEF OrderInv, ControlTypeOK
  <1> HIDE DEF job
  <1>4. /\ jobs' \in Seq(Job) /\ Len(jobs') = Len(jobs) + 1
        /\ DOMAIN jobs' = DOMAIN jobs \cup {Len(jobs) + 1}
        /\ jobs'[Len(jobs) + 1] = job
        /\ \A n \in DOMAIN jobs : jobs'[n] = jobs[n]
    BY <1>1, <1>2, <1>3
  <1> DEFINE plan == [plans[p] EXCEPT !.job = Len(jobs) + 1]
  <1>5. plans[p] \in Plan
    BY <1>3
  <1>6. plan \in Plan /\ plan.items = plans[p].items /\ plan.job = Len(jobs) + 1
    <2> DEFINE lists == Seq(PlanItems)
    <2>1. plans[p] \in [actor : Actors, items : lists, expires : Times, job : Nat]
      BY <1>5 DEF Plan, PlanItems
    <2>2. Plan = [actor : Actors, items : lists, expires : Times, job : Nat]
      BY DEF Plan, PlanItems
    <2> HIDE DEF lists
    <2>3. QED
      BY <1>3, <2>1, <2>2
  <1>7. plans' = [plans EXCEPT ![p] = plan] /\ plans[p].job = 0
    BY DEF Execute
  <1> HIDE DEF plan
  <1>8. /\ plans' \in Seq(Plan) /\ Len(plans') = Len(plans) /\ DOMAIN plans' = DOMAIN plans
        /\ plans'[p] = plan /\ \A q \in DOMAIN plans : q # p => plans'[q] = plans[q]
    BY <1>3, <1>6, <1>7
  <1>9. PlansAreBodies'
    BY <1>6, <1>8 DEF OrderInv, PlansAreBodies
  <1>10. JobsCounted'
    <2>1. Confirmed' = Confirmed \cup {p} /\ p \notin Confirmed
      BY <1>3, <1>6, <1>7, <1>8 DEF Confirmed
    <2>2. IsFiniteSet(Confirmed)
      <3>1. IsFiniteSet(1 .. Len(plans))
        BY <1>3, FS_Interval
      <3>2. Confirmed \subseteq 1 .. Len(plans)
        BY <1>3 DEF Confirmed
      <3>3. QED
        BY <3>1, <3>2, FS_Subset
    <2>3. Cardinality(Confirmed') = Cardinality(Confirmed) + 1
      BY <2>1, <2>2, FS_AddElement
    <2>4. QED
      BY <1>4, <1>8, <2>3 DEF OrderInv, JobsCounted
  <1>11. JobsAreOrders' /\ WorkerIsAtItem'
    BY <1>2, <1>4 DEF OrderInv, JobsAreOrders, WorkerIsAtItem, Execute
  <1>12. ControlTypeOK'
    BY <1>4, <1>8 DEF Execute, hostVars, OrderInv, ControlTypeOK, TypeOK
  <1>13. QED
    BY <1>4, <1>9, <1>10, <1>11, <1>12 DEF OrderInv, job

(* Recording what happened to an item keeps the types of the plans and     *)
(* jobs; a lease that runs out changes even less.                          *)
LEMMA TakeOrder ==
    ASSUME OrderInv, NEW j \in DOMAIN jobs, NEW i \in DOMAIN jobs[j].items, Take(j, i)
    PROVE  OrderInv'
  <1>1. jobs \in Seq(Job) /\ OnlyItemChanges(j, i)
    BY TakeChanges DEF OrderInv, ControlTypeOK
  <1>2. /\ JobsAreOrders'
        /\ \A n \in DOMAIN jobs : DOMAIN jobs'[n].items = DOMAIN jobs[n].items
    BY <1>1, OrdersStay
  <1>3. worker' = [phase |-> "calling", job |-> j, item |-> i, reply |-> NoAnswer]
    BY DEF Take
  <1>4. Item(j, i) \in Items /\ j \in Nat /\ i \in Nat
    BY <1>1, ItemAt
  <1>5. worker' \in WorkerStates /\ WorkerIsAtItem'
    BY <1>1, <1>2, <1>3, <1>4 DEF WorkerStates, WorkerIsAtItem, OnlyItemChanges
  <1>6. wire' \subseteq [source : Sources, req : Requests, call : Calls]
    <2>1. Call(j, i, Item(j, i).attempts + 1) \in Calls
      BY <1>4 DEF Call, Calls, Items
    <2>2. Item(j, i).source \in Sources
      BY <1>4 DEF Items
    <2>3. [source |-> Item(j, i).source, req |-> Request(j, i),
           call |-> Call(j, i, Item(j, i).attempts + 1)]
            \in [source : Sources, req : Requests, call : Calls]
      BY <2>1, <2>2, RequestType
    <2>4. QED
      BY <2>3 DEF Take, OrderInv, ControlTypeOK
  <1>7. ControlTypeOK'
    BY <1>1, <1>5, <1>6 DEF Take, OnlyItemChanges, hostVars, OrderInv, ControlTypeOK, TypeOK
  <1>8. PlansAreBodies' /\ JobsCounted'
    BY <1>1 DEF Take, OnlyItemChanges, OrderInv, PlansAreBodies, JobsCounted, Confirmed
  <1>9. QED
    BY <1>2, <1>5, <1>7, <1>8 DEF OrderInv

LEMMA SettleOrder ==
    ASSUME OrderInv, worker.phase = "calling", NEW outcome \in Open \cup Final,
           Settle(outcome), wire' \subseteq wire, UNCHANGED serving
    PROVE  OrderInv'
  <1> DEFINE j == worker.job
             i == worker.item
  <1>1. /\ jobs \in Seq(Job) /\ j \in DOMAIN jobs /\ i \in DOMAIN jobs[j].items
        /\ OnlyItemChanges(j, i)
    BY SettleChanges DEF OrderInv, ControlTypeOK
  <1>2. /\ JobsAreOrders'
        /\ \A n \in DOMAIN jobs : DOMAIN jobs'[n].items = DOMAIN jobs[n].items
    BY <1>1, OrdersStay
  <1>3. Item(j, i) \in Items /\ j \in Nat /\ i \in Nat
    BY <1>1, ItemAt
  <1>4. worker' = [phase |-> "notify", job |-> j, item |-> i] \/ worker' = WorkerIdle
    BY DEF Settle
  <1>5. worker' \in WorkerStates /\ WorkerIsAtItem'
    BY <1>1, <1>2, <1>3, <1>4 DEF WorkerStates, WorkerIsAtItem, OnlyItemChanges, WorkerIdle
  <1>6. cache' \in [Sources -> BlockLists]
    <2>1. /\ Item(j, i).source \in Sources /\ ItemKey(Item(j, i)) \in Keys
          /\ Item(j, i).expires \in Deadlines \cup {Absent}
      BY <1>3 DEF Items, ItemKey, Keys
    <2>2. PICK s \in Sources, k \in Keys, d \in Deadlines \cup {Absent} :
            s = Item(j, i).source /\ k = ItemKey(Item(j, i)) /\ d = Item(j, i).expires
      BY <2>1
    <2>3. cache' = cache \/ cache' = [cache EXCEPT ![s][k] = d]
      BY <2>2 DEF Settle
    <2>4. cache \in [Sources -> [Keys -> Deadlines \cup {Absent}]]
      BY DEF OrderInv, ControlTypeOK, BlockLists
    <2>5. QED
      BY <2>3, <2>4 DEF BlockLists
  <1>7. ControlTypeOK'
    BY <1>1, <1>5, <1>6 DEF Settle, OnlyItemChanges, hostVars, OrderInv, ControlTypeOK, TypeOK
  <1>8. PlansAreBodies' /\ JobsCounted'
    BY <1>1 DEF Settle, OnlyItemChanges, OrderInv, PlansAreBodies, JobsCounted, Confirmed
  <1>9. QED
    BY <1>2, <1>5, <1>7, <1>8 DEF OrderInv

LEMMA LeaseJob ==
    ASSUME OrderInv, NEW j \in DOMAIN jobs, LeaseExpires(j)
    PROVE  /\ OrderInv'
           /\ DOMAIN jobs' = DOMAIN jobs
           /\ \A n \in DOMAIN jobs :
                jobs'[n].items = jobs[n].items /\ jobs'[n].status = jobs[n].status
  <1> DEFINE job == [jobs[j] EXCEPT !.leased = FALSE]
  <1>1. jobs \in Seq(Job) /\ jobs[j] \in Job
    BY DEF OrderInv, ControlTypeOK
  <1>2. job \in Job /\ job.items = jobs[j].items /\ job.status = jobs[j].status
    <2> DEFINE lists == Seq(Items)
    <2>1. Job = [actor : Actors, status : Unfinished \cup {"done", "partial", "failed"},
                 leased : BOOLEAN, items : lists]
      BY DEF Job, Items
    <2> HIDE DEF lists
    <2>2. QED
      BY <1>1, <2>1
  <1>3. jobs' = [jobs EXCEPT ![j] = job]
    BY DEF LeaseExpires
  <1> HIDE DEF job
  <1>4. /\ jobs' \in Seq(Job) /\ DOMAIN jobs' = DOMAIN jobs /\ Len(jobs') = Len(jobs)
        /\ jobs'[j] = job /\ \A n \in DOMAIN jobs : n # j => jobs'[n] = jobs[n]
    BY <1>1, <1>2, <1>3
  <1>5. \A n \in DOMAIN jobs :
          jobs'[n].items = jobs[n].items /\ jobs'[n].status = jobs[n].status
    BY <1>2, <1>4
  <1>6. ControlTypeOK'
    BY <1>4 DEF LeaseExpires, hostVars, OrderInv, ControlTypeOK, TypeOK
  <1>7. PlansAreBodies' /\ JobsCounted' /\ JobsAreOrders' /\ WorkerIsAtItem'
    BY <1>4, <1>5 DEF LeaseExpires, OrderInv, PlansAreBodies, JobsCounted, Confirmed,
                      JobsAreOrders, WorkerIsAtItem
  <1>8. QED
    BY <1>4, <1>5, <1>6, <1>7 DEF OrderInv

(* Steps that touch neither plans nor jobs.                                *)
LEMMA OrderSame ==
    ASSUME OrderInv, UNCHANGED <<plans, jobs>>, ControlTypeOK', WorkerIsAtItem'
    PROVE  OrderInv'
  BY DEF OrderInv, PlansAreBodies, JobsCounted, Confirmed, JobsAreOrders

(* An answer that arrives changes only what the worker has in its hands.   *)
LEMMA DeliverKeeps ==
    ASSUME worker \in WorkerStates, TypeOK', NEW s \in Sources, NEW call, Deliver(s, call)
    PROVE  /\ worker' \in WorkerStates /\ worker'.phase = worker.phase
           /\ worker.phase = "notify" => worker' = worker
           /\ worker.phase = "calling" =>
                /\ worker'.job = worker.job /\ worker'.item = worker.item
                /\ \/ worker'.reply = worker.reply
                   \/ CurrentCall = call /\ worker'.reply = answer'[s]
  <1>1. CASE worker' = worker
    BY <1>1
  <1>2. CASE worker' # worker
    <2>1. /\ worker.phase = "calling" /\ CurrentCall = call
          /\ worker' = [worker EXCEPT !.reply = answer'[s]]
      BY <1>2 DEF Deliver
    <2>2. worker \in [phase : {"calling"}, job : Nat, item : Nat, reply : Answers \cup {NoAnswer}]
      BY <2>1, WorkerShape
    <2>3. answer'[s] \in Answers \cup {NoAnswer}
      BY DEF TypeOK
    <2>4. /\ worker' \in [phase : {"calling"}, job : Nat, item : Nat,
                          reply : Answers \cup {NoAnswer}]
          /\ worker'.phase = worker.phase /\ worker'.job = worker.job
          /\ worker'.item = worker.item /\ worker'.reply = answer'[s]
      BY <2>1, <2>2, <2>3
    <2>5. QED
      BY <2>1, <2>4 DEF WorkerStates
  <1>3. QED
    BY <1>1, <1>2

(* A status reply is a block list or says that the table is missing.       *)
LEMMA StatusReplyType ==
    ASSUME TypeOK, NEW s \in Sources, NEW networks
    PROVE  StatusReply(s, networks) \in BlockLists \cup {NoTable}
  <1>1. Desired(s, networks) \in [Keys -> Deadlines \cup {Absent}]
    BY DesiredType DEF BlockLists
  <1>2. CASE table[s] = NoTable
    BY <1>2 DEF StatusReply
  <1>3. CASE table[s] # NoTable
    <2>1. table[s] \in [Keys -> Deadlines \cup {Absent}]
      BY <1>3 DEF TypeOK, BlockLists
    <2>2. QED
      BY <1>1, <1>3, <2>1 DEF StatusReply, BlockLists
  <1>4. QED
    BY <1>2, <1>3

(* Reading the hosts, notifying and restarting leave the orders alone.     *)
LEMMA ReadingOrder ==
    ASSUME OrderInv,
           \/ NotifyBlock \/ ReconcileStart \/ ReconcileStore \/ Restart
           \/ \E s \in Sources : Ask(s)
    PROVE  OrderInv'
  <1>0. /\ TypeOK /\ worker \in WorkerStates /\ cache \in [Sources -> BlockLists]
        /\ wire \subseteq [source : Sources, req : Requests, call : Calls]
    BY DEF OrderInv, ControlTypeOK
  <1>1. CASE NotifyBlock
    <2>1. worker' \in WorkerStates /\ WorkerIsAtItem'
      BY <1>1 DEF NotifyBlock, WorkerStates, WorkerIdle, WorkerIsAtItem
    <2>2. triage' \in [Incidents -> {"pending", "acknowledged", "resolved"}]
      BY <1>1 DEF NotifyBlock, OrderInv, ControlTypeOK
    <2>3. QED
      BY <1>1, <2>1, <2>2, OrderSame DEF NotifyBlock, hostVars, OrderInv, ControlTypeOK, TypeOK
  <1>2. CASE ReconcileStart
    <2>1. worker' \in WorkerStates /\ WorkerIsAtItem'
      BY <1>2 DEF ReconcileStart, WorkerStates, WorkerIsAtItem
    <2>2. QED
      BY <1>2, <2>1, OrderSame DEF ReconcileStart, hostVars, centralVars, OrderInv,
                                   ControlTypeOK, TypeOK
  <1>3. CASE ReconcileStore
    <2>1. worker \in [phase : {"asked"}, left : SUBSET Sources, source : Sources,
                     seen : BlockLists \cup {NoTable, NoAnswer}]
      BY <1>0, <1>3, WorkerShape DEF ReconcileStore
    <2>2. worker' \in WorkerStates /\ WorkerIsAtItem'
      BY <1>3, <2>1 DEF ReconcileStore, WorkerStates, WorkerIdle, WorkerIsAtItem
    <2>3. cache' \in [Sources -> BlockLists]
      BY <1>0, <1>3, <2>1 DEF ReconcileStore
    <2>4. checks' \in [Sources -> {"never", "ok", "error"}]
      BY <1>3 DEF ReconcileStore, OrderInv, ControlTypeOK
    <2>5. QED
      BY <1>3, <2>2, <2>3, <2>4, OrderSame DEF ReconcileStore, hostVars, OrderInv,
                                              ControlTypeOK, TypeOK
  <1>4. CASE Restart
    <2>1. worker' \in WorkerStates /\ WorkerIsAtItem'
      BY <1>4 DEF Restart, WorkerStates, WorkerIdle, WorkerIsAtItem
    <2>2. wire' \subseteq [source : Sources, req : Requests, call : Calls]
      BY <1>0, <1>4 DEF Restart, HangUp
    <2>3. crashes' \in 0 .. MaxCrashes
      BY <1>4, BoundsAssumption DEF Restart, OrderInv, ControlTypeOK
    <2>4. QED
      BY <1>4, <2>1, <2>2, <2>3, OrderSame DEF Restart, hostVars, OrderInv,
                                              ControlTypeOK, TypeOK
  <1>5. ASSUME NEW s \in Sources, Ask(s)
        PROVE  OrderInv'
    <2>1. worker \in [phase : {"asking"}, left : SUBSET Sources]
      BY <1>0, <1>5, WorkerShape DEF Ask
    <2>2. PICK seen \in BlockLists \cup {NoTable, NoAnswer} :
            worker' = [phase |-> "asked", left |-> worker.left \ {s}, source |-> s, seen |-> seen]
      BY <1>0, <1>5, StatusReplyType DEF Ask
    <2>3. worker' \in WorkerStates /\ WorkerIsAtItem'
      BY <2>1, <2>2 DEF WorkerStates, WorkerIsAtItem
    <2>4. QED
      BY <1>5, <2>3, OrderSame DEF Ask, hostVars, centralVars, OrderInv, ControlTypeOK, TypeOK
  <1>6. QED
    BY <1>1, <1>2, <1>3, <1>4, <1>5

(* So do the hosts and the sessions that connect them.                     *)
LEMMA ArriveOrder ==
    ASSUME OrderInv, NEW m \in wire, Arrive(m)
    PROVE  OrderInv'
  <1>0. /\ TypeOK /\ worker \in WorkerStates
        /\ serving \in [Sources -> Calls \cup {NoCall}]
        /\ m.source \in Sources /\ m.req \in Requests /\ m.call \in Calls
    BY DEF OrderInv, ControlTypeOK
  <1>1. TypeOK'
    BY <1>0, ReceiveType DEF Arrive
  <1>2. CASE Begin(m.source, m.req) /\ UNCHANGED worker
                 /\ serving' = [serving EXCEPT ![m.source] = m.call]
    <2>1. serving' \in [Sources -> Calls \cup {NoCall}] /\ WorkerIsAtItem'
      BY <1>0, <1>2 DEF OrderInv, WorkerIsAtItem, Arrive, centralVars
    <2>2. QED
      BY <1>1, <1>2, <2>1, OrderSame DEF Arrive, centralVars, OrderInv, ControlTypeOK
  <1>3. CASE Deliver(m.source, m.call) /\ UNCHANGED serving
    <2>1. worker' \in WorkerStates /\ WorkerIsAtItem'
      BY <1>0, <1>1, <1>3, DeliverKeeps DEF OrderInv, WorkerIsAtItem, Arrive, centralVars
    <2>2. QED
      BY <1>1, <1>3, <2>1, OrderSame DEF Arrive, centralVars, OrderInv, ControlTypeOK
  <1>4. QED
    BY <1>2, <1>3 DEF Arrive

LEMMA HostOrder ==
    ASSUME OrderInv, NEW s \in Sources, HostRestore(s) \/ HostStep(s) \/ HostDisturbed(s)
    PROVE  OrderInv'
  <1>0. /\ TypeOK /\ worker \in WorkerStates
        /\ serving \in [Sources -> Calls \cup {NoCall}]
    BY DEF OrderInv, ControlTypeOK
  <1>1. TypeOK'
    BY <1>0, RestoreType, RunStepType, DisturbType DEF HostRestore, HostStep, HostDisturbed
  <1>2. serving' \in [Sources -> Calls \cup {NoCall}]
    BY <1>0 DEF HostRestore, HostStep, HostDisturbed
  <1>3. UNCHANGED <<centralVars, wire>>
    BY DEF HostRestore, HostStep, HostDisturbed
  <1>4. UNCHANGED worker \/ Deliver(s, serving[s])
    BY DEF HostRestore, HostStep, HostDisturbed
  <1>5. worker' \in WorkerStates /\ WorkerIsAtItem'
    BY <1>0, <1>1, <1>3, <1>4, DeliverKeeps DEF OrderInv, WorkerIsAtItem, centralVars
  <1>6. QED
    BY <1>1, <1>2, <1>3, <1>5, OrderSame DEF centralVars, OrderInv, ControlTypeOK

LEMMA OrderStep ==
    ASSUME OrderInv, [Next]_vars
    PROVE  OrderInv'
  <1>1. CASE OperatorStep
    BY <1>1, PreviewOrder, ExecuteOrder DEF OperatorStep
  <1>2. CASE Record
    BY <1>2, OutcomeType, SettleOrder DEF Record
  <1>3. CASE CallFails
    <2>1. Retried(Item(worker.job, worker.item)) \in Open \cup Final
      BY OutcomeType DEF Open, Final
    <2>2. wire' \subseteq wire
      BY <1>3 DEF CallFails, HangUp
    <2>3. QED
      BY <1>3, <2>1, <2>2, SettleOrder DEF CallFails
  <1>4. CASE WorkerStep
    BY <1>2, <1>3, <1>4, TakeOrder, ReadingOrder DEF WorkerStep
  <1>5. CASE Restart
    BY <1>5, ReadingOrder
  <1>6. CASE TimePasses
    <2>1. TypeOK' /\ WorkerIsAtItem'
      BY <1>6, TickType DEF TimePasses, centralVars, OrderInv, ControlTypeOK, WorkerIsAtItem
    <2>2. QED
      BY <1>6, <2>1, OrderSame DEF TimePasses, centralVars, OrderInv, ControlTypeOK
  <1>7. CASE UNCHANGED vars
    <2>1. TypeOK' /\ WorkerIsAtItem'
      BY <1>7 DEF vars, hostVars, centralVars, OrderInv, ControlTypeOK, TypeOK, WorkerIsAtItem
    <2>2. QED
      BY <1>7, <2>1, OrderSame DEF vars, centralVars, OrderInv, ControlTypeOK
  <1>8. QED
    BY <1>1, <1>4, <1>5, <1>6, <1>7, LeaseJob, ArriveOrder, HostOrder DEF Next

LEMMA OrderInit ==
    ASSUME Init
    PROVE  OrderInv
  <1>1. ControlTypeOK
    <2>1. TypeOK
      BY TypeInit DEF Init
    <2>2. QED
      BY <2>1, BoundsAssumption DEF Init, ControlTypeOK, WorkerStates, Nothing, BlockLists
  <1>2. JobsCounted
    <2>1. Confirmed = {}
      BY DEF Init, Confirmed
    <2>2. QED
      BY <2>1, FS_EmptySet, BoundsAssumption DEF Init, JobsCounted
  <1>3. QED
    BY <1>1, <1>2 DEF Init, OrderInv, PlansAreBodies, JobsAreOrders, WorkerIsAtItem, WorkerIdle

(* Every reachable state of the control plane is well typed: every request *)
(* on its way is one the helper can read, and every attempt belongs to an  *)
(* item of a confirmed plan.                                               *)
THEOREM ControlTypes == Spec => []ControlTypeOK
  <1>1. Spec => []OrderInv
    BY OrderInit, OrderStep, PTL DEF Spec
  <1>2. OrderInv => ControlTypeOK
    BY DEF OrderInv
  <1>3. QED
    BY <1>1, <1>2, PTL

-----------------------------------------------------------------------------
(* The newest operation decides.  A list saved and then rolled back, and a *)
(* session that outlives its client, break it (readback_unavailable and    *)
(* late_start; a refused or failed batch on a host without a table, which  *)
(* the code then takes for an unban), so these failures are excluded.      *)
SafeFaults ==
    /\ Faults \cap {"nft_refused", "readback_unavailable", "flush"} = {}
    /\ "late_start" \notin CentralFaults

(* The host has a receipt of item i of job n.                              *)
KnownItem(n, i) == receipts[Item(n, i).source][<<n, i>>] # NoReceipt
SameKey(n, i, m, k) ==
    Item(n, i).source = Item(m, k).source /\ ItemKey(Item(n, i)) = ItemKey(Item(m, k))
Exists(n, i) == n \in DOMAIN jobs /\ i \in DOMAIN jobs[n].items
Running(s) == helper[s] # Idle /\ helper[s].req # NoRequest
Calling == worker.phase = "calling"

(* No later job has come to the host with the key of item i of job n.      *)
LastKnown(n, i) ==
    /\ KnownItem(n, i)
    /\ \A m \in DOMAIN jobs : \A k \in DOMAIN jobs[m].items :
         m > n /\ KnownItem(m, k) => ~SameKey(m, k, n, i)

(* What the last job that came to a host asks of a key is in its list.     *)
Follows(n, i) ==
    /\ Item(n, i).action = "unban" => Persisted(n, i) = Absent
    /\ Item(n, i).action = "ban" /\ Live(Item(n, i).expires) /\ "protect" \notin Faults
         => Persisted(n, i) = Item(n, i).expires
ListsFollow ==
    \A n \in DOMAIN jobs : \A i \in DOMAIN jobs[n].items : LastKnown(n, i) => Follows(n, i)

(* Only the oldest unfinished job is sent, and a call is of that job.      *)
OneAtATime ==
    \A n, m \in DOMAIN jobs :
        n < m /\ (\E i \in DOMAIN jobs[m].items : Item(m, i).attempts > 0) =>
            jobs[n].status \notin Unfinished
CallIsHead == Calling => IsHead(worker.job) /\ Item(worker.job, worker.item).attempts > 0

(* The only session on its way is that of the worker's call.               *)
WireIsCurrent ==
    \A m \in wire :
        /\ Calling
        /\ m = [source |-> Item(worker.job, worker.item).source,
                req |-> Request(worker.job, worker.item), call |-> CurrentCall]

(* A run on a host is an attempt of an item the host has a receipt of.     *)
RunIsOf(s, n, i, attempt) ==
    /\ Exists(n, i) /\ Item(n, i).source = s /\ KnownItem(n, i)
    /\ helper[s].req = Request(n, i) /\ serving[s] = Call(n, i, attempt)
    /\ attempt <= Item(n, i).attempts
RunsAreKnown ==
    \A s \in Sources : Running(s) => \E n, i, attempt \in Nat : RunIsOf(s, n, i, attempt)

(* A session on its way has not been answered, and is not being served.    *)
WaitingAlone ==
    /\ Calling /\ worker.reply # NoAnswer => wire = {}
    /\ \A s \in Sources : Running(s) => \A m \in wire : serving[s] # m.call

(* A receipt is of an item that was sent; a success is of one with receipt.*)
KnownWasSent ==
    \A s \in Sources : \A n, i \in Nat :
        <<n, i>> \in RequestIds /\ receipts[s][<<n, i>>] # NoReceipt =>
            Exists(n, i) /\ Item(n, i).attempts > 0
ReplyIsKnown ==
    Calling /\ worker.reply # NoAnswer /\ worker.reply.status = "ok" =>
        KnownItem(worker.job, worker.item)
OkIsKnown ==
    \A n \in DOMAIN jobs : \A i \in DOMAIN jobs[n].items :
        Item(n, i).status = "ok" => KnownItem(n, i)

(* Without flushes a batch finds the table its run has read; without new   *)
(* protections every run reads that nothing is protected.                  *)
BatchesCommit ==
    \A s \in Sources : helper[s].pc = "apply" /\ helper[s].current => table[s] # NoTable
NothingProtected == "protect" \notin Faults => \A s \in Sources : readings[s] = {{}}

PlaneInv ==
    /\ OrderInv /\ SafeFaults
    /\ ListsFollow
    /\ OneAtATime /\ CallIsHead
    /\ WireIsCurrent /\ RunsAreKnown /\ WaitingAlone
    /\ KnownWasSent /\ ReplyIsKnown /\ OkIsKnown
    /\ BatchesCommit /\ NothingProtected

(* Every item of a job has an id, now and after a step.                    *)
ItemsHaveIds ==
    \A n \in DOMAIN jobs : \A i \in DOMAIN jobs[n].items :
        n \in Nat /\ i \in Nat /\ <<n, i>> \in RequestIds /\ Item(n, i) \in Items

LEMMA IdsExist == OrderInv => ItemsHaveIds
  <1> SUFFICES ASSUME OrderInv, NEW n \in DOMAIN jobs, NEW i \in DOMAIN jobs[n].items
               PROVE  n \in Nat /\ i \in Nat /\ <<n, i>> \in RequestIds /\ Item(n, i) \in Items
    BY DEF ItemsHaveIds
  <1>1. n \in 1 .. Len(jobs) /\ i \in Nat /\ Item(n, i) \in Items
    BY ItemAt DEF OrderInv, ControlTypeOK
  <1>2. n \in 1 .. MaxPlans
    BY <1>1, JobsBounded, BoundsAssumption DEF OrderInv, ControlTypeOK
  <1>3. QED
    BY <1>1, <1>2 DEF OrderInv, JobsAreOrders, ItemsOfOneOrder

LEMMA IdsExistNext == OrderInv' => ItemsHaveIds'
  BY IdsExist, PTL

-----------------------------------------------------------------------------
(* Steps of the central service: the hosts stay as they are.               *)

(* The items of the jobs stay the same orders, sent at least as often.     *)
JobsKept ==
    /\ DOMAIN jobs \subseteq DOMAIN jobs'
    /\ \A n \in DOMAIN jobs :
         /\ DOMAIN jobs'[n].items = DOMAIN jobs[n].items
         /\ \A i \in DOMAIN jobs[n].items :
              /\ SameOrder(Item(n, i)', Item(n, i))
              /\ Item(n, i)'.attempts >= Item(n, i).attempts

LEMMA KeptItem ==
    ASSUME JobsKept, NEW n \in DOMAIN jobs, NEW i \in DOMAIN jobs[n].items
    PROVE  /\ Exists(n, i)'
           /\ Item(n, i)'.source = Item(n, i).source
           /\ ItemKey(Item(n, i))' = ItemKey(Item(n, i))
           /\ Item(n, i)'.action = Item(n, i).action
           /\ Item(n, i)'.expires = Item(n, i).expires
           /\ Request(n, i)' = Request(n, i)
           /\ Item(n, i)'.attempts >= Item(n, i).attempts
           /\ receipts' = receipts => KnownItem(n, i)' = KnownItem(n, i)
  BY DEF JobsKept, SameOrder, Exists, ItemKey, Request, KnownItem

LEMMA CentralKeeps ==
    ASSUME PlaneInv, OrderInv', UNCHANGED <<hostVars, serving>>, JobsKept
    PROVE  /\ ListsFollow' /\ RunsAreKnown' /\ KnownWasSent'
           /\ BatchesCommit' /\ NothingProtected'
  <1>1. UNCHANGED <<clock, readings, blocks, receipts, table, helper, serving>>
    BY DEF hostVars
  <1>2. \A n \in DOMAIN jobs : \A i \in DOMAIN jobs[n].items :
          /\ n \in Nat /\ i \in Nat /\ <<n, i>> \in RequestIds /\ Item(n, i) \in Items
    BY IdsExist DEF PlaneInv, ItemsHaveIds
  <1>3. ASSUME NEW n \in DOMAIN jobs', NEW i \in DOMAIN jobs'[n].items, KnownItem(n, i)'
        PROVE  Exists(n, i)
    <2>1. n \in Nat /\ i \in Nat /\ <<n, i>> \in RequestIds /\ Item(n, i)' \in Items
      BY IdsExistNext DEF ItemsHaveIds
    <2>2. Item(n, i)'.source \in Sources
      BY <2>1 DEF Items
    <2>3. receipts[Item(n, i)'.source][<<n, i>>] # NoReceipt
      BY <1>1, <1>3 DEF KnownItem
    <2>4. QED
      BY <2>1, <2>2, <2>3 DEF PlaneInv, KnownWasSent
  <1>4. ListsFollow'
    <2> SUFFICES ASSUME NEW n \in DOMAIN jobs', NEW i \in DOMAIN jobs'[n].items, LastKnown(n, i)'
                 PROVE  Follows(n, i)'
      BY DEF ListsFollow
    <2>1. n \in DOMAIN jobs /\ i \in DOMAIN jobs[n].items
      BY <1>3 DEF LastKnown, Exists
    <2>2. KnownItem(n, i)
      BY <1>1, <2>1, KeptItem DEF LastKnown
    <2>3. ASSUME NEW m \in DOMAIN jobs, NEW k \in DOMAIN jobs[m].items, m > n, KnownItem(m, k)
          PROVE  ~SameKey(m, k, n, i)
      <3>1. KnownItem(m, k)' /\ m \in DOMAIN jobs' /\ k \in DOMAIN jobs'[m].items
        BY <1>1, <2>3, KeptItem DEF Exists
      <3>2. ~SameKey(m, k, n, i)'
        BY <2>3, <3>1 DEF LastKnown
      <3>3. QED
        BY <2>1, <3>2, KeptItem DEF SameKey
    <2>4. Follows(n, i)
      BY <2>1, <2>2, <2>3 DEF PlaneInv, ListsFollow, LastKnown
    <2>5. Persisted(n, i)' = Persisted(n, i)
      BY <1>1, <2>1, KeptItem DEF Persisted
    <2>6. \A d : Live(d)' = Live(d)
      BY <1>1 DEF Live
    <2>7. QED
      BY <2>1, <2>4, <2>5, <2>6, KeptItem DEF Follows
  <1>5. RunsAreKnown'
    <2> SUFFICES ASSUME NEW s \in Sources, Running(s)'
                 PROVE  \E n, i, attempt \in Nat : RunIsOf(s, n, i, attempt)'
      BY DEF RunsAreKnown
    <2>1. Running(s)
      BY <1>1 DEF Running
    <2>2. PICK n, i, attempt \in Nat : RunIsOf(s, n, i, attempt)
      BY <2>1 DEF PlaneInv, RunsAreKnown
    <2>3. n \in DOMAIN jobs /\ i \in DOMAIN jobs[n].items
      BY <2>2 DEF RunIsOf, Exists
    <2>4. Item(n, i).attempts \in Nat /\ Item(n, i)'.attempts \in Nat
      BY <1>2, <2>3, KeptItem, IdsExistNext DEF Items, ItemsHaveIds, Exists
    <2>5. RunIsOf(s, n, i, attempt)'
      BY <1>1, <2>2, <2>3, <2>4, KeptItem DEF RunIsOf, Call
    <2>6. QED
      BY <2>5
  <1>6. KnownWasSent'
    <2> SUFFICES ASSUME NEW s \in Sources, NEW n \in Nat, NEW i \in Nat,
                        <<n, i>> \in RequestIds, receipts'[s][<<n, i>>] # NoReceipt
                 PROVE  Exists(n, i)' /\ Item(n, i)'.attempts > 0
      BY DEF KnownWasSent
    <2>1. Exists(n, i) /\ Item(n, i).attempts > 0
      BY <1>1 DEF PlaneInv, KnownWasSent
    <2>2. n \in DOMAIN jobs /\ i \in DOMAIN jobs[n].items
      BY <2>1 DEF Exists
    <2>3. Item(n, i).attempts \in Nat /\ Item(n, i)'.attempts \in Nat
      BY <1>2, <2>2, KeptItem, IdsExistNext DEF Items, ItemsHaveIds, Exists
    <2>4. QED
      BY <2>1, <2>2, <2>3, KeptItem
  <1>7. BatchesCommit' /\ NothingProtected'
    BY <1>1 DEF PlaneInv, BatchesCommit, NothingProtected
  <1>8. QED
    BY <1>4, <1>5, <1>6, <1>7

(* The worker reads the hosts, notifies or starts again: no call is open.  *)
LEMMA QuietKeeps ==
    ASSUME PlaneInv, OrderInv', UNCHANGED <<hostVars, serving, jobs>>,
           wire' = {}, ~Calling'
    PROVE  PlaneInv'
  <1>1. JobsKept
    <2>1. \A n \in DOMAIN jobs : \A i \in DOMAIN jobs[n].items : Item(n, i).attempts \in Nat
      BY IdsExist DEF PlaneInv, ItemsHaveIds, Items
    <2>2. QED
      BY <2>1 DEF JobsKept, SameOrder, Item
  <1>2. /\ ListsFollow' /\ RunsAreKnown' /\ KnownWasSent'
        /\ BatchesCommit' /\ NothingProtected'
    BY <1>1, CentralKeeps
  <1>3. OneAtATime'
    BY DEF PlaneInv, OneAtATime, Item
  <1>4. CallIsHead' /\ WireIsCurrent' /\ WaitingAlone' /\ ReplyIsKnown'
    BY DEF CallIsHead, WireIsCurrent, WaitingAlone, ReplyIsKnown
  <1>5. OkIsKnown'
    BY DEF PlaneInv, OkIsKnown, KnownItem, Item, hostVars
  <1>6. QED
    BY <1>2, <1>3, <1>4, <1>5 DEF PlaneInv, SafeFaults

LEMMA ReadingKeeps ==
    ASSUME PlaneInv,
           \/ NotifyBlock \/ ReconcileStart \/ ReconcileStore \/ Restart
           \/ \E s \in Sources : Ask(s)
    PROVE  PlaneInv'
  <1>1. OrderInv'
    BY ReadingOrder DEF PlaneInv
  <1>2. ~Calling => wire = {}
    BY DEF PlaneInv, WireIsCurrent
  <1>3. CASE NotifyBlock
    BY <1>1, <1>2, <1>3, QuietKeeps DEF NotifyBlock, Calling, WorkerIdle
  <1>4. CASE ReconcileStart
    BY <1>1, <1>2, <1>4, QuietKeeps DEF ReconcileStart, centralVars, Calling, WorkerIdle
  <1>5. CASE ReconcileStore
    BY <1>1, <1>2, <1>5, QuietKeeps DEF ReconcileStore, Calling, WorkerIdle
  <1>6. CASE Restart
    <2>1. wire' = {}
      <3>1. CASE Calling
        BY <1>6, <3>1 DEF Restart, HangUp, Calling, PlaneInv, SafeFaults, WireIsCurrent
      <3>2. CASE ~Calling
        BY <1>2, <1>6, <3>2 DEF Restart, Calling
      <3>3. QED
        BY <3>1, <3>2
    <2>2. QED
      BY <1>1, <1>6, <2>1, QuietKeeps DEF Restart, Calling, WorkerIdle
  <1>7. ASSUME NEW s \in Sources, Ask(s)
        PROVE  PlaneInv'
    <2>1. worker.phase = "asking" /\ worker'.phase = "asked"
      BY <1>7 DEF Ask
    <2>2. QED
      BY <1>1, <1>2, <1>7, <2>1, QuietKeeps DEF Ask, centralVars, Calling
  <1>8. QED
    BY <1>3, <1>4, <1>5, <1>6, <1>7

(* The queue grows at its end, or a lease runs out, under an open call.    *)
LEMMA QueueKeeps ==
    ASSUME PlaneInv, OrderInv', UNCHANGED <<hostVars, serving, worker, wire>>,
           DOMAIN jobs \subseteq DOMAIN jobs',
           \A n \in DOMAIN jobs :
               jobs'[n].items = jobs[n].items /\ jobs'[n].status = jobs[n].status,
           \A n \in DOMAIN jobs' \ DOMAIN jobs :
               /\ \A old \in DOMAIN jobs : old < n
               /\ \A i \in DOMAIN jobs'[n].items :
                    Item(n, i)'.attempts = 0 /\ Item(n, i)'.status = "pending"
    PROVE  PlaneInv'
  <1>0. \A n \in DOMAIN jobs : n \in Nat
    BY ItemAt DEF PlaneInv, OrderInv, ControlTypeOK
  <1>1. JobsKept
    <2>1. \A n \in DOMAIN jobs : \A i \in DOMAIN jobs[n].items : Item(n, i).attempts \in Nat
      BY IdsExist DEF PlaneInv, ItemsHaveIds, Items
    <2>2. QED
      BY <2>1 DEF JobsKept, SameOrder, Item
  <1>2. /\ ListsFollow' /\ RunsAreKnown' /\ KnownWasSent'
        /\ BatchesCommit' /\ NothingProtected'
    BY <1>1, CentralKeeps
  <1>3. \A n \in DOMAIN jobs : \A i : Item(n, i)' = Item(n, i)
    BY DEF Item
  <1>4. OneAtATime'
    <2> SUFFICES ASSUME NEW n \in DOMAIN jobs', NEW m \in DOMAIN jobs', n < m,
                        NEW i \in DOMAIN jobs'[m].items, Item(m, i)'.attempts > 0
                 PROVE  jobs'[n].status \notin Unfinished
      BY DEF OneAtATime
    <2>0. \A o \in DOMAIN jobs' : o \in Nat
      BY DEF OrderInv, ControlTypeOK
    <2>1. m \in DOMAIN jobs
      OBVIOUS
    <2>2. n \in DOMAIN jobs
      BY <1>0, <2>0, <2>1
    <2>3. QED
      BY <1>3, <2>1, <2>2 DEF PlaneInv, OneAtATime
  <1>5. CallIsHead'
    <2> SUFFICES ASSUME Calling'
                 PROVE  IsHead(worker.job)' /\ Item(worker.job, worker.item)'.attempts > 0
      BY DEF CallIsHead
    <2>1. Calling /\ IsHead(worker.job) /\ Item(worker.job, worker.item).attempts > 0
      BY DEF Calling, PlaneInv, CallIsHead
    <2>2. worker.job \in DOMAIN jobs
      BY <2>1 DEF IsHead, Pending
    <2>3. \A other \in Pending' : other \in Pending \/ other \notin DOMAIN jobs
      BY DEF Pending
    <2>4. \A other \in Pending' : worker.job <= other
      <3> TAKE other \in Pending'
      <3>1. CASE other \in Pending
        BY <2>1, <3>1 DEF IsHead
      <3>2. CASE other \notin DOMAIN jobs
        <4>1. other \in DOMAIN jobs' /\ other \in Nat
          BY DEF Pending, OrderInv, ControlTypeOK
        <4>2. QED
          BY <1>0, <2>2, <3>2, <4>1
      <3>3. QED
        BY <2>3, <3>1, <3>2
    <2>5. worker.job \in Pending'
      BY <2>1, <2>2 DEF IsHead, Pending
    <2>6. QED
      BY <1>3, <2>1, <2>2, <2>4, <2>5 DEF IsHead
  <1>6. WireIsCurrent' /\ WaitingAlone' /\ ReplyIsKnown'
    <2>1. Calling' = Calling
      BY DEF Calling
    <2>2. CASE Calling
      <3>1. worker.job \in DOMAIN jobs
        BY <2>2 DEF PlaneInv, CallIsHead, IsHead, Pending
      <3>2. Item(worker.job, worker.item)' = Item(worker.job, worker.item)
        BY <3>1 DEF Item
      <3>3. /\ Request(worker.job, worker.item)' = Request(worker.job, worker.item)
            /\ CurrentCall' = CurrentCall
        BY <3>2 DEF Request, CurrentCall, Call
      <3>4. WireIsCurrent'
        BY <2>1, <3>2, <3>3 DEF PlaneInv, WireIsCurrent
      <3>5. WaitingAlone'
        BY <2>1 DEF PlaneInv, WaitingAlone, Running, hostVars
      <3>6. ReplyIsKnown'
        BY <2>1, <3>2 DEF PlaneInv, ReplyIsKnown, KnownItem, hostVars
      <3>7. QED
        BY <3>4, <3>5, <3>6
    <2>3. CASE ~Calling
      BY <2>1, <2>3 DEF PlaneInv, WireIsCurrent, WaitingAlone, ReplyIsKnown
    <2>4. QED
      BY <2>2, <2>3
  <1>7. OkIsKnown'
    <2> SUFFICES ASSUME NEW n \in DOMAIN jobs', NEW i \in DOMAIN jobs'[n].items,
                        Item(n, i)'.status = "ok"
                 PROVE  KnownItem(n, i)'
      BY DEF OkIsKnown
    <2>1. n \in DOMAIN jobs
      OBVIOUS
    <2>2. KnownItem(n, i)
      BY <1>3, <2>1 DEF PlaneInv, OkIsKnown
    <2>3. QED
      BY <1>3, <2>1, <2>2 DEF KnownItem, hostVars
  <1>8. QED
    BY <1>2, <1>4, <1>5, <1>6, <1>7 DEF PlaneInv, SafeFaults

LEMMA QueueStep ==
    ASSUME PlaneInv,
           \/ \E actor \in Actors, body \in Bodies : Preview(actor, body)
           \/ \E actor \in Actors : \E p \in DOMAIN plans : Execute(actor, p)
           \/ \E j \in DOMAIN jobs : LeaseExpires(j)
    PROVE  PlaneInv'
  <1>0. OrderInv
    BY DEF PlaneInv
  <1>1. ASSUME NEW actor \in Actors, NEW body \in Bodies, Preview(actor, body)
        PROVE  PlaneInv'
    BY <1>0, <1>1, PreviewOrder, QueueKeeps DEF Preview
  <1>2. ASSUME NEW actor \in Actors, NEW p \in DOMAIN plans, Execute(actor, p)
        PROVE  PlaneInv'
    <2>1. /\ OrderInv'
          /\ DOMAIN jobs' = DOMAIN jobs \cup {Len(jobs) + 1}
          /\ \A n \in DOMAIN jobs : jobs'[n] = jobs[n]
          /\ jobs'[Len(jobs) + 1] = Queued(actor, plans[p])
      BY <1>0, <1>2, ExecuteOrder
    <2>2. \A n \in DOMAIN jobs' \ DOMAIN jobs :
            \A i \in DOMAIN jobs'[n].items :
               Item(n, i)'.attempts = 0 /\ Item(n, i)'.status = "pending"
      BY <1>0, <2>1, QueuedJob DEF Item
    <2>3. \A old \in DOMAIN jobs : old < Len(jobs) + 1
      BY DEF PlaneInv, OrderInv, ControlTypeOK
    <2>4. QED
      BY <1>2, <2>1, <2>2, <2>3, QueueKeeps DEF Execute
  <1>3. ASSUME NEW j \in DOMAIN jobs, LeaseExpires(j)
        PROVE  PlaneInv'
    BY <1>0, <1>3, LeaseJob, QueueKeeps DEF LeaseExpires
  <1>4. QED
    BY <1>1, <1>2, <1>3

(* Only the oldest unfinished job is sent.                                 *)
LEMMA TakeKeeps ==
    ASSUME PlaneInv, NEW j \in DOMAIN jobs, NEW i \in DOMAIN jobs[j].items, Take(j, i)
    PROVE  PlaneInv'
  <1>0. OrderInv /\ OrderInv' /\ jobs \in Seq(Job)
    BY TakeOrder DEF PlaneInv, OrderInv, ControlTypeOK
  <1>1. /\ OnlyItemChanges(j, i) /\ jobs'[j].status = "running"
        /\ Item(j, i)'.status = "running"
        /\ Item(j, i)'.attempts = Item(j, i).attempts + 1
    BY <1>0, TakeChanges DEF Item
  <1>2. /\ DOMAIN jobs' = DOMAIN jobs
        /\ \A n \in DOMAIN jobs : n # j => jobs'[n] = jobs[n]
        /\ \A n \in DOMAIN jobs : DOMAIN jobs'[n].items = DOMAIN jobs[n].items
        /\ \A n \in DOMAIN jobs : \A k \in DOMAIN jobs[n].items :
             /\ SameOrder(Item(n, k)', Item(n, k))
             /\ n # j \/ k # i => Item(n, k)' = Item(n, k)
    BY <1>0, <1>1, OrdersStay DEF OnlyItemChanges, Item
  <1>3. \A n \in DOMAIN jobs : n \in Nat /\ \A k \in DOMAIN jobs[n].items :
          k \in Nat /\ Item(n, k).attempts \in Nat
    BY <1>0, IdsExist, ItemAt DEF ItemsHaveIds, Items
  <1>4. JobsKept
    BY <1>1, <1>2, <1>3 DEF JobsKept
  <1>5. /\ ListsFollow' /\ RunsAreKnown' /\ KnownWasSent'
        /\ BatchesCommit' /\ NothingProtected'
    BY <1>0, <1>4, CentralKeeps DEF Take
  <1>6. IsHead(j) /\ j \in Pending /\ \A other \in Pending : j <= other
    BY DEF Take, CanTake, IsHead
  <1>7. OneAtATime'
    <2> SUFFICES ASSUME NEW n \in DOMAIN jobs', NEW m \in DOMAIN jobs', n < m,
                        NEW k \in DOMAIN jobs'[m].items, Item(m, k)'.attempts > 0
                 PROVE  jobs'[n].status \notin Unfinished
      BY DEF OneAtATime
    <2>1. n \in DOMAIN jobs /\ m \in DOMAIN jobs /\ k \in DOMAIN jobs[m].items
      BY <1>2
    <2>2. CASE m = j
      <3>1. n # j /\ n \notin Pending
        BY <1>3, <1>6, <2>1, <2>2
      <3>2. QED
        BY <1>2, <2>1, <3>1 DEF Pending
    <2>3. CASE m # j
      <3>1. Item(m, k).attempts > 0
        BY <1>2, <2>1, <2>3
      <3>2. jobs[n].status \notin Unfinished
        BY <2>1, <3>1 DEF PlaneInv, OneAtATime
      <3>3. n # j
        BY <1>6, <3>2 DEF Pending
      <3>4. QED
        BY <1>2, <2>1, <3>2, <3>3
    <2>4. QED
      BY <2>2, <2>3
  <1>8. worker' = [phase |-> "calling", job |-> j, item |-> i, reply |-> NoAnswer]
    BY DEF Take
  <1>9. CallIsHead'
    <2>1. Pending' = Pending
      BY <1>1, <1>2, <1>6 DEF Pending, Unfinished
    <2>2. QED
      BY <1>1, <1>3, <1>6, <1>8, <2>1 DEF CallIsHead, IsHead
  <1>10. wire' = {[source |-> Item(j, i).source, req |-> Request(j, i),
                   call |-> Call(j, i, Item(j, i).attempts + 1)]}
    BY DEF Take, WorkerIdle, PlaneInv, WireIsCurrent, Calling
  <1>11. WireIsCurrent'
    <2>1. Item(j, i)'.source = Item(j, i).source /\ Request(j, i)' = Request(j, i)
      BY <1>4, KeptItem
    <2>2. CurrentCall' = Call(j, i, Item(j, i).attempts + 1)
      BY <1>1, <1>8 DEF CurrentCall, Call
    <2>3. Calling' /\ worker'.job = j /\ worker'.item = i
      BY <1>8 DEF Calling
    <2>4. Request(worker.job, worker.item)' = Request(j, i)
      BY <2>1, <2>3 DEF Request
    <2>5. Item(worker.job, worker.item)'.source = Item(j, i).source
      BY <2>1, <2>3 DEF Item
    <2>6. QED
      BY <1>10, <2>2, <2>3, <2>4, <2>5 DEF WireIsCurrent
  <1>12. WaitingAlone'
    <2>1. ~(Calling' /\ worker'.reply # NoAnswer)
      BY <1>8
    <2>2. ASSUME NEW s \in Sources, Running(s)', NEW m \in wire'
          PROVE  serving'[s] # m.call
      <3>1. Running(s)
        BY <2>2 DEF Take, hostVars, Running
      <3>2. PICK n, k, attempt \in Nat : RunIsOf(s, n, k, attempt)
        BY <3>1 DEF PlaneInv, RunsAreKnown
      <3>3. /\ n \in DOMAIN jobs /\ k \in DOMAIN jobs[n].items
            /\ serving[s] = <<n, k, attempt>> /\ attempt <= Item(n, k).attempts
        BY <3>2 DEF RunIsOf, Exists, Call
      <3>4. m.call = <<j, i, Item(j, i).attempts + 1>>
        BY <1>10, <2>2 DEF Call
      <3>5. serving' = serving
        BY DEF Take
      <3>6. QED
        BY <1>3, <3>3, <3>4, <3>5
    <2>3. QED
      BY <2>1, <2>2 DEF WaitingAlone
  <1>13. ReplyIsKnown'
    BY <1>8 DEF ReplyIsKnown
  <1>14. OkIsKnown'
    <2> SUFFICES ASSUME NEW n \in DOMAIN jobs', NEW k \in DOMAIN jobs'[n].items,
                        Item(n, k)'.status = "ok"
                 PROVE  KnownItem(n, k)'
      BY DEF OkIsKnown
    <2>1. n \in DOMAIN jobs /\ k \in DOMAIN jobs[n].items /\ (n # j \/ k # i)
      BY <1>1, <1>2
    <2>2. Item(n, k)' = Item(n, k)
      BY <1>2, <2>1
    <2>3. KnownItem(n, k)
      BY <2>1, <2>2 DEF PlaneInv, OkIsKnown
    <2>4. QED
      BY <2>2, <2>3 DEF KnownItem, Take, hostVars
  <1>15. QED
    BY <1>0, <1>5, <1>7, <1>9, <1>11, <1>12, <1>13, <1>14 DEF PlaneInv, SafeFaults

(* A call ends with its session, and only a host that has a receipt can    *)
(* make it a success.                                                      *)
LEMMA SettleKeeps ==
    ASSUME PlaneInv, Calling, NEW outcome \in Open \cup Final, Settle(outcome),
           wire' = {}, UNCHANGED serving,
           outcome = "ok" => KnownItem(worker.job, worker.item)
    PROVE  PlaneInv'
  <1> DEFINE j == worker.job
             i == worker.item
  <1>0. OrderInv /\ OrderInv' /\ jobs \in Seq(Job)
    BY SettleOrder DEF PlaneInv, OrderInv, ControlTypeOK, Calling
  <1>1. /\ j \in DOMAIN jobs /\ i \in DOMAIN jobs[j].items
        /\ OnlyItemChanges(j, i)
        /\ jobs'[j].items[i].status = outcome
        /\ jobs'[j].items[i].attempts = jobs[j].items[i].attempts
    BY <1>0, SettleChanges DEF OrderInv, Calling
  <1>2. /\ DOMAIN jobs' = DOMAIN jobs
        /\ \A n \in DOMAIN jobs : n # j => jobs'[n] = jobs[n]
        /\ \A n \in DOMAIN jobs : DOMAIN jobs'[n].items = DOMAIN jobs[n].items
        /\ \A n \in DOMAIN jobs : \A k \in DOMAIN jobs[n].items :
             /\ SameOrder(Item(n, k)', Item(n, k))
             /\ n # j \/ k # i => Item(n, k)' = Item(n, k)
             /\ Item(n, k)'.attempts = Item(n, k).attempts
    BY <1>0, <1>1, OrdersStay DEF OnlyItemChanges, Item
  <1>3. \A n \in DOMAIN jobs : n \in Nat /\ \A k \in DOMAIN jobs[n].items :
          k \in Nat /\ Item(n, k).attempts \in Nat
    BY <1>0, IdsExist, ItemAt DEF ItemsHaveIds, Items
  <1>4. JobsKept
    BY <1>2, <1>3 DEF JobsKept
  <1>5. /\ ListsFollow' /\ RunsAreKnown' /\ KnownWasSent'
        /\ BatchesCommit' /\ NothingProtected'
    BY <1>0, <1>4, CentralKeeps DEF Settle
  <1>6. OneAtATime'
    <2> SUFFICES ASSUME NEW n \in DOMAIN jobs', NEW m \in DOMAIN jobs', n < m,
                        NEW k \in DOMAIN jobs'[m].items, Item(m, k)'.attempts > 0
                 PROVE  jobs'[n].status \notin Unfinished
      BY DEF OneAtATime
    <2>1. n \in DOMAIN jobs /\ m \in DOMAIN jobs /\ k \in DOMAIN jobs[m].items
      BY <1>2
    <2>2. jobs[n].status \notin Unfinished
      BY <1>2, <2>1 DEF PlaneInv, OneAtATime
    <2>3. n # j
      BY <2>2 DEF PlaneInv, CallIsHead, IsHead, Pending
    <2>4. QED
      BY <1>2, <2>1, <2>2, <2>3
  <1>7. ~Calling'
    BY DEF Settle, Calling, WorkerIdle
  <1>8. CallIsHead' /\ WireIsCurrent' /\ WaitingAlone' /\ ReplyIsKnown'
    BY <1>7 DEF CallIsHead, WireIsCurrent, WaitingAlone, ReplyIsKnown
  <1>9. OkIsKnown'
    <2> SUFFICES ASSUME NEW n \in DOMAIN jobs', NEW k \in DOMAIN jobs'[n].items,
                        Item(n, k)'.status = "ok"
                 PROVE  KnownItem(n, k)'
      BY DEF OkIsKnown
    <2>1. n \in DOMAIN jobs /\ k \in DOMAIN jobs[n].items
      BY <1>2
    <2>2. KnownItem(n, k)
      <3>1. CASE n = j /\ k = i
        BY <1>1, <3>1 DEF Item
      <3>2. CASE n # j \/ k # i
        BY <1>2, <2>1, <3>2 DEF PlaneInv, OkIsKnown
      <3>3. QED
        BY <3>1, <3>2
    <2>3. QED
      BY <1>4, <2>1, <2>2, KeptItem DEF Settle, hostVars
  <1>10. QED
    BY <1>0, <1>5, <1>6, <1>8, <1>9 DEF PlaneInv, SafeFaults

LEMMA CallEnds ==
    ASSUME PlaneInv, Record \/ CallFails
    PROVE  PlaneInv'
  <1>1. CASE Record
    <2> DEFINE outcome == Outcome(Item(worker.job, worker.item), worker.reply)
    <2>1. /\ Calling /\ worker.reply # NoAnswer /\ Settle(outcome)
          /\ UNCHANGED <<wire, serving>>
      BY <1>1 DEF Record, Calling
    <2>2. wire' = {}
      BY <2>1 DEF PlaneInv, WaitingAlone
    <2>3. outcome = "ok" => KnownItem(worker.job, worker.item)
      BY <2>1, OutcomeType DEF Confirms, PlaneInv, ReplyIsKnown
    <2>4. outcome \in Open \cup Final
      BY OutcomeType
    <2> HIDE DEF outcome
    <2>5. QED
      BY <2>1, <2>2, <2>3, <2>4, SettleKeeps
  <1>2. CASE CallFails
    <2> DEFINE outcome == Retried(Item(worker.job, worker.item))
    <2>1. Calling /\ Settle(outcome) /\ HangUp /\ UNCHANGED serving
      BY <1>2 DEF CallFails, Calling
    <2>2. wire' = {}
      BY <2>1 DEF HangUp, PlaneInv, SafeFaults, WireIsCurrent
    <2>3. outcome \in Open \cup Final /\ outcome # "ok"
      BY OutcomeType DEF Open, Final
    <2> HIDE DEF outcome
    <2>4. QED
      BY <2>1, <2>2, <2>3, SettleKeeps
  <1>3. QED
    BY <1>1, <1>2

-----------------------------------------------------------------------------
(* Steps of the hosts: the jobs stay as they are.                          *)

(* No receipt is lost and none is new.                                     *)
ReceiptsSame ==
    \A s \in Sources : \A id \in RequestIds :
        (receipts'[s][id] # NoReceipt) <=> (receipts[s][id] # NoReceipt)

(* Rows are dropped only when they have expired or are protected.          *)
ListsDrop ==
    \A s \in Sources : \A k \in Keys :
        \/ blocks'[s][k] = blocks[s][k]
        \/ /\ blocks'[s][k] = Absent
           /\ "protect" \in Faults \/ (blocks[s][k] \in Times /\ blocks[s][k] <= clock)

LEMMA DesiredDrop ==
    ASSUME PlaneInv, NEW s \in Sources, NEW networks \in readings[s], NEW k \in Keys
    PROVE  \/ Desired(s, networks)[k] = blocks[s][k]
           \/ /\ Desired(s, networks)[k] = Absent
              /\ "protect" \in Faults \/ (blocks[s][k] \in Times /\ blocks[s][k] <= clock)
  <1>1. "protect" \notin Faults => networks = {}
    BY DEF PlaneInv, NothingProtected
  <1>2. QED
    BY <1>1 DEF Desired

(* A row that is dropped had expired, so what the list follows stays so.   *)
LEMMA FollowsStays ==
    ASSUME PlaneInv, UNCHANGED jobs, clock' \in Nat, clock' >= clock,
           NEW n \in DOMAIN jobs, NEW i \in DOMAIN jobs[n].items, Follows(n, i),
           \/ Persisted(n, i)' = Persisted(n, i)
           \/ /\ Persisted(n, i)' = Absent
              /\ "protect" \in Faults \/ (Persisted(n, i) \in Times /\ Persisted(n, i) <= clock)
    PROVE  Follows(n, i)'
  <1>0. clock \in Nat
    BY DEF PlaneInv, OrderInv, ControlTypeOK, TypeOK, Times
  <1>1. Item(n, i)'.action = Item(n, i).action /\ Item(n, i)'.expires = Item(n, i).expires
    BY DEF Item
  <1>2. Live(Item(n, i).expires)' =>
          /\ Live(Item(n, i).expires)
          /\ ~(Item(n, i).expires \in Times /\ Item(n, i).expires <= clock)
    BY <1>0, <1>1, SentinelAssumption DEF Live, Times
  <1>3. Item(n, i).action = "unban" => Persisted(n, i)' = Absent
    BY DEF Follows
  <1>4. Item(n, i).action = "ban" /\ Live(Item(n, i).expires)' /\ "protect" \notin Faults
          => Persisted(n, i)' = Item(n, i).expires
    BY <1>2 DEF Follows
  <1>5. QED
    BY <1>1, <1>3, <1>4 DEF Follows

LEMMA ListsKept ==
    ASSUME PlaneInv, UNCHANGED jobs, ReceiptsSame, ListsDrop, clock' \in Nat, clock' >= clock
    PROVE  ListsFollow' /\ KnownWasSent' /\ OkIsKnown' /\ OneAtATime'
  <1>0. OrderInv
    BY DEF PlaneInv
  <1>1. \A n \in DOMAIN jobs : \A i \in DOMAIN jobs[n].items :
          /\ Item(n, i)' = Item(n, i) /\ Item(n, i).source \in Sources
          /\ ItemKey(Item(n, i)) \in Keys /\ <<n, i>> \in RequestIds
          /\ n \in Nat /\ i \in Nat
    BY <1>0, IdsExist DEF ItemsHaveIds, Items, Item, ItemKey, Keys
  <1>2. \A n \in DOMAIN jobs : \A i \in DOMAIN jobs[n].items : KnownItem(n, i)' <=> KnownItem(n, i)
    BY <1>1 DEF ReceiptsSame, KnownItem
  <1>3. ListsFollow'
    <2> SUFFICES ASSUME NEW n \in DOMAIN jobs, NEW i \in DOMAIN jobs[n].items, LastKnown(n, i)'
                 PROVE  Follows(n, i)'
      BY DEF ListsFollow
    <2>1. LastKnown(n, i)
      <3>1. KnownItem(n, i)
        BY <1>2 DEF LastKnown
      <3>2. ASSUME NEW m \in DOMAIN jobs, NEW k \in DOMAIN jobs[m].items, m > n, KnownItem(m, k)
            PROVE  ~SameKey(m, k, n, i)
        <4>1. ~SameKey(m, k, n, i)'
          BY <1>2, <3>2 DEF LastKnown
        <4>2. QED
          BY <1>1, <4>1 DEF SameKey, ItemKey
      <3>3. QED
        BY <3>1, <3>2 DEF LastKnown
    <2>2. Follows(n, i)
      BY <2>1 DEF PlaneInv, ListsFollow
    <2>3. \/ Persisted(n, i)' = Persisted(n, i)
          \/ /\ Persisted(n, i)' = Absent
             /\ "protect" \in Faults \/ (Persisted(n, i) \in Times /\ Persisted(n, i) <= clock)
      BY <1>1 DEF ListsDrop, Persisted, ItemKey
    <2>4. QED
      BY <2>2, <2>3, FollowsStays
  <1>4. KnownWasSent'
    BY DEF PlaneInv, KnownWasSent, ReceiptsSame, Exists, Item
  <1>5. OkIsKnown'
    BY <1>1, <1>2 DEF PlaneInv, OkIsKnown
  <1>6. OneAtATime'
    BY DEF PlaneInv, OneAtATime, Item
  <1>7. QED
    BY <1>3, <1>4, <1>5, <1>6

(* The worker goes on waiting for the same call.                           *)
StillCalling ==
    /\ worker'.phase = worker.phase
    /\ Calling => worker'.job = worker.job /\ worker'.item = worker.item

LEMMA SessionsKept ==
    ASSUME PlaneInv, UNCHANGED jobs, StillCalling, wire' \subseteq wire
    PROVE  CallIsHead' /\ WireIsCurrent'
  <1>1. Calling' = Calling
    BY DEF StillCalling, Calling
  <1>2. CASE Calling
    <2>1. /\ Item(worker.job, worker.item)' = Item(worker.job, worker.item)
          /\ Request(worker.job, worker.item)' = Request(worker.job, worker.item)
          /\ CurrentCall' = CurrentCall
          /\ IsHead(worker.job)' = IsHead(worker.job)
      BY <1>2 DEF StillCalling, Item, Request, CurrentCall, Call, IsHead, Pending
    <2>2. QED
      BY <1>1, <1>2, <2>1 DEF PlaneInv, CallIsHead, WireIsCurrent
  <1>3. CASE ~Calling
    BY <1>1, <1>3 DEF PlaneInv, CallIsHead, WireIsCurrent
  <1>4. QED
    BY <1>2, <1>3

(* Runs that go on are runs of the same attempts.                          *)
RunsGoOn ==
    \A s \in Sources : Running(s)' =>
        Running(s) /\ helper'[s].req = helper[s].req /\ serving'[s] = serving[s]

LEMMA RunsKept ==
    ASSUME PlaneInv, UNCHANGED jobs, ReceiptsSame, RunsGoOn, wire' \subseteq wire
    PROVE  /\ RunsAreKnown'
           /\ \A s \in Sources : Running(s)' => \A m \in wire' : serving'[s] # m.call
  <1>1. RunsAreKnown'
    <2> SUFFICES ASSUME NEW s \in Sources, Running(s)'
                 PROVE  \E n, i, attempt \in Nat : RunIsOf(s, n, i, attempt)'
      BY DEF RunsAreKnown
    <2>1. Running(s) /\ helper'[s].req = helper[s].req /\ serving'[s] = serving[s]
      BY DEF RunsGoOn
    <2>2. PICK n, i, attempt \in Nat : RunIsOf(s, n, i, attempt)
      BY <2>1 DEF PlaneInv, RunsAreKnown
    <2>3. n \in DOMAIN jobs /\ i \in DOMAIN jobs[n].items
      BY <2>2 DEF RunIsOf, Exists
    <2>4. <<n, i>> \in RequestIds /\ Item(n, i)' = Item(n, i)
      BY <2>3, IdsExist DEF PlaneInv, ItemsHaveIds, Item
    <2>5. KnownItem(n, i)'
      BY <2>2, <2>4 DEF RunIsOf, KnownItem, ReceiptsSame
    <2>6. Request(n, i)' = Request(n, i)
      BY <2>4 DEF Request
    <2>7. RunIsOf(s, n, i, attempt)'
      BY <2>1, <2>2, <2>4, <2>5, <2>6 DEF RunIsOf, Exists, Call
    <2>8. QED
      BY <2>7
  <1>2. QED
    BY <1>1 DEF RunsGoOn, PlaneInv, WaitingAlone

(* A run that is served for a request has a receipt on its host.           *)
LEMMA RunHasReceipt ==
    ASSUME PlaneInv, NEW s \in Sources, Running(s)
    PROVE  /\ helper[s].req \in Requests
           /\ receipts[s][helper[s].req.id] # NoReceipt
  <1>1. PICK n, i, attempt \in Nat : RunIsOf(s, n, i, attempt)
    BY DEF PlaneInv, RunsAreKnown
  <1>2. /\ n \in DOMAIN jobs /\ i \in DOMAIN jobs[n].items /\ Item(n, i).source = s
        /\ helper[s].req = Request(n, i) /\ KnownItem(n, i)
    BY <1>1 DEF RunIsOf, Exists
  <1>3. Request(n, i) \in Requests
    BY <1>2, RequestType DEF PlaneInv
  <1>4. Request(n, i).id = <<n, i>>
    BY DEF Request
  <1>5. QED
    BY <1>2, <1>3, <1>4 DEF KnownItem

(* A run saves its outcome: the list stays, and so do the receipts.        *)
LEMMA FinishFacts ==
    ASSUME PlaneInv, NEW s \in Sources, helper[s] # Idle,
           NEW status \in {"ok", "uncertain", "error"}, Finish(s, blocks[s], status)
    PROVE  /\ blocks' = blocks /\ ReceiptsSame
           /\ helper' = [helper EXCEPT ![s] = Idle]
  <1>0. TypeOK
    BY DEF PlaneInv, OrderInv, ControlTypeOK
  <1>1. blocks' = blocks /\ helper' = [helper EXCEPT ![s] = Idle]
    BY <1>0 DEF Finish, TypeOK
  <1>2. ReceiptsSame
    <2>1. CASE helper[s].req = NoRequest
      BY <2>1 DEF Finish, ReceiptsSame
    <2>2. CASE helper[s].req # NoRequest
      <3>1. PICK req \in Requests : req = helper[s].req /\ receipts[s][req.id] # NoReceipt
        BY <2>2, RunHasReceipt DEF Running
      <3>2. receipts' = [receipts EXCEPT ![s][req.id] = [req |-> req, status |-> status]]
        BY <2>2, <3>1 DEF Finish
      <3>3. [req |-> req, status |-> status] # NoReceipt
        BY NoReceiptAssumption DEF Receipts
      <3>4. QED
        BY <1>0, <3>1, <3>2, <3>3 DEF ReceiptsSame, TypeOK
    <2>3. QED
      BY <2>1, <2>2
  <1>3. QED
    BY <1>1, <1>2

LEMMA RunStepFacts ==
    ASSUME PlaneInv, NEW s \in Sources, RunStep(s)
    PROVE  /\ clock' = clock /\ readings' = readings /\ blocks' = blocks /\ ReceiptsSame
           /\ \A t \in Sources : t # s => helper'[t] = helper[t] /\ table'[t] = table[t]
           /\ helper[s] # Idle
           /\ \/ helper'[s] = Idle
              \/ helper'[s] # Idle /\ helper'[s].req = helper[s].req /\ helper'[s].pc = "verify"
  <1>0. TypeOK /\ helper[s] # Idle /\ helper[s] \in Busied
    BY RunIsBusy, BusyRun DEF PlaneInv, OrderInv, ControlTypeOK
  <1>1. CASE Apply(s)
    <2>1. helper' = [helper EXCEPT ![s] = [helper[s] EXCEPT !.pc = "verify"]]
      BY <1>1 DEF Apply
    <2>2. /\ [helper[s] EXCEPT !.pc = "verify"].pc = "verify"
          /\ [helper[s] EXCEPT !.pc = "verify"].req = helper[s].req
      BY <1>0 DEF Busied
    <2>3. helper'[s].pc = "verify" /\ helper'[s].req = helper[s].req
      BY <1>0, <2>1, <2>2 DEF TypeOK
    <2>4. \A t \in Sources : t # s => helper'[t] = helper[t] /\ table'[t] = table[t]
      BY <1>0, <1>1 DEF TypeOK, Apply, Commit
    <2>5. QED
      BY <1>0, <1>1, <2>3, <2>4 DEF Apply, ReceiptsSame, Idle
  <1>2. CASE ApplyRefused(s)
    BY <1>2 DEF ApplyRefused, Committable, PlaneInv, SafeFaults, BatchesCommit
  <1>3. CASE ApplyTimeout(s)
    <2>1. \A t \in Sources : t # s => table'[t] = table[t]
      BY <1>0, <1>3 DEF TypeOK, ApplyTimeout, Commit
    <2>2. Finish(s, blocks[s], "uncertain")
      BY <1>3 DEF ApplyTimeout
    <2>3. blocks' = blocks /\ ReceiptsSame /\ helper' = [helper EXCEPT ![s] = Idle]
      BY <1>0, <2>2, FinishFacts
    <2>4. QED
      BY <1>0, <1>3, <2>1, <2>3 DEF ApplyTimeout, TypeOK
  <1>4. CASE Verify(s) \/ ReadbackFailed(s)
    <2>1. PICK status \in {"ok", "uncertain"} : Finish(s, blocks[s], status)
      BY <1>4 DEF Verify, ReadbackFailed
    <2>2. blocks' = blocks /\ ReceiptsSame /\ helper' = [helper EXCEPT ![s] = Idle]
      BY <1>0, <2>1, FinishFacts
    <2>3. QED
      BY <1>0, <1>4, <2>2 DEF Verify, ReadbackFailed, TypeOK
  <1>5. CASE ReadbackUnavailable(s)
    BY <1>5 DEF ReadbackUnavailable, PlaneInv, SafeFaults
  <1>6. CASE ControlFailed(s)
    BY <1>0, <1>6 DEF ControlFailed, ReceiptsSame, TypeOK
  <1>7. QED
    BY <1>1, <1>2, <1>3, <1>4, <1>5, <1>6 DEF RunStep

(* The worker has what it had.                                             *)
LEMMA WorkerSame ==
    ASSUME PlaneInv, UNCHANGED <<jobs, worker>>, ReceiptsSame, wire' \subseteq wire
    PROVE  /\ StillCalling /\ ReplyIsKnown'
           /\ Calling' /\ worker'.reply # NoAnswer => wire' = {}
  <1>1. StillCalling /\ Calling' = Calling
    BY DEF StillCalling, Calling
  <1>2. Calling' /\ worker'.reply # NoAnswer => wire' = {}
    BY <1>1 DEF PlaneInv, WaitingAlone
  <1>3. ReplyIsKnown'
    <2> SUFFICES ASSUME Calling', worker'.reply # NoAnswer, worker'.reply.status = "ok"
                 PROVE  KnownItem(worker.job, worker.item)'
      BY DEF ReplyIsKnown
    <2>1. /\ worker.job \in DOMAIN jobs /\ worker.item \in DOMAIN jobs[worker.job].items
          /\ KnownItem(worker.job, worker.item)
      BY <1>1 DEF PlaneInv, ReplyIsKnown, OrderInv, WorkerIsAtItem, Calling
    <2>2. /\ <<worker.job, worker.item>> \in RequestIds
          /\ Item(worker.job, worker.item) \in Items
      BY <2>1, IdsExist DEF PlaneInv, ItemsHaveIds
    <2>3. QED
      BY <2>1, <2>2 DEF KnownItem, Item, Items, ReceiptsSame
  <1>4. QED
    BY <1>1, <1>2, <1>3

(* The answer of a run arrives, if the worker still waits for that attempt.*)
LEMMA AnswerArrives ==
    ASSUME PlaneInv, OrderInv', UNCHANGED <<jobs, wire>>, ReceiptsSame,
           NEW s \in Sources, Running(s), Deliver(s, serving[s])
    PROVE  /\ StillCalling /\ ReplyIsKnown'
           /\ Calling' /\ worker'.reply # NoAnswer => wire' = {}
  <1>1. CASE worker' = worker
    BY <1>1, WorkerSame
  <1>2. CASE worker' # worker
    <2>1. Calling /\ CurrentCall = serving[s]
      BY <1>2 DEF Deliver, Calling
    <2>2. StillCalling
      BY <2>1, DeliverKeeps DEF PlaneInv, OrderInv, ControlTypeOK, StillCalling, Calling
    <2>3. PICK n, i, attempt \in Nat : RunIsOf(s, n, i, attempt)
      BY DEF PlaneInv, RunsAreKnown
    <2>4. worker.job = n /\ worker.item = i
      BY <2>1, <2>3 DEF RunIsOf, CurrentCall, Call
    <2>5. /\ n \in DOMAIN jobs /\ i \in DOMAIN jobs[n].items /\ KnownItem(n, i)
          /\ Item(n, i).source = s
      BY <2>3 DEF RunIsOf, Exists
    <2>6. KnownItem(n, i)'
      BY <2>5, IdsExist DEF PlaneInv, ItemsHaveIds, KnownItem, Item, ReceiptsSame
    <2>7. worker'.job = n /\ worker'.item = i
      BY <2>1, <2>2, <2>4 DEF StillCalling
    <2>8. ReplyIsKnown'
      BY <2>6, <2>7 DEF ReplyIsKnown, KnownItem, Item
    <2>9. wire = {}
      BY <2>1 DEF PlaneInv, WireIsCurrent, WaitingAlone
    <2>10. QED
      BY <2>2, <2>8, <2>9
  <1>3. QED
    BY <1>1, <1>2

(* What is left to show of a step of the hosts.                            *)
LEMMA HostKeeps ==
    ASSUME PlaneInv, OrderInv', UNCHANGED jobs, wire' \subseteq wire,
           ReceiptsSame, ListsDrop, clock' >= clock, RunsGoOn,
           StillCalling, ReplyIsKnown',
           Calling' /\ worker'.reply # NoAnswer => wire' = {},
           BatchesCommit', NothingProtected'
    PROVE  PlaneInv'
  <1>1. clock' \in Nat
    BY DEF OrderInv, ControlTypeOK, TypeOK, Times
  <1>2. ListsFollow' /\ KnownWasSent' /\ OkIsKnown' /\ OneAtATime'
    BY <1>1, ListsKept
  <1>3. CallIsHead' /\ WireIsCurrent'
    BY SessionsKept
  <1>4. RunsAreKnown' /\ WaitingAlone'
    BY RunsKept DEF WaitingAlone
  <1>5. QED
    BY <1>2, <1>3, <1>4 DEF PlaneInv, SafeFaults

(* A step of a run: the list it saved stays.                               *)
LEMMA HostStepKeeps ==
    ASSUME PlaneInv, NEW s \in Sources, HostStep(s)
    PROVE  PlaneInv'
  <1>0. OrderInv' /\ TypeOK /\ serving \in [Sources -> Calls \cup {NoCall}]
    BY HostOrder DEF PlaneInv, OrderInv, ControlTypeOK
  <1>1. UNCHANGED <<jobs, wire>> /\ RunStep(s)
    BY DEF HostStep, centralVars
  <1>2. /\ clock' = clock /\ readings' = readings /\ blocks' = blocks /\ ReceiptsSame
        /\ \A t \in Sources : t # s => helper'[t] = helper[t] /\ table'[t] = table[t]
        /\ helper[s] # Idle
        /\ \/ helper'[s] = Idle
           \/ helper'[s] # Idle /\ helper'[s].req = helper[s].req /\ helper'[s].pc = "verify"
    BY <1>1, RunStepFacts
  <1>3. /\ \A t \in Sources : t # s => serving'[t] = serving[t]
        /\ helper'[s] # Idle => serving'[s] = serving[s]
    BY <1>0 DEF HostStep
  <1>4. RunsGoOn
    BY <1>2, <1>3 DEF RunsGoOn, Running
  <1>5. /\ StillCalling /\ ReplyIsKnown'
        /\ Calling' /\ worker'.reply # NoAnswer => wire' = {}
    <2>1. worker' = worker \/ (Running(s) /\ Deliver(s, serving[s]))
      BY <1>2 DEF HostStep, Running
    <2>2. QED
      BY <1>0, <1>1, <1>2, <2>1, WorkerSame, AnswerArrives
  <1>6. BatchesCommit' /\ NothingProtected'
    BY <1>2 DEF PlaneInv, BatchesCommit, NothingProtected, Idle
  <1>7. clock' >= clock /\ ListsDrop
    BY <1>0, <1>2 DEF ListsDrop, TypeOK, Times
  <1>8. QED
    BY <1>0, <1>1, <1>2, <1>4, <1>5, <1>6, <1>7, HostKeeps

(* A restore drops only what has expired.                                  *)
LEMMA HostRestoreKeeps ==
    ASSUME PlaneInv, NEW s \in Sources, HostRestore(s)
    PROVE  PlaneInv'
  <1>0. OrderInv' /\ TypeOK
    BY HostOrder DEF PlaneInv, OrderInv, ControlTypeOK
  <1>1. /\ UNCHANGED <<jobs, wire, worker, serving, clock, readings, receipts, table>>
        /\ Restore(s)
    BY DEF HostRestore, centralVars, Restore
  <1>2. PICK networks \in readings[s] :
          /\ blocks' = [blocks EXCEPT ![s] = Desired(s, networks)]
          /\ helper' = [helper EXCEPT ![s] = Opened(s, NoRequest, networks)]
    BY <1>1 DEF Restore
  <1>3. ReceiptsSame /\ clock' >= clock
    BY <1>0, <1>1 DEF ReceiptsSame, TypeOK, Times
  <1>4. ListsDrop
    BY <1>0, <1>2, DesiredDrop DEF ListsDrop, TypeOK
  <1>5. /\ \A t \in Sources : t # s => helper'[t] = helper[t]
        /\ helper'[s] = Opened(s, NoRequest, networks)
    BY <1>0, <1>2 DEF TypeOK
  <1>6. helper'[s].req = NoRequest /\ (helper'[s].current => table[s] # NoTable)
    <2>1. /\ Opened(s, NoRequest, networks).req = NoRequest
          /\ Opened(s, NoRequest, networks).current = (table[s] # NoTable)
      BY DEF Opened
    <2>2. QED
      BY <1>5, <2>1
  <1>7. RunsGoOn
    BY <1>1, <1>5, <1>6 DEF RunsGoOn, Running
  <1>8. BatchesCommit' /\ NothingProtected'
    BY <1>1, <1>5, <1>6 DEF PlaneInv, BatchesCommit, NothingProtected
  <1>9. QED
    BY <1>0, <1>1, <1>3, <1>4, <1>7, <1>8, WorkerSame, HostKeeps

(* A crash or a reboot ends a run; a protection changes what runs read.    *)
LEMMA HostDisturbedKeeps ==
    ASSUME PlaneInv, NEW s \in Sources, HostDisturbed(s)
    PROVE  PlaneInv'
  <1>0. OrderInv' /\ TypeOK /\ serving \in [Sources -> Calls \cup {NoCall}]
    BY HostOrder DEF PlaneInv, OrderInv, ControlTypeOK
  <1>1. UNCHANGED <<jobs, wire, worker>> /\ Disturb(s)
    BY DEF HostDisturbed, centralVars
  <1>2. /\ UNCHANGED <<clock, blocks, receipts>>
        /\ \A t \in Sources : t # s => helper'[t] = helper[t] /\ table'[t] = table[t]
        /\ \/ helper'[s] = Idle
           \/ helper'[s] = helper[s] /\ table'[s] = table[s]
        /\ "protect" \notin Faults => readings' = readings
    <2>1. CASE Crash(s)
      BY <1>0, <2>1 DEF Crash, TypeOK
    <2>2. CASE Reboot(s)
      BY <1>0, <2>2 DEF Reboot, TypeOK
    <2>3. CASE Flush(s)
      BY <2>3 DEF Flush, PlaneInv, SafeFaults
    <2>4. ASSUME NEW ip \in IPs, Protect(s, ip)
          PROVE  /\ UNCHANGED <<clock, blocks, receipts, helper, table>>
                 /\ "protect" \in Faults
      BY <2>4 DEF Protect
    <2>5. QED
      BY <1>1, <2>1, <2>2, <2>3, <2>4 DEF Disturb
  <1>3. ReceiptsSame /\ clock' >= clock /\ ListsDrop
    BY <1>0, <1>2 DEF ReceiptsSame, ListsDrop, TypeOK, Times
  <1>4. /\ \A t \in Sources : t # s => serving'[t] = serving[t]
        /\ helper'[s] # Idle => serving'[s] = serving[s]
    BY <1>0 DEF HostDisturbed
  <1>5. RunsGoOn
    BY <1>2, <1>4 DEF RunsGoOn, Running
  <1>6. BatchesCommit' /\ NothingProtected'
    BY <1>2 DEF PlaneInv, BatchesCommit, NothingProtected, Idle
  <1>7. QED
    BY <1>0, <1>1, <1>3, <1>5, <1>6, WorkerSame, HostKeeps

(* Time only makes deadlines pass.                                         *)
LEMMA TimeKeeps ==
    ASSUME PlaneInv, TimePasses
    PROVE  PlaneInv'
  <1>0. OrderInv' /\ TypeOK /\ clock \in Nat
    BY OrderStep DEF PlaneInv, OrderInv, ControlTypeOK, TypeOK, Times, Next
  <1>1. /\ UNCHANGED <<jobs, wire, worker, serving, blocks, receipts, helper, readings>>
        /\ clock' = clock + 1
    BY DEF TimePasses, centralVars, Tick
  <1>2. \A t \in Sources : table'[t] = NoTable => table[t] = NoTable
    <2> SUFFICES ASSUME NEW t \in Sources, table[t] # NoTable
                 PROVE  table'[t] # NoTable
      OBVIOUS
    <2> DEFINE list == [k \in Keys |-> IF table[t][k] \in Times /\ table[t][k] <= clock + 1
                                      THEN Absent ELSE table[t][k]]
    <2>1. table'[t] = list
      BY DEF TimePasses, Tick
    <2>2. table[t] \in [Keys -> Deadlines \cup {Absent}]
      BY <1>0 DEF TypeOK, BlockLists
    <2>3. list \in BlockLists
      BY <2>2 DEF BlockLists
    <2>4. QED
      BY <2>1, <2>3, NoTableAssumption
  <1>3. ReceiptsSame /\ clock' >= clock /\ ListsDrop /\ RunsGoOn
    BY <1>0, <1>1 DEF ReceiptsSame, ListsDrop, RunsGoOn, Running
  <1>4. BatchesCommit' /\ NothingProtected'
    BY <1>1, <1>2 DEF PlaneInv, BatchesCommit, NothingProtected
  <1>5. QED
    BY <1>0, <1>1, <1>3, <1>4, WorkerSame, HostKeeps

-----------------------------------------------------------------------------
(* A session comes to its host.                                            *)

(* It is that of the worker's call.                                        *)
LEMMA ArrivingCall ==
    ASSUME PlaneInv, NEW m \in wire
    PROVE  /\ Calling /\ wire = {m} /\ worker.reply = NoAnswer
           /\ worker.job \in DOMAIN jobs /\ worker.item \in DOMAIN jobs[worker.job].items
           /\ m.source = Item(worker.job, worker.item).source /\ m.source \in Sources
           /\ m.req = Request(worker.job, worker.item) /\ m.req \in Requests
           /\ m.req.id = <<worker.job, worker.item>>
           /\ m.call = CurrentCall
  <1>1. /\ Calling
        /\ m = [source |-> Item(worker.job, worker.item).source,
                req |-> Request(worker.job, worker.item), call |-> CurrentCall]
    BY DEF PlaneInv, WireIsCurrent
  <1>2. wire = {m}
    BY <1>1 DEF PlaneInv, WireIsCurrent
  <1>3. worker.job \in DOMAIN jobs /\ worker.item \in DOMAIN jobs[worker.job].items
    BY <1>1 DEF PlaneInv, OrderInv, WorkerIsAtItem, Calling
  <1>4. Request(worker.job, worker.item) \in Requests
    BY <1>3, RequestType DEF PlaneInv
  <1>5. Item(worker.job, worker.item).source \in Sources
    BY <1>3, IdsExist DEF PlaneInv, ItemsHaveIds, Items
  <1>6. Request(worker.job, worker.item).id = <<worker.job, worker.item>>
    BY DEF Request
  <1>7. worker.reply = NoAnswer
    BY <1>1, <1>2 DEF PlaneInv, WaitingAlone
  <1>8. QED
    BY <1>1, <1>2, <1>3, <1>4, <1>5, <1>6, <1>7

(* It is answered at once: with a success only if there is a receipt.      *)
LEMMA AnsweredAtOnce ==
    ASSUME PlaneInv, OrderInv', NEW m \in wire, UNCHANGED <<jobs, serving>>, wire' = wire \ {m},
           \/ Refuse(m.source, m.req) \/ StoreFails(m.source, m.req)
           \/ Busy(m.source, m.req) \/ Replay(m.source, m.req),
           Deliver(m.source, m.call)
    PROVE  PlaneInv'
  <1> DEFINE s == m.source
             j == worker.job
             i == worker.item
  <1>0. TypeOK /\ worker \in WorkerStates
    BY DEF PlaneInv, OrderInv, ControlTypeOK
  <1>1. /\ Calling /\ wire = {m} /\ worker.reply = NoAnswer
        /\ j \in DOMAIN jobs /\ i \in DOMAIN jobs[j].items
        /\ s = Item(j, i).source /\ s \in Sources /\ m.req \in Requests
        /\ m.req.id = <<j, i>>
    BY ArrivingCall
  <1>2. UNCHANGED <<clock, readings, blocks, receipts, table, helper>>
    BY DEF Refuse, StoreFails, Busy, Replay
  <1>3. StillCalling
    BY <1>0, <1>1, DeliverKeeps DEF OrderInv, ControlTypeOK, StillCalling, Calling
  <1>4. ReplyIsKnown'
    <2> SUFFICES ASSUME worker'.reply # NoAnswer, worker'.reply.status = "ok"
                 PROVE  KnownItem(worker.job, worker.item)'
      BY DEF ReplyIsKnown
    <2>1. worker'.reply = answer'[s]
      BY <1>0, <1>1, DeliverKeeps DEF OrderInv, ControlTypeOK, Calling
    <2>2. Replay(s, m.req)
      <3>1. ASSUME NEW status \in {"rejected", "error"},
                   answer' = [answer EXCEPT ![s] = Reply(m.req, status)]
            PROVE  FALSE
        <4>1. answer'[s].status = status
          BY <1>0, <1>1, <3>1 DEF TypeOK, Reply
        <4>2. QED
          BY <2>1, <4>1
      <3>2. QED
        BY <3>1 DEF Refuse, StoreFails, Busy
    <2>3. KnownItem(j, i)
      BY <1>1, <2>2 DEF Replay, Known, KnownItem
    <2>4. QED
      BY <1>1, <1>2, <1>3, <2>3 DEF KnownItem, Item, StillCalling
  <1>5. ReceiptsSame /\ clock' >= clock /\ ListsDrop /\ RunsGoOn
    BY <1>0, <1>2 DEF ReceiptsSame, ListsDrop, RunsGoOn, Running, TypeOK, Times
  <1>6. BatchesCommit' /\ NothingProtected'
    BY <1>2 DEF PlaneInv, BatchesCommit, NothingProtected
  <1>7. wire' = {}
    BY <1>1
  <1>8. QED
    BY <1>3, <1>4, <1>5, <1>6, <1>7, HostKeeps

(* Or its run begins.  An operation is applied when its receipt is new;    *)
(* then it is of the oldest unfinished job, so of the last on its key.     *)
LEMMA NewOperation ==
    ASSUME PlaneInv, OrderInv', UNCHANGED <<jobs, clock>>,
           NEW s \in Sources, NEW j \in DOMAIN jobs, NEW i \in DOMAIN jobs[j].items,
           NEW networks \in readings[s],
           s = Item(j, i).source, IsHead(j), ~KnownItem(j, i),
           \A t \in Sources : \A id \in RequestIds :
               (receipts'[t][id] # NoReceipt) <=>
                   (receipts[t][id] # NoReceipt \/ (t = s /\ id = <<j, i>>)),
           blocks' = [blocks EXCEPT ![s] = [Desired(s, networks) EXCEPT
                                              ![ItemKey(Item(j, i))] = Item(j, i).expires]]
    PROVE  ListsFollow'
  <1> DEFINE key == ItemKey(Item(j, i))
             d == Item(j, i).expires
  <1>0. TypeOK /\ OrderInv /\ clock' \in Nat /\ clock' >= clock
    BY DEF PlaneInv, OrderInv, ControlTypeOK, TypeOK, Times
  <1>1. \A n \in DOMAIN jobs : \A k \in DOMAIN jobs[n].items :
          /\ Item(n, k)' = Item(n, k) /\ Item(n, k).source \in Sources
          /\ ItemKey(Item(n, k)) \in Keys /\ <<n, k>> \in RequestIds
          /\ n \in Nat /\ k \in Nat
    BY <1>0, IdsExist DEF ItemsHaveIds, Items, Item, ItemKey, Keys
  <1>2. \A n \in DOMAIN jobs : \A k \in DOMAIN jobs[n].items :
          KnownItem(n, k)' <=> (KnownItem(n, k) \/ (n = j /\ k = i))
    <2> SUFFICES ASSUME NEW n \in DOMAIN jobs, NEW k \in DOMAIN jobs[n].items
                 PROVE  KnownItem(n, k)' <=> (KnownItem(n, k) \/ (n = j /\ k = i))
      OBVIOUS
    <2>1. <<n, k>> = <<j, i>> <=> (n = j /\ k = i)
      OBVIOUS
    <2>2. QED
      BY <1>1, <2>1 DEF KnownItem
  <1>3. blocks[s] \in [Keys -> Deadlines \cup {Absent}]
        /\ Desired(s, networks) \in [Keys -> Deadlines \cup {Absent}]
    BY <1>0, DesiredType DEF TypeOK, BlockLists
  <1>4. /\ \A t \in Sources : t # s => blocks'[t] = blocks[t]
        /\ blocks'[s][key] = d
        /\ \A k \in Keys : k # key => blocks'[s][k] = Desired(s, networks)[k]
    <2>1. key \in Keys /\ blocks \in [Sources -> BlockLists]
      BY <1>0, <1>1 DEF TypeOK
    <2>2. blocks' = [blocks EXCEPT ![s] = [Desired(s, networks) EXCEPT ![key] = d]]
      OBVIOUS
    <2> HIDE DEF key, d
    <2>3. QED
      BY <1>3, <2>1, <2>2
  <1> SUFFICES ASSUME NEW n \in DOMAIN jobs, NEW k \in DOMAIN jobs[n].items, LastKnown(n, k)'
               PROVE  Follows(n, k)'
    BY DEF ListsFollow
  <1>n. n \in Nat /\ j \in Nat
    BY <1>1
  <1>5. SameKey(n, k, j, i)' = SameKey(n, k, j, i)
    BY <1>1 DEF SameKey, ItemKey
  <1>6. CASE SameKey(n, k, j, i)
    <2>1. ~(n < j)
      <3>1. SameKey(j, i, n, k)'
        BY <1>5, <1>6 DEF SameKey
      <3>2. KnownItem(j, i)'
        BY <1>2
      <3>3. QED
        BY <3>1, <3>2 DEF LastKnown
    <2>2. ~(n > j)
      <3> SUFFICES ASSUME n > j PROVE FALSE
        OBVIOUS
      <3>1. KnownItem(n, k)
        <4>1. n # j
          BY <1>n
        <4>2. QED
          BY <1>2, <4>1 DEF LastKnown
      <3>2. Item(n, k).attempts > 0
        BY <1>1, <3>1 DEF KnownItem, PlaneInv, KnownWasSent
      <3>3. jobs[j].status \notin Unfinished
        BY <1>1, <3>2 DEF PlaneInv, OneAtATime
      <3>4. QED
        BY <3>3 DEF IsHead, Pending
    <2>3. n = j
      BY <1>n, <2>1, <2>2
    <2>4. /\ Item(n, k).action = Item(j, i).action /\ Item(n, k).expires = d
          /\ Item(j, i).action = "unban" => d = Absent
      BY <1>0, <2>3 DEF OrderInv, JobsAreOrders, ItemsOfOneOrder, Item
    <2>5. Persisted(n, k)' = d
      BY <1>1, <1>4, <1>6 DEF Persisted, SameKey
    <2>6. Item(n, k)'.action = Item(n, k).action /\ Item(n, k)'.expires = Item(n, k).expires
      BY <1>1
    <2>7. QED
      BY <2>4, <2>5, <2>6 DEF Follows
  <1>7. CASE ~SameKey(n, k, j, i)
    <2>1. LastKnown(n, k)
      <3>1. KnownItem(n, k)
        BY <1>2, <1>7 DEF LastKnown, SameKey
      <3>2. ASSUME NEW m \in DOMAIN jobs, NEW l \in DOMAIN jobs[m].items, m > n, KnownItem(m, l)
            PROVE  ~SameKey(m, l, n, k)
        <4>1. ~SameKey(m, l, n, k)'
          BY <1>2, <3>2 DEF LastKnown
        <4>2. QED
          BY <1>1, <4>1 DEF SameKey, ItemKey
      <3>3. QED
        BY <3>1, <3>2 DEF LastKnown
    <2>2. Follows(n, k)
      BY <2>1 DEF PlaneInv, ListsFollow
    <2>3. \/ Persisted(n, k)' = Persisted(n, k)
          \/ /\ Persisted(n, k)' = Absent
             /\ "protect" \in Faults \/ (Persisted(n, k) \in Times /\ Persisted(n, k) <= clock)
      <3>1. CASE Item(n, k).source # s
        BY <1>1, <1>4, <3>1 DEF Persisted, ItemKey
      <3>2. CASE Item(n, k).source = s
        <4>1. ItemKey(Item(n, k)) # key /\ ItemKey(Item(n, k)) \in Keys
          BY <1>1, <1>7, <3>2 DEF SameKey
        <4>2. PICK x \in Keys : x = ItemKey(Item(n, k))
          BY <4>1
        <4>3. blocks'[s][x] = Desired(s, networks)[x]
          BY <1>4, <4>1, <4>2
        <4>4. /\ Persisted(n, k)' = Desired(s, networks)[x]
              /\ Persisted(n, k) = blocks[s][x]
          BY <1>1, <3>2, <4>2, <4>3 DEF Persisted, ItemKey
        <4>5. QED
          BY <4>4, DesiredDrop
      <3>3. QED
        BY <3>1, <3>2
    <2>4. QED
      BY <1>0, <2>2, <2>3, FollowsStays
  <1>8. QED
    BY <1>6, <1>7

LEMMA BeginKeeps ==
    ASSUME PlaneInv, OrderInv', NEW m \in wire, UNCHANGED <<jobs, worker>>, wire' = wire \ {m},
           Begin(m.source, m.req), serving' = [serving EXCEPT ![m.source] = m.call]
    PROVE  PlaneInv'
  <1> DEFINE s == m.source
             j == worker.job
             i == worker.item
  <1>0. /\ TypeOK /\ OrderInv /\ serving \in [Sources -> Calls \cup {NoCall}]
        /\ clock \in Nat
    BY DEF PlaneInv, OrderInv, ControlTypeOK, TypeOK, Times
  <1>1. /\ Calling /\ wire = {m}
        /\ j \in DOMAIN jobs /\ i \in DOMAIN jobs[j].items
        /\ s = Item(j, i).source /\ s \in Sources
        /\ m.req = Request(j, i) /\ m.req \in Requests
        /\ m.req.id = <<j, i>> /\ m.call = CurrentCall
    BY ArrivingCall
  <1>2. /\ IsHead(j) /\ Item(j, i).attempts > 0 /\ Item(j, i) \in Items
        /\ j \in Nat /\ i \in Nat /\ <<j, i>> \in RequestIds
    BY <1>0, <1>1, IdsExist DEF PlaneInv, CallIsHead, ItemsHaveIds
  <1>3. /\ Key(m.req) = ItemKey(Item(j, i)) /\ m.req.expires = Item(j, i).expires
    BY <1>1 DEF Request, Key, ItemKey
  <1>4. UNCHANGED <<clock, readings, table>> /\ wire' = {}
    BY <1>1 DEF Begin
  <1>5. PICK networks \in readings[s] :
          /\ blocks' = [blocks EXCEPT ![s] = Wanted(s, m.req, networks)]
          /\ helper' = [helper EXCEPT ![s] = Opened(s, m.req, networks)]
    BY DEF Begin
  <1>6. receipts' = [receipts EXCEPT ![s][<<j, i>>] = [req |-> m.req, status |-> "uncertain"]]
    BY <1>1 DEF Begin
  <1>7. \A t \in Sources : \A id \in RequestIds :
          (receipts'[t][id] # NoReceipt) <=>
              (receipts[t][id] # NoReceipt \/ (t = s /\ id = <<j, i>>))
    <2>1. PICK receipt : receipt = [req |-> m.req, status |-> "uncertain"]
      OBVIOUS
    <2>2. receipt # NoReceipt
      BY <1>1, <2>1, NoReceiptAssumption DEF Receipts
    <2>3. receipts' = [receipts EXCEPT ![s][<<j, i>>] = receipt]
      BY <1>6, <2>1
    <2>4. PICK id0 \in RequestIds : id0 = <<j, i>>
      BY <1>2
    <2>5. receipts' = [receipts EXCEPT ![s][id0] = receipt]
      BY <2>3, <2>4
    <2>6. \A t \in Sources : \A id \in RequestIds :
            receipts'[t][id] = IF t = s /\ id = id0 THEN receipt ELSE receipts[t][id]
      <3>1. receipts \in [Sources -> [RequestIds -> Receipts \cup {NoReceipt}]] /\ s \in Sources
        BY <1>0, <1>1 DEF TypeOK
      <3> HIDE DEF s
      <3>2. QED
        BY <2>5, <3>1
    <2>7. QED
      BY <2>2, <2>4, <2>6
  <1>8. ListsFollow'
    <2>1. CASE Reconciles(s, m.req)
      <3>1. receipts[s][<<j, i>>] # NoReceipt
        BY <1>1, <2>1 DEF Reconciles, Known
      <3>2. ReceiptsSame
        BY <1>7, <3>1 DEF ReceiptsSame
      <3>3. blocks' = [blocks EXCEPT ![s] = Desired(s, networks)]
        BY <1>5, <2>1 DEF Wanted
      <3>4. ListsDrop
        BY <1>0, <1>1, <3>3, DesiredDrop DEF ListsDrop, TypeOK
      <3>5. QED
        BY <1>0, <1>4, <3>2, <3>4, ListsKept
    <2>2. CASE ~Reconciles(s, m.req)
      <3>1. ~KnownItem(j, i)
        BY <1>1, <2>2 DEF Begin, Known, KnownItem
      <3>2. blocks' = [blocks EXCEPT ![s] = [Desired(s, networks) EXCEPT
                                               ![ItemKey(Item(j, i))] = Item(j, i).expires]]
        BY <1>3, <1>5, <2>2 DEF Wanted
      <3> HIDE DEF j, i, s
      <3>3. QED
        BY <1>1, <1>2, <1>4, <1>7, <3>1, <3>2, NewOperation
    <2>3. QED
      BY <2>1, <2>2
  <1>9. \A n \in DOMAIN jobs : \A k \in DOMAIN jobs[n].items :
          Item(n, k)' = Item(n, k) /\ (KnownItem(n, k) => KnownItem(n, k)')
    BY <1>0, <1>7, IdsExist DEF ItemsHaveIds, Items, Item, KnownItem
  <1>10. KnownItem(j, i)'
    BY <1>1, <1>2, <1>7 DEF KnownItem, Item
  <1>11. KnownWasSent'
    <2> SUFFICES ASSUME NEW t \in Sources, NEW n \in Nat, NEW k \in Nat,
                        <<n, k>> \in RequestIds, receipts'[t][<<n, k>>] # NoReceipt
                 PROVE  Exists(n, k)' /\ Item(n, k)'.attempts > 0
      BY DEF KnownWasSent
    <2>1. receipts[t][<<n, k>>] # NoReceipt \/ (n = j /\ k = i)
      BY <1>7
    <2>2. Exists(n, k) /\ Item(n, k).attempts > 0
      BY <1>1, <1>2, <2>1 DEF PlaneInv, KnownWasSent, Exists
    <2>3. QED
      BY <2>2 DEF Exists, Item
  <1>12. OkIsKnown' /\ OneAtATime'
    BY <1>9 DEF PlaneInv, OkIsKnown, OneAtATime, Item
  <1>13. CallIsHead' /\ WireIsCurrent'
    BY <1>4, SessionsKept DEF StillCalling
  <1>14. ReplyIsKnown'
    BY <1>10 DEF ReplyIsKnown, KnownItem, Item
  <1>15. WaitingAlone'
    BY <1>4 DEF WaitingAlone
  <1>16. \A t \in Sources : t # s => helper'[t] = helper[t] /\ serving'[t] = serving[t]
    BY <1>0, <1>1, <1>5 DEF TypeOK
  <1>17. /\ helper'[s] = Opened(s, m.req, networks) /\ serving'[s] = m.call
         /\ Opened(s, m.req, networks).req = m.req
         /\ Opened(s, m.req, networks).current = (table[s] # NoTable)
    <2>1. helper'[s] = Opened(s, m.req, networks) /\ serving'[s] = m.call
      BY <1>0, <1>1, <1>5 DEF TypeOK
    <2>2. /\ Opened(s, m.req, networks).req = m.req
          /\ Opened(s, m.req, networks).current = (table[s] # NoTable)
      BY DEF Opened
    <2>3. QED
      BY <2>1, <2>2
  <1>18. RunsAreKnown'
    <2> SUFFICES ASSUME NEW t \in Sources, Running(t)'
                 PROVE  \E n, k, attempt \in Nat : RunIsOf(t, n, k, attempt)'
      BY DEF RunsAreKnown
    <2>1. CASE t = s
      <3>1. PICK attempt \in Nat : attempt = Item(j, i).attempts
        BY <1>2 DEF Items
      <3>2. Item(j, i)' = Item(j, i) /\ Request(j, i)' = Request(j, i)
        BY DEF Item, Request
      <3>3. PICK n \in Nat, k \in Nat : n = j /\ k = i
        BY <1>2
      <3>4. /\ Exists(n, k)' /\ Item(n, k)'.source = t /\ KnownItem(n, k)'
            /\ attempt <= Item(n, k)'.attempts /\ Request(n, k)' = m.req
        <4>1. Exists(n, k)'
          BY <1>1, <3>3 DEF Exists
        <4>2. Item(n, k)'.source = t
          BY <1>1, <2>1, <3>2, <3>3
        <4>3. KnownItem(n, k)'
          BY <1>10, <3>3
        <4>4. attempt <= Item(n, k)'.attempts
          BY <3>1, <3>2, <3>3
        <4>5. Request(n, k)' = m.req
          BY <1>1, <3>2, <3>3
        <4>6. QED
          BY <4>1, <4>2, <4>3, <4>4, <4>5
      <3>5. serving'[t] = Call(n, k, attempt)'
        BY <1>1, <1>17, <2>1, <3>1, <3>3 DEF Call, CurrentCall
      <3>6. RunIsOf(t, n, k, attempt)'
        BY <1>17, <2>1, <3>4, <3>5 DEF RunIsOf
      <3>7. QED
        BY <3>6
    <2>2. CASE t # s
      <3>1. Running(t) /\ helper'[t] = helper[t] /\ serving'[t] = serving[t]
        BY <1>16, <2>2 DEF Running
      <3>2. PICK n, k, attempt \in Nat : RunIsOf(t, n, k, attempt)
        BY <3>1 DEF PlaneInv, RunsAreKnown
      <3>3. n \in DOMAIN jobs /\ k \in DOMAIN jobs[n].items
        BY <3>2 DEF RunIsOf, Exists
      <3>4. Item(n, k)' = Item(n, k) /\ KnownItem(n, k)' /\ Request(n, k)' = Request(n, k)
        BY <1>9, <3>2, <3>3 DEF RunIsOf, Request
      <3>5. RunIsOf(t, n, k, attempt)'
        BY <3>1, <3>2, <3>4 DEF RunIsOf, Exists, Call
      <3>6. QED
        BY <3>5
    <2>3. QED
      BY <2>1, <2>2
  <1>19. BatchesCommit' /\ NothingProtected'
    BY <1>4, <1>16, <1>17 DEF PlaneInv, BatchesCommit, NothingProtected
  <1>20. QED
    BY <1>8, <1>11, <1>12, <1>13, <1>14, <1>15, <1>18, <1>19 DEF PlaneInv, SafeFaults

LEMMA ArriveKeeps ==
    ASSUME PlaneInv, NEW m \in wire, Arrive(m)
    PROVE  PlaneInv'
  <1>1. OrderInv'
    BY ArriveOrder DEF PlaneInv
  <1>2. UNCHANGED jobs /\ wire' = wire \ {m}
    BY DEF Arrive, centralVars
  <1>3. QED
    BY <1>1, <1>2, AnsweredAtOnce, BeginKeeps DEF Arrive

-----------------------------------------------------------------------------
(* The theorems.                                                           *)

LEMMA PlaneStep ==
    ASSUME PlaneInv, [Next]_vars
    PROVE  PlaneInv'
  <1>1. CASE OperatorStep
    BY <1>1, QueueStep DEF OperatorStep
  <1>2. CASE WorkerStep
    BY <1>2, TakeKeeps, CallEnds, ReadingKeeps DEF WorkerStep
  <1>3. CASE Restart
    BY <1>3, ReadingKeeps
  <1>4. CASE \E j \in DOMAIN jobs : LeaseExpires(j)
    BY <1>4, QueueStep
  <1>5. CASE \E m \in wire : Arrive(m)
    BY <1>5, ArriveKeeps
  <1>6. CASE \E s \in Sources : HostRestore(s) \/ HostStep(s) \/ HostDisturbed(s)
    BY <1>6, HostRestoreKeeps, HostStepKeeps, HostDisturbedKeeps
  <1>7. CASE TimePasses
    BY <1>7, TimeKeeps
  <1>8. CASE UNCHANGED vars
    <2>1. OrderInv'
      BY <1>8, OrderStep DEF PlaneInv
    <2>2. UNCHANGED <<hostVars, serving, worker, wire, jobs>>
      BY <1>8 DEF vars, centralVars
    <2>3. QED
      BY <2>1, <2>2, QueueKeeps
  <1>9. QED
    BY <1>1, <1>2, <1>3, <1>4, <1>5, <1>6, <1>7, <1>8 DEF Next

LEMMA PlaneInit ==
    ASSUME Init, SafeFaults
    PROVE  PlaneInv
  <1>1. OrderInv
    BY OrderInit
  <1>2. \A s \in Sources : helper[s] = Idle /\ readings[s] = {{}}
    BY DEF Init, HostInit
  <1>3. RunsAreKnown /\ WaitingAlone /\ BatchesCommit /\ NothingProtected
    BY <1>2 DEF Init, RunsAreKnown, Running, WaitingAlone, BatchesCommit, NothingProtected,
               Idle, Calling, WorkerIdle
  <1>4. KnownWasSent
    BY DEF Init, HostInit, KnownWasSent
  <1>5. ListsFollow /\ OneAtATime /\ OkIsKnown
    BY DEF Init, ListsFollow, OneAtATime, OkIsKnown
  <1>6. CallIsHead /\ WireIsCurrent /\ ReplyIsKnown
    BY DEF Init, WorkerIdle, Calling, CallIsHead, WireIsCurrent, ReplyIsKnown
  <1>7. QED
    BY <1>1, <1>3, <1>4, <1>5, <1>6 DEF PlaneInv

LEMMA PlaneAlways == SafeFaults /\ Spec => []PlaneInv
  <1>1. SafeFaults /\ Init => PlaneInv
    BY PlaneInit
  <1>2. PlaneInv /\ [Next]_vars => PlaneInv'
    BY PlaneStep
  <1>3. QED
    BY <1>1, <1>2, PTL DEF Spec

(* The newest operation sent on a key is the last known on it, if known.   *)
LEMMA NewestIsLast ==
    ASSUME PlaneInv, NEW n \in DOMAIN jobs, NEW i \in DOMAIN jobs[n].items,
           Item(n, i).status = "ok", Newest(n, i)
    PROVE  Follows(n, i)
  <1>1. KnownItem(n, i)
    BY DEF PlaneInv, OkIsKnown
  <1>2. ASSUME NEW m \in DOMAIN jobs, NEW k \in DOMAIN jobs[m].items, m > n, KnownItem(m, k)
        PROVE  ~SameKey(m, k, n, i)
    <2>1. /\ m \in Nat /\ k \in Nat /\ <<m, k>> \in RequestIds
          /\ Item(m, k).source \in Sources
      BY IdsExist DEF PlaneInv, ItemsHaveIds, Items
    <2>2. Item(m, k).attempts > 0
      BY <1>2, <2>1 DEF PlaneInv, KnownWasSent, KnownItem
    <2>3. QED
      BY <1>2, <2>2 DEF Newest, SameKey
  <1>3. QED
    BY <1>1, <1>2 DEF PlaneInv, ListsFollow, LastKnown

(* "An uncertain old add cannot race a newer unban": under every           *)
(* interleaving, lost answer, retry, crash, reboot, restore, timeout and   *)
(* failed readback, a verified unban stays in force until a newer          *)
(* operation on its key is sent.                                           *)
THEOREM NoOldAddRaces == SafeFaults /\ Spec => []OldAddCannotRaceNewerUnban
  <1>1. PlaneInv => OldAddCannotRaceNewerUnban
    BY NewestIsLast DEF OldAddCannotRaceNewerUnban, Follows
  <1>2. QED
    BY <1>1, PlaneAlways, PTL

(* A verified ban stays saved with the deadline the operator confirmed,    *)
(* until it expires or a newer operation on its key is sent, as long as    *)
(* the host comes to protect no address (which drops its bans).            *)
NoProtection == "protect" \notin Faults
THEOREM VerifiedBanStays == NoProtection /\ SafeFaults /\ Spec => []VerifiedBanIsPersisted
  <1>1. NoProtection /\ PlaneInv => VerifiedBanIsPersisted
    BY NewestIsLast DEF NoProtection, VerifiedBanIsPersisted, Follows
  <1>2. NoProtection => []NoProtection
    <2>1. NoProtection => NoProtection'
      BY DEF NoProtection
    <2>2. QED
      BY <2>1, PTL
  <1>3. QED
    BY <1>1, <1>2, PlaneAlways, PTL

=============================================================================

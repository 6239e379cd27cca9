------------------------ MODULE HostAnyCallerProofs ------------------------
(***************************************************************************)
(* Proofs about the block helper with the most general caller: type        *)
(* correctness, the safety invariants and the implementation of the        *)
(* register, for every set of sources, addresses, channels, requests and   *)
(* failures.                                                               *)
(***************************************************************************)
EXTENDS HostAnyCaller, HostLemmas

(* Every step keeps the types.                                             *)
LEMMA TypeStep ==
    ASSUME TypeOK, [Next]_hostVars
    PROVE  TypeOK'
  <1>1. ASSUME NEW s \in Sources, NEW req \in Calls, Receive(s, req)
        PROVE  TypeOK'
    BY <1>1, ReceiveType, CallsAssumption DEF Receive
  <1>2. ASSUME NEW s \in Sources, Restore(s) \/ RunStep(s) \/ Disturb(s)
        PROVE  TypeOK'
    BY <1>2, RestoreType, RunStepType, DisturbType
  <1>3. CASE Tick
    BY <1>3, TickType
  <1>4. CASE UNCHANGED hostVars
    BY <1>4 DEF hostVars, TypeOK
  <1>5. QED
    BY <1>1, <1>2, <1>3, <1>4 DEF Next

(* Every reachable state of the helper is well typed.                      *)
THEOREM TypeCorrect == Spec => []TypeOK
  <1>1. HostInit => TypeOK
    BY TypeInit
  <1>2. TypeOK /\ [Next]_hostVars => TypeOK'
    BY TypeStep
  <1>3. QED
    BY <1>1, <1>2, PTL DEF Spec

-----------------------------------------------------------------------------
(* Deadlines are original.  The invariant is not inductive: a refused      *)
(* batch brings back the list a run found, and a run writes the receipt of *)
(* its request again.                                                      *)

(* A receipt stays, and stays the receipt of the same request.             *)
ReceiptsKept ==
    \A s \in Sources : \A id \in RequestIds :
        receipts[s][id] # NoReceipt =>
            receipts'[s][id] # NoReceipt /\ receipts'[s][id].req = receipts[s][id].req

(* The entries of the list a run found were accepted, and the receipt of   *)
(* its request is the one it saved when it began.                          *)
RunIsOriginal(s) ==
    helper[s] # Idle =>
        /\ \A k \in Keys : helper[s].previous[k] # Absent =>
                             Accepted(s, k, helper[s].previous[k])
        /\ helper[s].req # NoRequest =>
             /\ receipts[s][helper[s].req.id] # NoReceipt
             /\ receipts[s][helper[s].req.id].req = helper[s].req

OriginInv == DeadlinesAreOriginal /\ \A s \in Sources : RunIsOriginal(s)

(* What was accepted stays accepted.                                       *)
LEMMA AcceptedStays ==
    ASSUME ReceiptsKept, NEW s \in Sources, NEW k, NEW d, Accepted(s, k, d)
    PROVE  Accepted(s, k, d)'
  BY DEF ReceiptsKept, Accepted

(* The wanted list adds nothing to the persisted one.                      *)
LEMMA DesiredKeeps ==
    ASSUME NEW s \in Sources, NEW networks, NEW k \in Keys,
           Desired(s, networks)[k] # Absent
    PROVE  Desired(s, networks)[k] = blocks[s][k]
  BY DEF Desired

(* No step of a run, and no request, rewrites a receipt for another request*)
LEMMA StepKeepsReceipts ==
    ASSUME TypeOK, OriginInv, [Next]_hostVars
    PROVE  ReceiptsKept
  <1>1. ASSUME NEW s \in Sources, NEW req \in Calls, Begin(s, req)
        PROVE  ReceiptsKept
    <2>1. PICK networks \in readings[s] : ~Refused(s, req, networks)
      BY <1>1 DEF Begin
    <2>2. receipts' = [receipts EXCEPT ![s][req.id] = [req |-> req, status |-> "uncertain"]]
      BY <1>1 DEF Begin
    <2>3. receipts[s][req.id] # NoReceipt => receipts[s][req.id].req = req
      BY <2>1 DEF Refused, Conflicts, Known
    <2>4. [req |-> req, status |-> "uncertain"] \in Receipts
      BY CallsAssumption DEF Receipts
    <2>5. QED
      BY <2>2, <2>3, <2>4, NoReceiptAssumption DEF ReceiptsKept, TypeOK
  <1>2. ASSUME NEW s \in Sources, NEW list, NEW status \in {"ok", "uncertain", "error"},
               helper[s] # Idle, Finish(s, list, status)
        PROVE  ReceiptsKept
    <2>1. CASE helper[s].req = NoRequest
      BY <1>2, <2>1 DEF Finish, ReceiptsKept
    <2>2. CASE helper[s].req # NoRequest
      <3> DEFINE req == helper[s].req
      <3>1. req \in Requests
        BY <1>2, <2>2, BusyRun DEF Busied
      <3>2. receipts' = [receipts EXCEPT ![s][req.id] = [req |-> req, status |-> status]]
        BY <1>2, <2>2 DEF Finish
      <3>3. receipts[s][req.id].req = req
        BY <1>2, <2>2 DEF OriginInv, RunIsOriginal
      <3>4. [req |-> req, status |-> status] \in Receipts
        BY <3>1 DEF Receipts
      <3> HIDE DEF req
      <3>5. QED
        BY <3>2, <3>3, <3>4, NoReceiptAssumption DEF ReceiptsKept, TypeOK
    <2>3. QED
      BY <2>1, <2>2
  <1>3. ASSUME NEW s \in Sources, RunStep(s)
        PROVE  ReceiptsKept
    <2>1. helper[s] # Idle
      BY <1>3, RunIsBusy
    <2>2. CASE Apply(s) \/ ControlFailed(s)
      BY <2>2 DEF Apply, ControlFailed, ReceiptsKept
    <2>3. CASE ApplyRefused(s) \/ ReadbackUnavailable(s)
      BY <1>2, <2>1, <2>3 DEF ApplyRefused, ReadbackUnavailable
    <2>4. CASE ApplyTimeout(s) \/ ReadbackFailed(s)
      BY <1>2, <2>1, <2>4 DEF ApplyTimeout, ReadbackFailed
    <2>5. CASE Verify(s)
      BY <1>2, <2>1, <2>5 DEF Verify
    <2>6. QED
      BY <1>3, <2>2, <2>3, <2>4, <2>5 DEF RunStep
  <1>4. ASSUME UNCHANGED receipts
        PROVE  ReceiptsKept
    BY <1>4 DEF ReceiptsKept
  <1>5. QED
    BY <1>1, <1>3, <1>4 DEF Next, Receive, Refuse, StoreFails, Busy, Replay, Restore, Disturb,
                            Crash, Reboot, Flush, Protect, Tick, hostVars

(* The invariant after a step that leaves the lists and the runs of every  *)
(* host alone, or ends the run of one.                                     *)
LEMMA OriginKept ==
    ASSUME OriginInv, ReceiptsKept, UNCHANGED blocks,
           \A s \in Sources :
               \/ helper'[s] = Idle
               \/ /\ helper[s] # Idle
                  /\ helper'[s].previous = helper[s].previous
                  /\ helper'[s].req = helper[s].req,
           \A s \in Sources : helper'[s] # Idle /\ helper'[s].req # NoRequest =>
               helper'[s].req \in Requests
    PROVE  OriginInv'
  <1>1. DeadlinesAreOriginal'
    BY AcceptedStays DEF OriginInv, DeadlinesAreOriginal
  <1>2. ASSUME NEW s \in Sources
        PROVE  RunIsOriginal(s)'
    BY <1>2, AcceptedStays, RequestParts DEF OriginInv, RunIsOriginal, ReceiptsKept
  <1>3. QED
    BY <1>1, <1>2 DEF OriginInv

(* The request of a run bans key k until d.                                *)
AsksFor(req, k, d) ==
    req \in Requests /\ req.action = "add" /\ Key(req) = k /\ req.expires = d

(* The invariant after a run begins with a list it was entitled to.        *)
LEMMA OriginOpened ==
    ASSUME OriginInv, ReceiptsKept, TypeOK, NEW s \in Sources,
           NEW list, NEW req \in Requests \cup {NoRequest}, NEW networks,
           blocks' = [blocks EXCEPT ![s] = list],
           helper' = [helper EXCEPT ![s] = Opened(s, req, networks)],
           \A k \in Keys : list[k] # Absent =>
               Accepted(s, k, list[k]) \/ AsksFor(req, k, list[k]),
           req # NoRequest => /\ receipts'[s][req.id] # NoReceipt
                              /\ receipts'[s][req.id].req = req
    PROVE  OriginInv'
  <1>1. ASSUME NEW t \in Sources, NEW k \in Keys, blocks'[t][k] # Absent
        PROVE  Accepted(t, k, blocks[t][k])'
    <2>1. CASE t = s
      <3>1. blocks'[s] = list
        BY DEF TypeOK
      <3>2. CASE Accepted(s, k, list[k])
        BY <2>1, <3>1, <3>2 DEF Accepted, ReceiptsKept
      <3>3. CASE AsksFor(req, k, list[k])
        BY <2>1, <3>1, <3>3, RequestParts DEF Accepted, AsksFor
      <3>4. QED
        BY <1>1, <2>1, <3>1, <3>2, <3>3
    <2>2. CASE t # s
      <3>1. blocks'[t] = blocks[t]
        BY <2>2 DEF TypeOK
      <3>2. Accepted(t, k, blocks[t][k])
        BY <1>1, <3>1 DEF OriginInv, DeadlinesAreOriginal
      <3>3. QED
        BY <3>1, <3>2 DEF Accepted, ReceiptsKept
    <2>3. QED
      BY <2>1, <2>2
  <1>2. ASSUME NEW t \in Sources
        PROVE  RunIsOriginal(t)'
    <2>1. CASE t = s
      <3>1. helper'[s] = Opened(s, req, networks)
        BY DEF TypeOK
      <3>2. helper'[s].previous = Desired(s, networks) /\ helper'[s].req = req
        BY <3>1 DEF Opened
      <3>3. ASSUME NEW k \in Keys, Desired(s, networks)[k] # Absent
            PROVE  Accepted(s, k, Desired(s, networks)[k])
        BY <3>3, DesiredKeeps DEF OriginInv, DeadlinesAreOriginal
      <3>4. ASSUME NEW k \in Keys, helper'[s].previous[k] # Absent
            PROVE  Accepted(s, k, helper[s].previous[k])'
        <4>1. Accepted(s, k, helper'[s].previous[k])
          BY <3>2, <3>3, <3>4
        <4>2. QED
          BY <4>1 DEF Accepted, ReceiptsKept
      <3>5. QED
        BY <2>1, <3>2, <3>4 DEF RunIsOriginal
    <2>2. CASE t # s
      <3>1. helper'[t] = helper[t]
        BY <2>2 DEF TypeOK
      <3>2. RunIsOriginal(t)
        BY DEF OriginInv
      <3>3. helper[t] # Idle /\ helper[t].req # NoRequest => helper[t].req.id \in RequestIds
        BY BusyRun, RequestParts DEF Busied
      <3>4. QED
        BY <3>1, <3>2, <3>3 DEF RunIsOriginal, Accepted, ReceiptsKept
    <2>3. QED
      BY <2>1, <2>2
  <1>3. QED
    BY <1>1, <1>2 DEF OriginInv, DeadlinesAreOriginal

(* The invariant after a run saves an outcome.                             *)
LEMMA OriginFinished ==
    ASSUME OriginInv, ReceiptsKept, TypeOK, NEW s \in Sources, helper[s] # Idle,
           NEW list \in {blocks[s], helper[s].previous}, NEW status,
           Finish(s, list, status)
    PROVE  OriginInv'
  <1>1. ASSUME NEW t \in Sources, NEW k \in Keys, blocks'[t][k] # Absent
        PROVE  Accepted(t, k, blocks[t][k])'
    <2>1. Accepted(t, k, blocks'[t][k])
      BY <1>1 DEF Finish, TypeOK, OriginInv, DeadlinesAreOriginal, RunIsOriginal
    <2>2. QED
      BY <2>1 DEF Accepted, ReceiptsKept
  <1>2. ASSUME NEW t \in Sources
        PROVE  RunIsOriginal(t)'
    <2>1. CASE t = s
      <3>1. helper'[s] = Idle
        BY DEF Finish, TypeOK
      <3>2. QED
        BY <2>1, <3>1 DEF RunIsOriginal
    <2>2. CASE t # s
      <3>1. helper'[t] = helper[t]
        BY <2>2 DEF Finish, TypeOK
      <3>2. RunIsOriginal(t)
        BY DEF OriginInv
      <3>3. helper[t] # Idle /\ helper[t].req # NoRequest => helper[t].req.id \in RequestIds
        BY BusyRun, RequestParts DEF Busied
      <3>4. QED
        BY <3>1, <3>2, <3>3 DEF RunIsOriginal, Accepted, ReceiptsKept
    <2>3. QED
      BY <2>1, <2>2
  <1>3. QED
    BY <1>1, <1>2 DEF OriginInv, DeadlinesAreOriginal

(* Every step keeps the invariant.                                         *)
LEMMA OriginStep ==
    ASSUME TypeOK, TypeOK', OriginInv, [Next]_hostVars
    PROVE  OriginInv'
  <1>0. ReceiptsKept
    BY StepKeepsReceipts
  <1>a. ASSUME UNCHANGED blocks,
               \A s \in Sources :
                   \/ helper'[s] = Idle
                   \/ /\ helper[s] # Idle
                      /\ helper'[s].previous = helper[s].previous
                      /\ helper'[s].req = helper[s].req
        PROVE  OriginInv'
    <2>1. \A s \in Sources : helper'[s] # Idle /\ helper'[s].req # NoRequest =>
                              helper'[s].req \in Requests
      BY DEF TypeOK, Runs, Idle
    <2>2. QED
      BY <1>0, <1>a, <2>1, OriginKept
  <1>b. ASSUME UNCHANGED <<blocks, helper>>
        PROVE  OriginInv'
    BY <1>a, <1>b
  <1>1. ASSUME NEW s \in Sources, NEW req \in Calls, Begin(s, req)
        PROVE  OriginInv'
    <2>1. PICK networks \in readings[s] :
            /\ blocks' = [blocks EXCEPT ![s] = Wanted(s, req, networks)]
            /\ helper' = [helper EXCEPT ![s] = Opened(s, req, networks)]
      BY <1>1 DEF Begin
    <2>2. req \in Requests
      BY CallsAssumption
    <2>3. /\ receipts'[s][req.id] # NoReceipt
          /\ receipts'[s][req.id].req = req
      <3>1. receipts' = [receipts EXCEPT ![s][req.id] = [req |-> req, status |-> "uncertain"]]
        BY <1>1 DEF Begin
      <3>2. [req |-> req, status |-> "uncertain"] \in Receipts
        BY <2>2 DEF Receipts
      <3>3. QED
        BY <2>2, <3>1, <3>2, NoReceiptAssumption, RequestParts DEF TypeOK
    <2>4. ASSUME NEW k \in Keys, Wanted(s, req, networks)[k] # Absent
          PROVE  \/ Accepted(s, k, Wanted(s, req, networks)[k])
                 \/ AsksFor(req, k, Wanted(s, req, networks)[k])
      <3> DEFINE d == Wanted(s, req, networks)[k]
      <3>1. Desired(s, networks) \in [Keys -> Deadlines \cup {Absent}]
        BY DesiredType DEF BlockLists
      <3>2. CASE d = Desired(s, networks)[k]
        BY <2>4, <3>2, DesiredKeeps DEF OriginInv, DeadlinesAreOriginal
      <3>3. CASE d # Desired(s, networks)[k]
        <4>1. k = Key(req) /\ d = req.expires
          BY <3>1, <3>3 DEF Wanted
        <4>2. req.action = "add"
          BY <2>2, <2>4, <4>1 DEF Requests
        <4>3. QED
          BY <2>2, <4>1, <4>2 DEF AsksFor
      <3>4. QED
        BY <3>2, <3>3
    <2>5. QED
      BY <1>0, <2>1, <2>2, <2>3, <2>4, OriginOpened
  <1>2. ASSUME NEW s \in Sources, Restore(s)
        PROVE  OriginInv'
    <2>1. PICK networks \in readings[s] :
            /\ blocks' = [blocks EXCEPT ![s] = Desired(s, networks)]
            /\ helper' = [helper EXCEPT ![s] = Opened(s, NoRequest, networks)]
      BY <1>2 DEF Restore
    <2>2. ASSUME NEW k \in Keys, Desired(s, networks)[k] # Absent
          PROVE  Accepted(s, k, Desired(s, networks)[k])
      BY <2>2, DesiredKeeps DEF OriginInv, DeadlinesAreOriginal
    <2>3. QED
      BY <1>0, <2>1, <2>2, OriginOpened
  <1>3. ASSUME NEW s \in Sources, RunStep(s)
        PROVE  OriginInv'
    <2>1. helper[s] # Idle
      BY <1>3, RunIsBusy
    <2>2. CASE Apply(s)
      <3>1. helper[s] \in Busied
        BY <2>1, BusyRun
      <3>2. helper' = [helper EXCEPT ![s] = [helper[s] EXCEPT !.pc = "verify"]]
        BY <2>2 DEF Apply
      <3>3. /\ helper'[s].previous = helper[s].previous
            /\ helper'[s].req = helper[s].req
        BY <3>1, <3>2 DEF Busied, TypeOK
      <3>4. \A t \in Sources \ {s} : helper'[t] = helper[t]
        BY <3>2 DEF TypeOK
      <3>5. QED
        BY <1>a, <2>1, <2>2, <3>3, <3>4 DEF Apply
    <2>3. CASE ControlFailed(s)
      BY <1>a, <2>3 DEF ControlFailed, TypeOK
    <2>4. CASE ApplyRefused(s) \/ ReadbackUnavailable(s)
      BY <1>0, <2>1, <2>4, OriginFinished DEF ApplyRefused, ReadbackUnavailable
    <2>5. CASE ApplyTimeout(s) \/ ReadbackFailed(s) \/ Verify(s)
      BY <1>0, <2>1, <2>5, OriginFinished DEF ApplyTimeout, ReadbackFailed, Verify
    <2>6. QED
      BY <1>3, <2>2, <2>3, <2>4, <2>5 DEF RunStep
  <1>4. ASSUME NEW s \in Sources, Disturb(s)
        PROVE  OriginInv'
    <2>1. CASE Crash(s) \/ Reboot(s)
      BY <1>a, <2>1 DEF Crash, Reboot, TypeOK
    <2>2. QED
      BY <1>b, <1>4, <2>1 DEF Disturb, Flush, Protect
  <1>5. QED
    BY <1>1, <1>2, <1>3, <1>4, <1>b
       DEF Next, Receive, Refuse, StoreFails, Busy, Replay, Tick, hostVars

(* The strengthened invariant holds always.                                *)
LEMMA OriginAlways == Spec => []OriginInv
  <1>1. HostInit => OriginInv
    BY DEF HostInit, OriginInv, DeadlinesAreOriginal, RunIsOriginal, Nothing
  <1>2. TypeOK /\ TypeOK' /\ OriginInv /\ [Next]_hostVars => OriginInv'
    BY OriginStep
  <1>3. QED
    BY <1>1, <1>2, TypeCorrect, PTL DEF Spec

(* Every row of the persisted list carries the deadline of an accepted     *)
(* request, whatever is retried, refused, interrupted or restored.         *)
THEOREM OriginalDeadlines == Spec => []DeadlinesAreOriginal
  <1>1. OriginInv => DeadlinesAreOriginal
    BY DEF OriginInv
  <1>2. QED
    BY <1>1, OriginAlways, PTL

-----------------------------------------------------------------------------
(* The kernel enforces the intent.  Two facts make the invariant inductive:*)
(* a run saves no row for an address it knows to be protected, and a       *)
(* batch never gives an element less time than its row has left, although  *)
(* the readback would accept one that expires twelve seconds early.        *)

(* No timed element of s expires before its row.                           *)
LastsLongEnough(s) ==
    table[s] # NoTable =>
        \A k \in Keys : table[s][k] \in Times /\ blocks[s][k] \in Times =>
                        table[s][k] >= blocks[s][k]

EnforceInvAt(s) ==
    /\ settled[s] => helper[s] = Idle
    /\ helper[s] # Idle =>
         \A k \in Keys : k[1] \in helper[s].networks => blocks[s][k] = Absent
    /\ helper[s].pc = "verify" \/ settled[s] => LastsLongEnough(s)
    /\ settled[s] => Enforces(s)

EnforceInv == \A s \in Sources : EnforceInvAt(s)

(* A step elsewhere does not disturb a host.                               *)
LEMMA EnforceElsewhere ==
    ASSUME NEW s, EnforceInvAt(s), clock' = clock, protect'[s] = protect[s],
           blocks'[s] = blocks[s], table'[s] = table[s], helper'[s] = helper[s],
           settled'[s] = settled[s]
    PROVE  EnforceInvAt(s)'
  BY DEF EnforceInvAt, Enforces, LastsLongEnough

(* Whatever the parts of a second lost on the way, a batch committed after *)
(* it was computed gives every element the time its row has left.          *)
LEMMA CommitLasts ==
    ASSUME TypeOK, NEW s \in Sources, helper[s] # Idle, Commit(s), UNCHANGED blocks
    PROVE  LastsLongEnough(s)'
  <1>1. PICK at \in helper[s].begun .. clock, f \in {0, 1}, g \in {0, 1} :
          /\ at = clock => f <= g
          /\ table' = [table EXCEPT ![s] = Elements(blocks[s], at, f, g)]
    BY DEF Commit
  <1>2. helper[s].begun \in Nat /\ clock \in Nat
    BY BusyRun DEF Busied, Times, TypeOK
  <1>3. at \in Int /\ at <= clock
    BY <1>2
  <1>4. table'[s] = Elements(blocks[s], at, f, g)
    BY <1>1 DEF TypeOK
  <1>5. ASSUME NEW k \in Keys, table'[s][k] \in Times, blocks[s][k] \in Times
        PROVE  table'[s][k] >= blocks[s][k]
    <2>1. table'[s][k] = clock + (blocks[s][k] - at - f) + g
      BY <1>4, <1>5, SentinelAssumption DEF Elements, Times
    <2>2. QED
      BY <1>1, <1>2, <1>3, <1>5, <2>1 DEF Times
  <1>6. QED
    BY <1>5 DEF LastsLongEnough

(* A run saves no row for an address it knows to be protected.             *)
LEMMA WantedUnprotected ==
    ASSUME TypeOK, NEW s \in Sources, NEW req \in Requests, NEW networks,
           ~Known(s, req) \/ Reconciles(s, req), ~Refused(s, req, networks),
           NEW k \in Keys, k[1] \in networks
    PROVE  Wanted(s, req, networks)[k] = Absent
  <1>1. Desired(s, networks) \in [Keys -> Deadlines \cup {Absent}]
    BY DesiredType DEF BlockLists
  <1>2. Desired(s, networks)[k] = Absent
    BY DEF Desired
  <1>3. CASE k # Key(req) \/ Reconciles(s, req)
    BY <1>1, <1>2, <1>3 DEF Wanted
  <1>4. CASE k = Key(req) /\ ~Reconciles(s, req)
    <2>1. req.ip \in networks
      BY <1>4 DEF Key
    <2>2. req.action # "add"
      BY <1>4, <2>1 DEF Refused
    <2>3. req.expires = Absent
      BY <2>2 DEF Requests
    <2>4. QED
      BY <1>1, <1>4, <2>3 DEF Wanted
  <1>5. QED
    BY <1>3, <1>4

(* A run that begins is not settled, and its list spares the protected.    *)
LEMMA EnforceOpened ==
    ASSUME TypeOK, EnforceInv, NEW s \in Sources, NEW list, NEW req, NEW networks,
           blocks' = [blocks EXCEPT ![s] = list],
           helper' = [helper EXCEPT ![s] = Opened(s, req, networks)],
           settled' = [settled EXCEPT ![s] = FALSE],
           UNCHANGED <<clock, protect, table>>,
           \A k \in Keys : k[1] \in networks => list[k] = Absent
    PROVE  EnforceInv'
  <1>1. /\ blocks'[s] = list
        /\ helper'[s] = Opened(s, req, networks)
        /\ settled'[s] = FALSE
    BY DEF TypeOK
  <1>2. helper'[s].networks = networks /\ helper'[s].pc = "apply"
    BY <1>1 DEF Opened
  <1>3. EnforceInvAt(s)'
    BY <1>1, <1>2 DEF EnforceInvAt
  <1>4. ASSUME NEW t \in Sources \ {s}
        PROVE  EnforceInvAt(t)'
    BY <1>4, EnforceElsewhere DEF EnforceInv, TypeOK
  <1>5. QED
    BY <1>3, <1>4 DEF EnforceInv

(* A run that saves an outcome other than "ok" leaves its host unsettled.  *)
LEMMA EnforceUnsettled ==
    ASSUME TypeOK, EnforceInv, NEW s \in Sources, NEW list, NEW status \in {"uncertain", "error"},
           Finish(s, list, status), UNCHANGED <<clock, protect>>,
           \A t \in Sources \ {s} : table'[t] = table[t]
    PROVE  EnforceInv'
  <1>1. helper'[s] = Idle /\ settled'[s] = FALSE
    BY DEF Finish, TypeOK
  <1>2. EnforceInvAt(s)'
    BY <1>1 DEF EnforceInvAt, Idle
  <1>3. ASSUME NEW t \in Sources \ {s}
        PROVE  EnforceInvAt(t)'
    BY <1>3, EnforceElsewhere DEF EnforceInv, Finish, TypeOK
  <1>4. QED
    BY <1>2, <1>3 DEF EnforceInv

(* A run that dies leaves its host as it found it, unsettled.              *)
LEMMA EnforceCut ==
    ASSUME TypeOK, EnforceInv, NEW s \in Sources, ~settled[s],
           helper' = [helper EXCEPT ![s] = Idle],
           UNCHANGED <<clock, protect, blocks, table, settled>>
    PROVE  EnforceInv'
  <1>1. EnforceInvAt(s)'
    BY DEF EnforceInvAt, Idle, TypeOK
  <1>2. ASSUME NEW t \in Sources \ {s}
        PROVE  EnforceInvAt(t)'
    BY EnforceElsewhere DEF EnforceInv, TypeOK
  <1>3. QED
    BY <1>1, <1>2 DEF EnforceInv

(* The steps of a run keep the invariant: only a readback that agrees      *)
(* settles a host.                                                         *)
LEMMA EnforceRunStep ==
    ASSUME TypeOK, EnforceInv, NEW s \in Sources, RunStep(s)
    PROVE  EnforceInv'
  <1>0. helper[s] # Idle /\ EnforceInvAt(s)
    BY RunIsBusy DEF EnforceInv
  <1>a. helper[s] \in Busied
    BY <1>0, BusyRun
  <1>b. settled[s] = FALSE
    BY <1>0 DEF EnforceInvAt, TypeOK
  <1>1. CASE Apply(s)
    <2>1. helper' = [helper EXCEPT ![s] = [helper[s] EXCEPT !.pc = "verify"]]
      BY <1>1 DEF Apply
    <2>2. helper'[s].networks = helper[s].networks /\ helper'[s] # Idle
      BY <1>a, <2>1 DEF Busied, Idle, TypeOK
    <2>3. LastsLongEnough(s)'
      BY <1>0, <1>1, CommitLasts DEF Apply
    <2>4. EnforceInvAt(s)'
      BY <1>0, <1>1, <1>b, <2>2, <2>3 DEF EnforceInvAt, Apply
    <2>5. ASSUME NEW t \in Sources \ {s}
          PROVE  EnforceInvAt(t)'
      <3>1. helper'[t] = helper[t] /\ table'[t] = table[t]
        BY <1>1, <2>1 DEF Apply, Commit, TypeOK
      <3>2. QED
        BY <1>1, <3>1, EnforceElsewhere DEF Apply, EnforceInv
    <2>6. QED
      BY <2>4, <2>5 DEF EnforceInv
  <1>2. CASE ApplyRefused(s) \/ ReadbackFailed(s) \/ ReadbackUnavailable(s)
    BY <1>2, EnforceUnsettled DEF ApplyRefused, ReadbackFailed, ReadbackUnavailable
  <1>3. CASE ApplyTimeout(s)
    <2>1. \A t \in Sources \ {s} : table'[t] = table[t]
      BY <1>3 DEF ApplyTimeout, Commit, TypeOK
    <2>2. QED
      BY <1>3, <2>1, EnforceUnsettled DEF ApplyTimeout
  <1>4. CASE Verify(s)
    <2>1. CASE ~ReadsBack(s)
      BY <1>4, <2>1, EnforceUnsettled DEF Verify
    <2>2. CASE ReadsBack(s)
      <3>1. Finish(s, blocks[s], "ok") /\ UNCHANGED <<clock, protect, readings, table>>
        BY <1>4, <2>2 DEF Verify
      <3>2. /\ blocks'[s] = blocks[s] /\ helper'[s] = Idle
            /\ settled'[s] = (helper[s].networks = protect[s])
        BY <3>1 DEF Finish, TypeOK
      <3>3. LastsLongEnough(s)'
        BY <1>0, <1>4, <3>1, <3>2 DEF Verify, EnforceInvAt, LastsLongEnough
      <3>4. ASSUME helper[s].networks = protect[s]
            PROVE  Enforces(s)
        <4>1. \A k \in Keys : k[1] \in protect[s] => blocks[s][k] = Absent
          BY <1>0, <3>4 DEF EnforceInvAt
        <4>2. table[s] # NoTable
          BY <2>2 DEF ReadsBack
        <4>3. ASSUME NEW k \in Keys
              PROVE  /\ table[s][k] # Absent =>
                          /\ blocks[s][k] # Absent
                          /\ k[1] \notin protect[s]
                          /\ (table[s][k] = Permanent) <=> (blocks[s][k] = Permanent)
                          /\ table[s][k] \in Times => table[s][k] <= blocks[s][k] + 1
                     /\ (\/ blocks[s][k] = Permanent
                         \/ blocks[s][k] \in Times /\ blocks[s][k] > clock + 1)
                          => table[s][k] # Absent
          BY <2>2, <4>1 DEF ReadsBack
        <4>4. QED
          BY <4>2, <4>3 DEF Enforces
      <3>5. settled'[s] => Enforces(s)'
        BY <3>1, <3>2, <3>4 DEF Enforces
      <3>6. EnforceInvAt(s)'
        BY <3>2, <3>3, <3>5 DEF EnforceInvAt
      <3>7. ASSUME NEW t \in Sources \ {s}
            PROVE  EnforceInvAt(t)'
        BY <3>1, EnforceElsewhere DEF EnforceInv, Finish, TypeOK
      <3>8. QED
        BY <3>6, <3>7 DEF EnforceInv
    <2>3. QED
      BY <2>1, <2>2
  <1>5. CASE ControlFailed(s)
    BY <1>5, <1>b, EnforceCut DEF ControlFailed
  <1>6. QED
    BY <1>1, <1>2, <1>3, <1>4, <1>5 DEF RunStep

(* A row with more than a second left is still enforced a second later.    *)
LEMMA EnforceTick ==
    ASSUME TypeOK, EnforceInv, Tick
    PROVE  EnforceInv'
  <1>1. SUFFICES ASSUME NEW s \in Sources
                 PROVE  EnforceInvAt(s)'
    BY DEF EnforceInv
  <1>2. EnforceInvAt(s)
    BY DEF EnforceInv
  <1>3. clock \in Nat /\ clock' = clock + 1
    BY DEF Tick, TypeOK, Times
  <1>4. /\ blocks' = blocks /\ helper' = helper /\ settled' = settled
        /\ protect' = protect
    BY DEF Tick
  <1>5. CASE table[s] = NoTable
    <2>1. table'[s] = NoTable
      BY <1>5 DEF Tick
    <2>2. QED
      BY <1>2, <1>4, <1>5, <2>1 DEF EnforceInvAt, LastsLongEnough, Enforces
  <1>6. CASE table[s] # NoTable
    <2>1. table'[s] = [k \in Keys |-> IF table[s][k] \in Times /\ table[s][k] <= clock + 1
                                      THEN Absent ELSE table[s][k]]
      BY <1>6 DEF Tick
    <2>2. table'[s] # NoTable
      <3>1. table[s] \in BlockLists
        BY <1>6 DEF TypeOK
      <3>2. table'[s] \in BlockLists
        BY <2>1, <3>1 DEF BlockLists
      <3>3. QED
        BY <3>2, NoTableAssumption
    <2>3. ASSUME LastsLongEnough(s)
          PROVE  LastsLongEnough(s)'
      BY <1>4, <1>6, <2>1, <2>3, SentinelAssumption DEF LastsLongEnough, Times
    <2>4. ASSUME settled[s]
          PROVE  Enforces(s)'
      <3>1. Enforces(s) /\ LastsLongEnough(s)
        BY <1>2, <2>4 DEF EnforceInvAt
      <3>2. ASSUME NEW k \in Keys
            PROVE  /\ table'[s][k] # Absent =>
                        /\ blocks[s][k] # Absent
                        /\ k[1] \notin protect[s]
                        /\ (table'[s][k] = Permanent) <=> (blocks[s][k] = Permanent)
                        /\ table'[s][k] \in Times => table'[s][k] <= blocks[s][k] + 1
                   /\ (\/ blocks[s][k] = Permanent
                       \/ blocks[s][k] \in Times /\ blocks[s][k] > clock' + 1)
                        => table'[s][k] # Absent
        <4>1. \/ table'[s][k] = table[s][k]
              \/ /\ table'[s][k] = Absent
                 /\ table[s][k] \in Times /\ table[s][k] <= clock + 1
          BY <2>1
        <4>2. CASE table'[s][k] = table[s][k]
          BY <1>3, <3>1, <4>2 DEF Enforces, Times
        <4>3. CASE /\ table'[s][k] = Absent
                   /\ table[s][k] \in Times /\ table[s][k] <= clock + 1
          <5>1. blocks[s][k] # Permanent
            BY <3>1, <4>3, SentinelAssumption DEF Enforces, Times
          <5>2. blocks[s][k] \in Times => table[s][k] >= blocks[s][k]
            BY <1>6, <3>1, <4>3 DEF LastsLongEnough
          <5>3. QED
            BY <1>3, <4>3, <5>1, <5>2 DEF Times
        <4>4. QED
          BY <4>1, <4>2, <4>3
      <3>3. QED
        BY <1>4, <2>2, <3>2 DEF Enforces
    <2>5. QED
      BY <1>2, <1>4, <2>3, <2>4 DEF EnforceInvAt
  <1>7. QED
    BY <1>5, <1>6

(* Every step keeps the invariant.                                         *)
LEMMA EnforceStep ==
    ASSUME TypeOK, EnforceInv, [Next]_hostVars
    PROVE  EnforceInv'
  <1>a. ASSUME UNCHANGED <<clock, protect, blocks, table, helper, settled>>
        PROVE  EnforceInv'
    BY <1>a, EnforceElsewhere DEF EnforceInv
  <1>1. ASSUME NEW s \in Sources, NEW req \in Calls, Begin(s, req)
        PROVE  EnforceInv'
    <2>1. PICK networks \in readings[s] :
            /\ ~Refused(s, req, networks)
            /\ blocks' = [blocks EXCEPT ![s] = Wanted(s, req, networks)]
            /\ helper' = [helper EXCEPT ![s] = Opened(s, req, networks)]
      BY <1>1 DEF Begin
    <2>2. \A k \in Keys : k[1] \in networks => Wanted(s, req, networks)[k] = Absent
      BY <1>1, <2>1, WantedUnprotected, CallsAssumption DEF Begin
    <2>3. settled' = [settled EXCEPT ![s] = FALSE] /\ UNCHANGED <<clock, protect, table>>
      BY <1>1 DEF Begin
    <2>4. QED
      BY <2>1, <2>2, <2>3, EnforceOpened
  <1>2. ASSUME NEW s \in Sources, Restore(s)
        PROVE  EnforceInv'
    <2>1. PICK networks \in readings[s] :
            /\ blocks' = [blocks EXCEPT ![s] = Desired(s, networks)]
            /\ helper' = [helper EXCEPT ![s] = Opened(s, NoRequest, networks)]
      BY <1>2 DEF Restore
    <2>2. \A k \in Keys : k[1] \in networks => Desired(s, networks)[k] = Absent
      BY DEF Desired
    <2>3. settled' = [settled EXCEPT ![s] = FALSE] /\ UNCHANGED <<clock, protect, table>>
      BY <1>2 DEF Restore
    <2>4. QED
      BY <2>1, <2>2, <2>3, EnforceOpened
  <1>3. ASSUME NEW s \in Sources, RunStep(s)
        PROVE  EnforceInv'
    BY <1>3, EnforceRunStep
  <1>4. ASSUME NEW s \in Sources, Crash(s)
        PROVE  EnforceInv'
    <2>1. ~settled[s]
      BY <1>4 DEF Crash, EnforceInv, EnforceInvAt
    <2>2. QED
      BY <1>4, <2>1, EnforceCut DEF Crash
  <1>5. ASSUME NEW s \in Sources, Reboot(s) \/ Flush(s) \/ \E ip \in IPs : Protect(s, ip)
        PROVE  EnforceInv'
    <2>1. settled'[s] = FALSE
      BY <1>5 DEF Reboot, Flush, Protect, TypeOK
    <2>2. EnforceInvAt(s)'
      <3>1. CASE Reboot(s)
        BY <2>1, <3>1 DEF Reboot, TypeOK, EnforceInvAt, Idle
      <3>2. CASE Flush(s)
        BY <2>1, <3>2 DEF Flush, TypeOK, EnforceInv, EnforceInvAt, LastsLongEnough
      <3>3. CASE \E ip \in IPs : Protect(s, ip)
        BY <2>1, <3>3 DEF Protect, EnforceInv, EnforceInvAt, LastsLongEnough
      <3>4. QED
        BY <1>5, <3>1, <3>2, <3>3
    <2>3. ASSUME NEW t \in Sources \ {s}
          PROVE  EnforceInvAt(t)'
      BY <1>5, EnforceElsewhere DEF EnforceInv, Reboot, Flush, Protect, TypeOK
    <2>4. QED
      BY <2>2, <2>3 DEF EnforceInv
  <1>6. CASE Tick
    BY <1>6, EnforceTick
  <1>7. QED
    BY <1>1, <1>2, <1>3, <1>4, <1>5, <1>6, <1>a
       DEF Next, Receive, Refuse, StoreFails, Busy, Replay, Disturb, hostVars

(* Whenever the last run of a host verified and nothing disturbed the host *)
(* since, the kernel holds exactly the persisted blocks: for any number of *)
(* hosts, addresses and requests, and any mix of the modelled failures.    *)
THEOREM EnforcementIsVerified == Spec => []EnforcementMatchesIntent
  <1>1. HostInit => EnforceInv
    BY DEF HostInit, EnforceInv, EnforceInvAt, Idle
  <1>2. TypeOK /\ EnforceInv /\ [Next]_hostVars => EnforceInv'
    BY EnforceStep
  <1>3. EnforceInv => EnforcementMatchesIntent
    BY DEF EnforceInv, EnforceInvAt, EnforcementMatchesIntent
  <1>4. QED
    BY <1>1, <1>2, <1>3, TypeCorrect, PTL DEF Spec

-----------------------------------------------------------------------------
(* The helper implements the register: every step of the helper is a step  *)
(* of BlockRegister or leaves it alone.                                    *)

(* What an id asked for is settled with its receipt.                       *)
LEMMA EffectsKept ==
    ASSUME ReceiptsKept,
           \A s \in Sources : \A id \in RequestIds :
               receipts'[s][id] # NoReceipt => receipts[s][id] # NoReceipt
    PROVE  Effects' = Effects
  <1>1. ASSUME NEW s \in Sources, NEW id \in RequestIds
        PROVE  (IF receipts'[s][id] = NoReceipt THEN NoEffect
                ELSE <<Key(receipts'[s][id].req), receipts'[s][id].req.expires>>)
               = (IF receipts[s][id] = NoReceipt THEN NoEffect
                  ELSE <<Key(receipts[s][id].req), receipts[s][id].req.expires>>)
    BY DEF ReceiptsKept, Key
  <1>2. QED
    BY <1>1 DEF Effects, Key

(* A run that begins opens an operation of the register.                   *)
LEMMA UndoOpened ==
    ASSUME TypeOK, NEW s \in Sources, NEW req, NEW networks, helper[s] = Idle,
           helper' = [helper EXCEPT ![s] = Opened(s, req, networks)]
    PROVE  /\ Undo[s] = NoTable
           /\ Undo' = [Undo EXCEPT ![s] = Desired(s, networks)]
  <1>1. Undo[s] = NoTable
    BY DEF Undo
  <1>2. helper'[s] = Opened(s, req, networks) /\ Opened(s, req, networks) # Idle
    BY DEF TypeOK, Opened, Idle
  <1>3. Opened(s, req, networks).previous = Desired(s, networks)
    BY DEF Opened
  <1>4. \A t \in Sources \ {s} : helper'[t] = helper[t]
    BY DEF TypeOK
  <1>5. Undo'[s] = Desired(s, networks)
    BY <1>2, <1>3 DEF Undo
  <1>6. \A t \in Sources \ {s} : Undo'[t] = Undo[t]
    BY <1>4 DEF Undo
  <1>7. /\ Undo = [t \in Sources |-> Undo[t]]
        /\ Undo' = [t \in Sources |-> Undo'[t]]
    BY DEF Undo
  <1>8. QED
    BY <1>1, <1>5, <1>6, <1>7

(* A run that ends closes it.                                              *)
LEMMA UndoClosed ==
    ASSUME TypeOK, NEW s \in Sources, helper[s] # Idle,
           helper' = [helper EXCEPT ![s] = Idle]
    PROVE  /\ Undo[s] = helper[s].previous
           /\ Undo[s] # NoTable
           /\ Undo' = [Undo EXCEPT ![s] = NoTable]
  <1>1. Undo[s] = helper[s].previous
    BY DEF Undo
  <1>2. helper[s].previous \in BlockLists
    BY BusyRun DEF Busied
  <1>3. Undo' = [Undo EXCEPT ![s] = NoTable]
    BY DEF Undo, TypeOK
  <1>4. QED
    BY <1>1, <1>2, <1>3, NoTableAssumption

(* The wanted list is the persisted one without its expired and protected  *)
(* entries.                                                                *)
LEMMA DesiredDrops ==
    ASSUME NEW s \in Sources, NEW networks
    PROVE  \E dropped \in SUBSET Keys : Desired(s, networks) = Register!Without(s, dropped)
  <1> DEFINE dropped == {k \in Keys : \/ blocks[s][k] \in Times /\ blocks[s][k] <= clock
                                      \/ k[1] \in networks}
  <1>1. Desired(s, networks) = Register!Without(s, dropped)
    BY DEF Desired, Register!Without
  <1>2. QED
    BY <1>1

(* A run that takes the persisted list as it is renews the register.       *)
LEMMA Renews ==
    ASSUME TypeOK, NEW s \in Sources, NEW req, NEW networks, helper[s] = Idle,
           helper' = [helper EXCEPT ![s] = Opened(s, req, networks)],
           blocks' = [blocks EXCEPT ![s] = Desired(s, networks)],
           Effects' = Effects
    PROVE  Register!Renew(s)
  <1>1. PICK dropped \in SUBSET Keys : Desired(s, networks) = Register!Without(s, dropped)
    BY DesiredDrops
  <1>2. /\ Undo[s] = NoTable
        /\ Undo' = [Undo EXCEPT ![s] = Register!Without(s, dropped)]
    BY <1>1, UndoOpened
  <1>3. QED
    BY <1>1, <1>2 DEF Register!Renew

(* The receipt of a new request gives its id the effect it asked for.      *)
LEMMA EffectTaken ==
    ASSUME TypeOK, NEW s \in Sources, NEW req \in Requests, ~Known(s, req),
           receipts' = [receipts EXCEPT ![s][req.id] = [req |-> req, status |-> "uncertain"]]
    PROVE  /\ Effects[s][req.id] = NoEffect
           /\ Effects' = [Effects EXCEPT ![s][req.id] = <<Key(req), req.expires>>]
  <1>1. req.id \in RequestIds
    BY RequestParts
  <1>2. Effects[s][req.id] = NoEffect
    BY <1>1 DEF Effects, Known
  <1>3. /\ receipts'[s][req.id] # NoReceipt
        /\ receipts'[s][req.id].req = req
    <2>1. [req |-> req, status |-> "uncertain"] \in Receipts
      BY DEF Receipts
    <2>2. QED
      BY <1>1, <2>1, NoReceiptAssumption DEF TypeOK
  <1>4. \A t \in Sources : \A id \in RequestIds :
          <<t, id>> # <<s, req.id>> => receipts'[t][id] = receipts[t][id]
    BY <1>1 DEF TypeOK
  <1>5. ASSUME NEW t \in Sources, NEW id \in RequestIds
        PROVE  Effects'[t][id] = [Effects EXCEPT ![s][req.id] = <<Key(req), req.expires>>][t][id]
    <2>1. Effects'[t][id] = IF receipts'[t][id] = NoReceipt THEN NoEffect
                            ELSE <<Key(receipts'[t][id].req), receipts'[t][id].req.expires>>
      BY DEF Effects, Key
    <2>2. Effects[t][id] = IF receipts[t][id] = NoReceipt THEN NoEffect
                           ELSE <<Key(receipts[t][id].req), receipts[t][id].req.expires>>
      BY DEF Effects
    <2>3. CASE t = s /\ id = req.id
      BY <1>1, <1>3, <2>1, <2>3 DEF Effects
    <2>4. CASE ~(t = s /\ id = req.id)
      <3>1. receipts'[t][id] = receipts[t][id]
        BY <1>4, <2>4
      <3>2. [Effects EXCEPT ![s][req.id] = <<Key(req), req.expires>>][t][id] = Effects[t][id]
        BY <1>1, <2>4 DEF Effects
      <3>3. QED
        BY <2>1, <2>2, <3>1, <3>2
    <2>5. QED
      BY <2>3, <2>4
  <1>6. ASSUME NEW t \in Sources
        PROVE  Effects'[t] = [Effects EXCEPT ![s][req.id] = <<Key(req), req.expires>>][t]
    <2>1. Effects'[t] = [id \in RequestIds |-> Effects'[t][id]]
      BY DEF Effects
    <2>2. [Effects EXCEPT ![s][req.id] = <<Key(req), req.expires>>][t]
          = [id \in RequestIds |->
                [Effects EXCEPT ![s][req.id] = <<Key(req), req.expires>>][t][id]]
      BY DEF Effects
    <2>3. QED
      BY <1>5, <2>1, <2>2
  <1>7. QED
    BY <1>2, <1>6 DEF Effects

(* A run that ends and keeps its list closes the operation; one that is    *)
(* refused cancels it.                                                     *)
LEMMA Ends ==
    ASSUME TypeOK, NEW s \in Sources, helper[s] # Idle,
           helper' = [helper EXCEPT ![s] = Idle], Effects' = Effects
    PROVE  /\ UNCHANGED blocks => Register!Close(s)
           /\ blocks' = [blocks EXCEPT ![s] = helper[s].previous] => Register!Cancel(s)
  BY UndoClosed DEF Register!Close, Register!Cancel

(* Saving an outcome changes no effect.                                    *)
LEMMA FinishKeepsEffects ==
    ASSUME TypeOK, OriginInv, ReceiptsKept, NEW s \in Sources, helper[s] # Idle,
           NEW list, NEW status, Finish(s, list, status)
    PROVE  Effects' = Effects
  <1>1. CASE helper[s].req = NoRequest
    BY <1>1, EffectsKept DEF Finish
  <1>2. CASE helper[s].req # NoRequest
    <2> DEFINE req == helper[s].req
    <2>1. receipts' = [receipts EXCEPT ![s][req.id] = [req |-> req, status |-> status]]
      BY <1>2 DEF Finish
    <2>2. receipts[s][req.id] # NoReceipt
      BY <1>2 DEF OriginInv, RunIsOriginal
    <2> HIDE DEF req
    <2>3. \A t \in Sources : \A id \in RequestIds :
            receipts'[t][id] # NoReceipt => receipts[t][id] # NoReceipt
      BY <2>1, <2>2 DEF TypeOK
    <2>4. QED
      BY <2>3, EffectsKept
  <1>3. QED
    BY <1>1, <1>2

(* A request that is taken up for the first time takes effect; one that    *)
(* reconciles renews the register.                                         *)
LEMMA BeginImplements ==
    ASSUME TypeOK, OriginInv, ReceiptsKept, NEW s \in Sources, NEW req \in Calls, Begin(s, req)
    PROVE  Register!Next
  <1>1. PICK networks \in readings[s] :
          /\ blocks' = [blocks EXCEPT ![s] = Wanted(s, req, networks)]
          /\ helper' = [helper EXCEPT ![s] = Opened(s, req, networks)]
    BY DEF Begin
  <1>2. helper[s] = Idle /\ req \in Requests
    BY CallsAssumption DEF Begin
  <1>3. receipts' = [receipts EXCEPT ![s][req.id] = [req |-> req, status |-> "uncertain"]]
    BY DEF Begin
  <1>4. CASE Reconciles(s, req)
    <2>1. Wanted(s, req, networks) = Desired(s, networks)
      BY <1>4 DEF Wanted
    <2>2. \A t \in Sources : \A id \in RequestIds :
            receipts'[t][id] # NoReceipt => receipts[t][id] # NoReceipt
      BY <1>3, <1>4 DEF TypeOK, Reconciles, Known
    <2>3. Register!Renew(s)
      BY <1>1, <1>2, <2>1, <2>2, EffectsKept, Renews
    <2>4. QED
      BY <2>3 DEF Register!Next
  <1>5. CASE ~Reconciles(s, req)
    <2>1. ~Known(s, req)
      BY <1>5 DEF Begin
    <2>2. Wanted(s, req, networks) = [Desired(s, networks) EXCEPT ![Key(req)] = req.expires]
      BY <1>5 DEF Wanted
    <2>3. PICK dropped \in SUBSET Keys : Desired(s, networks) = Register!Without(s, dropped)
      BY DesiredDrops
    <2>4. /\ Undo[s] = NoTable
          /\ Undo' = [Undo EXCEPT ![s] = Register!Without(s, dropped)]
      BY <1>1, <1>2, <2>3, UndoOpened
    <2>5. /\ Effects[s][req.id] = NoEffect
          /\ Effects' = [Effects EXCEPT ![s][req.id] = <<Key(req), req.expires>>]
      BY <1>2, <1>3, <2>1, EffectTaken
    <2>6. blocks' = [blocks EXCEPT ![s] =
                       [Register!Without(s, dropped) EXCEPT ![Key(req)] = req.expires]]
      BY <1>1, <2>2, <2>3
    <2>7. Register!Take(s, req.id, Key(req), req.expires)
      BY <2>4, <2>5, <2>6 DEF Register!Take
    <2>8. /\ req.id \in RequestIds /\ Key(req) \in Keys
          /\ req.expires \in {r.expires : r \in Calls}
      BY <1>2, RequestParts
    <2>9. QED
      BY <2>7, <2>8 DEF Register!Next
  <1>6. QED
    BY <1>4, <1>5

(* The end of a run closes or cancels the operation of the register.       *)
LEMMA RunStepImplements ==
    ASSUME TypeOK, OriginInv, ReceiptsKept, NEW s \in Sources, RunStep(s)
    PROVE  Register!Next \/ UNCHANGED <<blocks, Effects, Undo>>
  <1>0. helper[s] # Idle
    BY RunIsBusy
  <1>1. CASE Apply(s)
    <2>1. helper[s] \in Busied
      BY <1>0, BusyRun
    <2>2. helper' = [helper EXCEPT ![s] = [helper[s] EXCEPT !.pc = "verify"]]
      BY <1>1 DEF Apply
    <2>3. helper'[s] # Idle /\ helper'[s].previous = helper[s].previous
      BY <2>1, <2>2 DEF Busied, Idle, TypeOK
    <2>4. \A t \in Sources \ {s} : helper'[t] = helper[t]
      BY <2>2 DEF TypeOK
    <2>5. Undo' = Undo
      BY <1>0, <2>3, <2>4 DEF Undo
    <2>6. Effects' = Effects
      BY <1>1, EffectsKept DEF Apply
    <2>7. QED
      BY <1>1, <2>5, <2>6 DEF Apply
  <1>2. CASE ControlFailed(s)
    <2>1. Effects' = Effects
      BY <1>2, EffectsKept DEF ControlFailed
    <2>2. Register!Close(s)
      BY <1>0, <1>2, <2>1, Ends DEF ControlFailed
    <2>3. QED
      BY <2>2 DEF Register!Next
  <1>3. CASE ApplyRefused(s) \/ ReadbackUnavailable(s)
    <2>1. Finish(s, helper[s].previous, "error")
      BY <1>3 DEF ApplyRefused, ReadbackUnavailable
    <2>2. Register!Cancel(s)
      BY <1>0, <2>1, FinishKeepsEffects, Ends DEF Finish
    <2>3. QED
      BY <2>2 DEF Register!Next
  <1>4. CASE ApplyTimeout(s) \/ Verify(s) \/ ReadbackFailed(s)
    <2>1. PICK status : Finish(s, blocks[s], status)
      BY <1>4 DEF ApplyTimeout, Verify, ReadbackFailed
    <2>2. UNCHANGED blocks
      BY <2>1 DEF Finish, TypeOK
    <2>3. Register!Close(s)
      BY <1>0, <2>1, <2>2, FinishKeepsEffects, Ends DEF Finish
    <2>4. QED
      BY <2>3 DEF Register!Next
  <1>5. QED
    BY <1>1, <1>2, <1>3, <1>4 DEF RunStep

(* Every step of the helper is a step of the register or leaves it alone.  *)
LEMMA StepImplements ==
    ASSUME TypeOK, OriginInv, [Next]_hostVars
    PROVE  [Register!Next]_<<blocks, Effects, Undo>>
  <1>0. ReceiptsKept
    BY StepKeepsReceipts
  <1>a. ASSUME UNCHANGED <<blocks, receipts, helper>>
        PROVE  UNCHANGED <<blocks, Effects, Undo>>
    BY <1>a DEF Effects, Undo, Key
  <1>1. ASSUME NEW s \in Sources, NEW req \in Calls, Begin(s, req)
        PROVE  Register!Next
    BY <1>0, <1>1, BeginImplements
  <1>2. ASSUME NEW s \in Sources, Restore(s)
        PROVE  Register!Next
    <2>1. PICK networks \in readings[s] :
            /\ blocks' = [blocks EXCEPT ![s] = Desired(s, networks)]
            /\ helper' = [helper EXCEPT ![s] = Opened(s, NoRequest, networks)]
      BY <1>2 DEF Restore
    <2>2. helper[s] = Idle /\ Effects' = Effects
      BY <1>0, <1>2, EffectsKept DEF Restore
    <2>3. Register!Renew(s)
      BY <2>1, <2>2, Renews
    <2>4. QED
      BY <2>3 DEF Register!Next
  <1>3. ASSUME NEW s \in Sources, RunStep(s)
        PROVE  Register!Next \/ UNCHANGED <<blocks, Effects, Undo>>
    BY <1>0, <1>3, RunStepImplements
  <1>4. ASSUME NEW s \in Sources, Crash(s) \/ Reboot(s)
        PROVE  Register!Next \/ UNCHANGED <<blocks, Effects, Undo>>
    <2>1. /\ helper' = [helper EXCEPT ![s] = Idle]
          /\ UNCHANGED <<blocks, receipts>>
      BY <1>4 DEF Crash, Reboot
    <2>2. CASE helper[s] = Idle
      <3>1. helper' = helper
        BY <2>1, <2>2 DEF TypeOK
      <3>2. QED
        BY <1>a, <2>1, <3>1
    <2>3. CASE helper[s] # Idle
      <3>1. Effects' = Effects
        BY <1>0, <2>1, EffectsKept
      <3>2. Register!Close(s)
        BY <2>1, <2>3, <3>1, Ends
      <3>3. QED
        BY <3>2 DEF Register!Next
    <2>4. QED
      BY <2>2, <2>3
  <1>5. QED
    BY <1>1, <1>2, <1>3, <1>4, <1>a
       DEF Next, Receive, Refuse, StoreFails, Busy, Replay, Disturb, Flush, Protect, Tick, hostVars

(* The helper implements the register: an id takes effect at most once,    *)
(* and no retry, crash, reboot or restore brings back what a later request *)
(* removed, for every set of hosts, addresses, requests and failures.      *)
THEOREM HelperImplementsRegister == Spec => ImplementsRegister
  <1>1. HostInit => Register!Init
    BY DEF HostInit, Register!Init, Effects, Undo, Nothing
  <1>2. TypeOK /\ OriginInv /\ [Next]_hostVars => [Register!Next]_(Register!vars)
    BY StepImplements DEF Register!vars
  <1>3. Spec => []OriginInv
    BY OriginAlways
  <1>4. QED
    BY <1>1, <1>2, <1>3, TypeCorrect, PTL DEF Spec, ImplementsRegister, Register!Spec

=============================================================================

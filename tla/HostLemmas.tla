----------------------------- MODULE HostLemmas -----------------------------
(***************************************************************************)
(* What the operators of the block helper return and that its actions keep *)
(* the types of its state, whoever calls it.  The proofs about the helper  *)
(* with any caller and about the control plane both rest on these.         *)
(***************************************************************************)
EXTENDS HostControl, TLAPS

-----------------------------------------------------------------------------
(* What the operators of the helper return.                                *)

(* The parts of a request have the types of a key and of an entry.         *)
LEMMA RequestParts ==
    ASSUME NEW req \in Requests
    PROVE  /\ req.id \in RequestIds
           /\ Key(req) \in Keys
           /\ req.expires \in Deadlines \cup {Absent}
           /\ req # NoRequest
  BY NoRequestAssumption DEF Requests, Key, Keys

(* The wanted list of a host is a block list.                              *)
LEMMA DesiredType ==
    ASSUME TypeOK, NEW s \in Sources, NEW networks
    PROVE  Desired(s, networks) \in BlockLists
  <1>1. blocks[s] \in [Keys -> Deadlines \cup {Absent}]
    BY DEF TypeOK, BlockLists
  <1>2. QED
    BY <1>1 DEF Desired, BlockLists

(* So is the list a run saves.                                             *)
LEMMA WantedType ==
    ASSUME TypeOK, NEW s \in Sources, NEW req \in Requests, NEW networks
    PROVE  Wanted(s, req, networks) \in BlockLists
  <1>1. Desired(s, networks) \in [Keys -> Deadlines \cup {Absent}]
    BY DesiredType DEF BlockLists
  <1>2. QED
    BY <1>1, RequestParts DEF Wanted, BlockLists

(* And so is what a batch puts into the kernel, whenever it is committed.  *)
LEMMA ElementsType ==
    ASSUME clock \in Nat, NEW list \in BlockLists, NEW at \in Int,
           NEW f \in {0, 1}, NEW g \in {0, 1}
    PROVE  Elements(list, at, f, g) \in BlockLists
  <1>1. SUFFICES ASSUME NEW k \in Keys
                 PROVE  (IF list[k] \in Times
                         THEN IF list[k] - at - f >= 1 THEN clock + (list[k] - at - f) + g
                              ELSE Absent
                         ELSE list[k]) \in Deadlines \cup {Absent}
    BY DEF Elements, BlockLists
  <1>2. list[k] \in Deadlines \cup {Absent}
    BY DEF BlockLists
  <1>3. CASE list[k] \in Times
    BY <1>3 DEF Times, Deadlines
  <1>4. CASE list[k] \notin Times
    BY <1>2, <1>4
  <1>5. QED
    BY <1>3, <1>4

(* The answers a run prints.                                               *)
LEMMA ReplyType ==
    ASSUME NEW req \in Requests, NEW status \in {"ok", "rejected", "uncertain", "error"}
    PROVE  Reply(req, status) \in Answers
  BY DEF Reply, Answers

(* The answer that reports what the kernel enforces.                       *)
LEMMA ObservedType ==
    ASSUME TypeOK, NEW s \in Sources, NEW req \in Requests, NEW list \in BlockLists
    PROVE  Observed(s, req, list) \in Answers
  <1>1. Present(s) \in BlockLists
    BY DEF TypeOK, Present, Nothing, BlockLists
  <1>2. Present(s)[Key(req)] \in Deadlines \cup {Absent}
    BY <1>1, RequestParts DEF BlockLists
  <1>3. list[Key(req)] \in Deadlines \cup {Absent}
    BY RequestParts DEF BlockLists
  <1>4. QED
    BY <1>2, <1>3 DEF Observed, Answers

-----------------------------------------------------------------------------
(* Type correctness, action by action.                                     *)

(* A run that has begun.                                                   *)
Busied == [pc : {"apply", "verify"}, req : Requests \cup {NoRequest}, previous : BlockLists,
           begun : Times, networks : SUBSET IPs, current : BOOLEAN]

(* A run that is not idle has every field of a run that has begun.         *)
LEMMA BusyRun ==
    ASSUME TypeOK, NEW s \in Sources, helper[s] # Idle
    PROVE  helper[s] \in Busied
  BY DEF TypeOK, Runs, Idle, Busied

(* A host whose run is at a step of execute is not idle.                   *)
LEMMA NotIdle ==
    ASSUME TypeOK, NEW s \in Sources, helper[s].pc \in {"apply", "verify"}
    PROVE  helper[s] # Idle
  BY DEF Idle

(* The run that takes the lock is one.                                     *)
LEMMA OpenedType ==
    ASSUME TypeOK, NEW s \in Sources, NEW req \in Requests \cup {NoRequest},
           NEW networks \in readings[s]
    PROVE  Opened(s, req, networks) \in Busied
  <1>1. networks \in SUBSET IPs
    BY DEF TypeOK
  <1>2. clock \in Times
    BY DEF TypeOK
  <1>3. QED
    BY <1>1, <1>2, DesiredType DEF Opened, Busied

(* Saving an outcome keeps the types of all it writes.                     *)
LEMMA FinishType ==
    ASSUME TypeOK, NEW s \in Sources, helper[s] # Idle, NEW list \in BlockLists,
           NEW status \in {"ok", "uncertain", "error"}, Finish(s, list, status)
    PROVE  /\ blocks' \in [Sources -> BlockLists]
           /\ receipts' \in [Sources -> [RequestIds -> Receipts \cup {NoReceipt}]]
           /\ helper' \in [Sources -> Runs]
           /\ answer' \in [Sources -> Answers \cup {NoAnswer}]
           /\ settled' \in [Sources -> BOOLEAN]
  <1>1. blocks' \in [Sources -> BlockLists]
    BY DEF Finish, TypeOK
  <1>2. helper' \in [Sources -> Runs]
    BY DEF Finish, TypeOK, Runs, Idle
  <1>3. settled' \in [Sources -> BOOLEAN]
    BY DEF Finish, TypeOK
  <1>4. /\ receipts' \in [Sources -> [RequestIds -> Receipts \cup {NoReceipt}]]
        /\ answer' \in [Sources -> Answers \cup {NoAnswer}]
    <2>1. CASE helper[s].req = NoRequest
      BY <2>1 DEF Finish, TypeOK
    <2>2. CASE helper[s].req # NoRequest
      <3> DEFINE req == helper[s].req
      <3>1. req \in Requests
        BY <2>2, BusyRun DEF Busied
      <3>2. [req |-> req, status |-> status] \in Receipts
        BY <3>1 DEF Receipts
      <3>3. receipts' = [receipts EXCEPT ![s][req.id] = [req |-> req, status |-> status]]
        BY <2>2 DEF Finish
      <3>4. receipts' \in [Sources -> [RequestIds -> Receipts \cup {NoReceipt}]]
        <4> HIDE DEF req
        <4> QED BY <3>2, <3>3 DEF TypeOK
      <3>5. (IF status = "ok" THEN Observed(s, req, list) ELSE Reply(req, status)) \in Answers
        BY <3>1, ReplyType, ObservedType
      <3>6. answer' = [answer EXCEPT ![s] =
                         IF status = "ok" THEN Observed(s, req, list) ELSE Reply(req, status)]
        BY <2>2 DEF Finish
      <3>7. QED
        BY <3>4, <3>5, <3>6 DEF TypeOK
    <2>3. QED
      BY <2>1, <2>2
  <1>5. QED
    BY <1>1, <1>2, <1>3, <1>4

(* A request that arrives keeps the types.                                 *)
LEMMA ReceiveType ==
    ASSUME TypeOK, NEW s \in Sources, NEW req \in Requests,
           \/ Refuse(s, req) \/ StoreFails(s, req) \/ Busy(s, req) \/ Replay(s, req)
           \/ Begin(s, req)
    PROVE  TypeOK'
  <1>1. CASE Refuse(s, req)
    BY <1>1, ReplyType DEF Refuse, TypeOK
  <1>2. CASE StoreFails(s, req) \/ Busy(s, req)
    BY <1>2, ReplyType DEF StoreFails, Busy, TypeOK
  <1>3. CASE Replay(s, req)
    <2>1. PICK networks \in readings[s] :
            answer' = [answer EXCEPT ![s] = Observed(s, req, Desired(s, networks))]
      BY <1>3 DEF Replay
    <2>2. Observed(s, req, Desired(s, networks)) \in Answers
      BY DesiredType, ObservedType
    <2>3. QED
      BY <1>3, <2>1, <2>2 DEF Replay, TypeOK
  <1>4. CASE Begin(s, req)
    <2>1. PICK networks \in readings[s] :
            /\ blocks' = [blocks EXCEPT ![s] = Wanted(s, req, networks)]
            /\ helper' = [helper EXCEPT ![s] = Opened(s, req, networks)]
      BY <1>4 DEF Begin
    <2>2. blocks' \in [Sources -> BlockLists]
      BY <2>1, WantedType DEF TypeOK
    <2>3. helper' \in [Sources -> Runs]
      BY <2>1, OpenedType DEF TypeOK, Runs, Busied
    <2>4. receipts' \in [Sources -> [RequestIds -> Receipts \cup {NoReceipt}]]
      <3>1. [req |-> req, status |-> "uncertain"] \in Receipts
        BY DEF Receipts
      <3>2. receipts' = [receipts EXCEPT ![s][req.id] = [req |-> req, status |-> "uncertain"]]
        BY <1>4 DEF Begin
      <3>3. QED
        BY <3>1, <3>2 DEF TypeOK
    <2>5. QED
      BY <1>4, <2>2, <2>3, <2>4 DEF Begin, TypeOK
  <1>5. QED
    BY <1>1, <1>2, <1>3, <1>4

(* So does the boot-time restore.                                          *)
LEMMA RestoreType ==
    ASSUME TypeOK, NEW s \in Sources, Restore(s)
    PROVE  TypeOK'
  <1>1. PICK networks \in readings[s] :
          /\ blocks' = [blocks EXCEPT ![s] = Desired(s, networks)]
          /\ helper' = [helper EXCEPT ![s] = Opened(s, NoRequest, networks)]
    BY DEF Restore
  <1>2. blocks' \in [Sources -> BlockLists]
    BY <1>1, DesiredType DEF TypeOK
  <1>3. helper' \in [Sources -> Runs]
    BY <1>1, OpenedType DEF TypeOK, Runs, Busied
  <1>4. QED
    BY <1>2, <1>3 DEF Restore, TypeOK

(* A committed batch leaves a block list in the kernel.                    *)
LEMMA CommitType ==
    ASSUME TypeOK, NEW s \in Sources, helper[s] # Idle, Commit(s)
    PROVE  table' \in [Sources -> BlockLists \cup {NoTable}]
  <1>1. PICK at \in helper[s].begun .. clock, f \in {0, 1}, g \in {0, 1} :
          table' = [table EXCEPT ![s] = Elements(blocks[s], at, f, g)]
    BY DEF Commit
  <1>2. helper[s].begun \in Nat /\ clock \in Nat
    BY BusyRun DEF Busied, Times, TypeOK
  <1>3. at \in Int
    BY <1>2
  <1>4. Elements(blocks[s], at, f, g) \in BlockLists
    BY <1>2, <1>3, ElementsType DEF TypeOK
  <1>5. QED
    BY <1>1, <1>4 DEF TypeOK

(* Only a run that holds the lock takes a step.                            *)
LEMMA RunIsBusy ==
    ASSUME TypeOK, NEW s \in Sources, RunStep(s)
    PROVE  helper[s] # Idle
  BY NotIdle DEF RunStep, Apply, ApplyRefused, ApplyTimeout, Verify, ReadbackFailed,
                 ReadbackUnavailable, ControlFailed

(* The steps of a run keep the types.                                      *)
LEMMA RunStepType ==
    ASSUME TypeOK, NEW s \in Sources, RunStep(s)
    PROVE  TypeOK'
  <1>0. helper[s] # Idle
    BY RunIsBusy
  <1>a. helper[s] \in Busied /\ helper[s].previous \in BlockLists
    BY <1>0, BusyRun DEF Busied
  <1>b. blocks[s] \in BlockLists
    BY DEF TypeOK
  <1>1. CASE Apply(s)
    <2>1. table' \in [Sources -> BlockLists \cup {NoTable}]
      BY <1>0, <1>1, CommitType DEF Apply
    <2>2. helper' \in [Sources -> Runs]
      <3>1. [helper[s] EXCEPT !.pc = "verify"] \in Busied
        BY <1>a DEF Busied
      <3>2. helper' = [helper EXCEPT ![s] = [helper[s] EXCEPT !.pc = "verify"]]
        BY <1>1 DEF Apply
      <3>3. QED
        BY <3>1, <3>2 DEF TypeOK, Runs, Busied
    <2>3. QED
      BY <1>1, <2>1, <2>2 DEF Apply, TypeOK
  <1>2. CASE ApplyRefused(s)
    <2>1. Finish(s, helper[s].previous, "error")
      BY <1>2 DEF ApplyRefused
    <2>2. QED
      BY <1>0, <1>a, <1>2, <2>1, FinishType DEF ApplyRefused, TypeOK
  <1>3. CASE ApplyTimeout(s)
    <2>1. Finish(s, blocks[s], "uncertain")
      BY <1>3 DEF ApplyTimeout
    <2>2. table' \in [Sources -> BlockLists \cup {NoTable}]
      BY <1>0, <1>3, CommitType DEF ApplyTimeout, TypeOK
    <2>3. QED
      BY <1>0, <1>b, <1>3, <2>1, <2>2, FinishType DEF ApplyTimeout, TypeOK
  <1>4. CASE Verify(s)
    <2>1. PICK status \in {"ok", "uncertain"} : Finish(s, blocks[s], status)
      BY <1>4 DEF Verify
    <2>2. QED
      BY <1>0, <1>b, <1>4, <2>1, FinishType DEF Verify, TypeOK
  <1>5. CASE ReadbackFailed(s)
    <2>1. Finish(s, blocks[s], "uncertain")
      BY <1>5 DEF ReadbackFailed
    <2>2. QED
      BY <1>0, <1>b, <1>5, <2>1, FinishType DEF ReadbackFailed, TypeOK
  <1>6. CASE ReadbackUnavailable(s)
    <2>1. Finish(s, helper[s].previous, "error")
      BY <1>6 DEF ReadbackUnavailable
    <2>2. QED
      BY <1>0, <1>a, <1>6, <2>1, FinishType DEF ReadbackUnavailable, TypeOK
  <1>7. CASE ControlFailed(s)
    <2>1. helper[s].req \in Requests
      BY <1>a, <1>7 DEF Busied, ControlFailed
    <2>2. QED
      BY <1>7, <2>1, ReplyType DEF ControlFailed, TypeOK, Runs, Idle
  <1>8. QED
    BY <1>1, <1>2, <1>3, <1>4, <1>5, <1>6, <1>7 DEF RunStep

(* So do crashes, reboots, flushes and new protections.                    *)
LEMMA DisturbType ==
    ASSUME TypeOK, NEW s \in Sources, Disturb(s)
    PROVE  TypeOK'
  <1>1. CASE Crash(s)
    BY <1>1 DEF Crash, TypeOK, Runs, Idle
  <1>2. CASE Reboot(s)
    BY <1>2 DEF Reboot, TypeOK, Runs, Idle
  <1>3. CASE Flush(s)
    BY <1>3 DEF Flush, TypeOK
  <1>4. ASSUME NEW ip \in IPs, Protect(s, ip)
        PROVE  TypeOK'
    BY <1>4 DEF Protect, TypeOK
  <1>5. QED
    BY <1>1, <1>2, <1>3, <1>4 DEF Disturb

(* So does time.                                                           *)
LEMMA TickType ==
    ASSUME TypeOK, Tick
    PROVE  TypeOK'
  <1>1. table' \in [Sources -> BlockLists \cup {NoTable}]
    BY DEF Tick, TypeOK, BlockLists
  <1>2. clock' \in Times
    BY DEF Tick, TypeOK, Times
  <1>3. QED
    BY <1>1, <1>2 DEF Tick, TypeOK

(* A fresh installation is well typed.                                     *)
LEMMA TypeInit ==
    ASSUME HostInit
    PROVE  TypeOK
  BY DEF HostInit, TypeOK, Nothing, BlockLists, Times, Runs, Idle

=============================================================================

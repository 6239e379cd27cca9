---------------------------- MODULE HostControl ----------------------------
(***************************************************************************)
(* The root-only block helper of scripts/ssh_block_control.py, one         *)
(* installation per source host.  A run of the helper holds an exclusive   *)
(* file lock, saves the block list it wants together with a receipt that   *)
(* says "uncertain", replaces the sets of its nftables table in one batch, *)
(* reads the table back and saves the outcome in the receipt.  A crash, a  *)
(* reboot, a flush by another firewall manager or a failed command can     *)
(* come between any two of these steps.                                    *)
(*                                                                         *)
(* Requests come from a caller that may repeat, delay and reorder them.    *)
(* Time is counted in seconds; a deadline is a second, or Permanent (the   *)
(* null of the protocol).  Absent stands for a missing row or element.     *)
(***************************************************************************)
EXTENDS Integers, FiniteSets

CONSTANTS
    Sources,        \* the hosts that run a helper
    IPs,            \* peer addresses, already in canonical form
    Channels,       \* "ssh", "tcp", "udp" or a part of them
    RequestIds,     \* ids a caller can use
    MaxTtl,         \* config max_ttl_seconds
    MaxBlocks,      \* MAX_BLOCKS, the capacity of the block list
    MaxClock,       \* bound on the clock of the model
    Faults,         \* the failures and outside events that can happen
    Permanent, Absent, NoReceipt, NoTable, NoRequest, NoAnswer

FaultKinds == {"read_failed", "nft_refused", "nft_timeout", "readback_failed",
               "readback_unavailable", "crash", "control_failed", "reboot", "restore",
               "flush", "protect"}

ASSUME MaxTtlAssumption == MaxTtl \in Nat
ASSUME MaxBlocksAssumption == MaxBlocks \in Nat
ASSUME FaultsAssumption == Faults \subseteq FaultKinds
ASSUME SentinelAssumption ==
    /\ Permanent \notin Nat /\ Absent \notin Nat /\ Permanent # Absent

VARIABLES
    clock,      \* the wall clock
    protect,    \* protect[s]: addresses the host protects
    readings,   \* readings[s]: the values of protect[s] that a run may have read
    blocks,     \* blocks[s][k]: persisted deadline of key k
    receipts,   \* receipts[s][id]: the saved receipt of a request
    table,      \* table[s]: the kernel's element deadlines, or NoTable
    helper,     \* helper[s]: the run that holds the lock
    answer,     \* answer[s]: the last answer a run printed
    settled     \* settled[s]: the last run verified and nothing disturbed it

hostVars == <<clock, protect, readings, blocks, receipts, table, helper, answer, settled>>

Keys == IPs \X Channels
Times == Nat
Deadlines == Times \cup {Permanent}
BlockLists == [Keys -> Deadlines \cup {Absent}]

ASSUME NoTableAssumption == NoTable \notin BlockLists

(* A mutating request; its expiry is Absent when it is a delete.           *)
Requests ==
    [id : RequestIds, action : {"add"}, ip : IPs, channel : Channels, expires : Deadlines]
    \cup
    [id : RequestIds, action : {"delete"}, ip : IPs, channel : Channels, expires : {Absent}]

ASSUME NoRequestAssumption == NoRequest \notin Requests

Key(req) == <<req.ip, req.channel>>

Receipts == [req : Requests, status : {"uncertain", "ok", "error"}]
ASSUME NoReceiptAssumption == NoReceipt \notin Receipts

Answers == [req : Requests, status : {"ok", "rejected", "uncertain", "error"},
            blocked : BOOLEAN, expires : Deadlines \cup {Absent}]
Runs == [pc : {"idle"}]
        \cup [pc : {"apply", "verify"}, req : Requests \cup {NoRequest},
              previous : BlockLists, begun : Times, networks : SUBSET IPs,
              current : BOOLEAN]
Idle == [pc |-> "idle"]

TypeOK ==
    /\ clock \in Times
    /\ protect \in [Sources -> SUBSET IPs]
    /\ readings \in [Sources -> SUBSET SUBSET IPs]
    /\ blocks \in [Sources -> BlockLists]
    /\ receipts \in [Sources -> [RequestIds -> Receipts \cup {NoReceipt}]]
    /\ table \in [Sources -> BlockLists \cup {NoTable}]
    /\ helper \in [Sources -> Runs]
    /\ answer \in [Sources -> Answers \cup {NoAnswer}]
    /\ settled \in [Sources -> BOOLEAN]

Nothing == [k \in Keys |-> Absent]

HostInit ==
    /\ clock = 0
    /\ protect = [s \in Sources |-> {}]
    /\ readings = [s \in Sources |-> {{}}]
    /\ blocks = [s \in Sources |-> Nothing]
    /\ receipts = [s \in Sources |-> [id \in RequestIds |-> NoReceipt]]
    /\ table = [s \in Sources |-> NoTable]
    /\ helper = [s \in Sources |-> Idle]
    /\ answer = [s \in Sources |-> NoAnswer]
    /\ settled = [s \in Sources |-> FALSE]

-----------------------------------------------------------------------------
(* The pure parts.                                                         *)

(* Store.desired: rows that have expired or are protected are not wanted.  *)
Desired(s, networks) ==
    [k \in Keys |-> IF \/ blocks[s][k] \in Times /\ blocks[s][k] <= clock
                       \/ k[1] \in networks
                    THEN Absent ELSE blocks[s][k]]

Size(list) == Cardinality({k \in Keys : list[k] # Absent})

Known(s, req) == receipts[s][req.id] # NoReceipt
(* Mutant of Conflicts: the payload of a reused id is not compared.        *)
ConflictsNever(s, req) == FALSE

Conflicts(s, req) == Known(s, req) /\ receipts[s][req.id].req # req
(* Only a receipt still "uncertain" is worked on again.                    *)
Reconciles(s, req) == Known(s, req) /\ receipts[s][req.id].status = "uncertain"

(* Mutant of Wanted: a run that reconciles repeats its operation.          *)
WantedAgain(s, req, networks) == [Desired(s, networks) EXCEPT ![Key(req)] = req.expires]

(* The list a run wants.  A run that reconciles takes the persisted list   *)
(* as it is: it never repeats the operation of its request.                *)
Wanted(s, req, networks) ==
    IF Reconciles(s, req) THEN Desired(s, networks)
    ELSE [Desired(s, networks) EXCEPT ![Key(req)] = req.expires]

DeadlineOutOfRange(req) ==
    /\ req.expires \in Times
    /\ req.expires <= clock \/ req.expires - clock > MaxTtl

(* The conditions under which a run answers "rejected" and changes nothing *)
Refused(s, req, networks) ==
    \/ Conflicts(s, req)
    \/ /\ ~Known(s, req)
       /\ req.action = "add"
       /\ req.ip \in networks \/ DeadlineOutOfRange(req)
    \/ /\ ~Known(s, req) \/ Reconciles(s, req)
       /\ Size(Wanted(s, req, networks)) > MaxBlocks

(* Kernel deadlines of a batch computed in second at and committed now: an *)
(* element gets a relative timeout of whole seconds, or is left out.  The  *)
(* floor of expiry - now loses the part of a second that has begun when    *)
(* the batch is computed (f = 1); the part begun when it is committed      *)
(* (g = 1) is added to the second in which the element expires.            *)
Elements(list, at, f, g) ==
    [k \in Keys |-> IF list[k] \in Times
                    THEN LET remaining == list[k] - at - f
                         IN IF remaining >= 1 THEN clock + remaining + g ELSE Absent
                    ELSE list[k]]

Present(s) == IF table[s] = NoTable THEN Nothing ELSE table[s]

(* Mutant of ReadsBack: an element that lasts too long is accepted.        *)
ReadsBackLate(s) ==
    /\ table[s] # NoTable
    /\ \A k \in Keys :
         LET actual == table[s][k]
             target == blocks[s][k]
         IN /\ actual # Absent => target # Absent
            /\ (target = Permanent \/ (target \in Times /\ target > clock + 1))
                 => actual # Absent
            /\ actual # Absent => ((actual = Permanent) <=> (target = Permanent))

(* What the readback must show before a run may answer "ok".               *)
ReadsBack(s) ==
    /\ table[s] # NoTable
    /\ \A k \in Keys :
         LET actual == table[s][k]
             target == blocks[s][k]
         IN /\ actual # Absent => target # Absent
            /\ (target = Permanent \/ (target \in Times /\ target > clock + 1))
                 => actual # Absent
            /\ actual # Absent =>
                 /\ (actual = Permanent) <=> (target = Permanent)
                 /\ actual \in Times => actual <= target + 1 /\ actual >= target - 12

(* observed_reply: the kernel says whether the key is blocked; the saved   *)
(* deadline replaces the kernel's when both are timed.                     *)
Observed(s, req, list) ==
    LET actual == Present(s)[Key(req)]
        target == list[Key(req)]
    IN [req |-> req, status |-> "ok", blocked |-> actual # Absent,
        expires |-> IF actual \in Times /\ target \in Times THEN target ELSE actual]

Reply(req, status) ==
    [req |-> req, status |-> status, blocked |-> FALSE, expires |-> Absent]

-----------------------------------------------------------------------------
(* The steps of a run.                                                     *)

(* networks is what the run read of the protected addresses before it had  *)
(* the lock: any value they had so far, as nothing bounds the time between.*)

(* A run that gives up before it saves anything: an id reused for another  *)
(* payload, a protected address, a deadline out of range, a full list, or  *)
(* a firewall that cannot be read (every such error answers "rejected").   *)
Refuse(s, req) ==
    /\ helper[s] = Idle
    /\ \/ \E networks \in readings[s] : Refused(s, req, networks)
       \/ "read_failed" \in Faults
    /\ answer' = [answer EXCEPT ![s] = Reply(req, "rejected")]
    /\ UNCHANGED <<clock, protect, readings, blocks, receipts, table, helper, settled>>

(* The database fails before anything is saved: main answers "error".      *)
StoreFails(s, req) ==
    /\ "control_failed" \in Faults
    /\ helper[s] = Idle
    /\ answer' = [answer EXCEPT ![s] = Reply(req, "error")]
    /\ UNCHANGED <<clock, protect, readings, blocks, receipts, table, helper, settled>>

(* control_busy: another run holds the lock for longer than five seconds.  *)
Busy(s, req) ==
    /\ helper[s] # Idle
    /\ answer' = [answer EXCEPT ![s] = Reply(req, "rejected")]
    /\ UNCHANGED <<clock, protect, readings, blocks, receipts, table, helper, settled>>

(* A request with a final receipt reports the present state; an old        *)
(* operation is never applied again.                                       *)
Replay(s, req) ==
    /\ helper[s] = Idle
    /\ Known(s, req) /\ ~Conflicts(s, req) /\ ~Reconciles(s, req)
    /\ \E networks \in readings[s] :
         answer' = [answer EXCEPT ![s] = Observed(s, req, Desired(s, networks))]
    /\ UNCHANGED <<clock, protect, readings, blocks, receipts, table, helper, settled>>

(* Mutant of Opened: the list to fall back to is read from the kernel.     *)
OpenedFromKernel(s, req, networks) ==
    [pc |-> "apply", req |-> req, previous |-> table[s], begun |-> clock,
     networks |-> networks, current |-> table[s] # NoTable]

(* The run of a request, or of NoRequest, takes the lock at this second.   *)
Opened(s, req, networks) ==
    [pc |-> "apply", req |-> req, previous |-> Desired(s, networks), begun |-> clock,
     networks |-> networks, current |-> table[s] # NoTable]

(* Save the wanted list and an "uncertain" receipt in one transaction.     *)
Begin(s, req) ==
    /\ helper[s] = Idle
    /\ ~Known(s, req) \/ Reconciles(s, req)
    /\ \E networks \in readings[s] :
         /\ ~Refused(s, req, networks)
         /\ blocks' = [blocks EXCEPT ![s] = Wanted(s, req, networks)]
         /\ helper' = [helper EXCEPT ![s] = Opened(s, req, networks)]
    /\ receipts' = [receipts EXCEPT ![s][req.id] = [req |-> req, status |-> "uncertain"]]
    /\ settled' = [settled EXCEPT ![s] = FALSE]
    /\ UNCHANGED <<clock, protect, readings, table, answer>>

(* The boot-time --restore run: the same path without a receipt.           *)
Restore(s) ==
    /\ "restore" \in Faults
    /\ helper[s] = Idle
    /\ \E networks \in readings[s] :
         /\ Size(Desired(s, networks)) <= MaxBlocks
         /\ blocks' = [blocks EXCEPT ![s] = Desired(s, networks)]
         /\ helper' = [helper EXCEPT ![s] = Opened(s, NoRequest, networks)]
    /\ settled' = [settled EXCEPT ![s] = FALSE]
    /\ UNCHANGED <<clock, protect, readings, receipts, table, answer>>

(* Save the outcome, print the answer and release the lock.                *)
Finish(s, list, status) ==
    LET run == helper[s] IN
    /\ blocks' = [blocks EXCEPT ![s] = list]
    /\ IF run.req = NoRequest
       THEN UNCHANGED <<receipts, answer>>
       ELSE /\ receipts' = [receipts EXCEPT ![s][run.req.id] =
                              [req |-> run.req, status |-> status]]
            /\ answer' = [answer EXCEPT ![s] =
                            IF status = "ok" THEN Observed(s, run.req, list)
                            ELSE Reply(run.req, status)]
    /\ helper' = [helper EXCEPT ![s] = Idle]
    /\ settled' = [settled EXCEPT ![s] = status = "ok" /\ run.networks = protect[s]]

(* The batch flushes the sets of the table the run has read, or creates    *)
(* the table; it fails when that table has gone in between.                *)
Committable(s) == helper[s].current => table[s] # NoTable

(* The atomic nft batch commits; its timeouts were computed at second at.  *)
Commit(s) ==
    /\ Committable(s)
    /\ \E at \in helper[s].begun .. clock, f \in {0, 1}, g \in {0, 1} :
         /\ at = clock => f <= g
         /\ table' = [table EXCEPT ![s] = Elements(blocks[s], at, f, g)]

Apply(s) ==
    /\ helper[s].pc = "apply"
    /\ Commit(s)
    /\ helper' = [helper EXCEPT ![s].pc = "verify"]
    /\ UNCHANGED <<clock, protect, readings, blocks, receipts, answer, settled>>

(* nft refuses the batch, or cannot be started: the intent is rolled back. *)
ApplyRefused(s) ==
    /\ helper[s].pc = "apply"
    /\ "nft_refused" \in Faults \/ ~Committable(s)
    /\ Finish(s, helper[s].previous, "error")
    /\ UNCHANGED <<clock, protect, readings, table>>

(* Mutant of ApplyTimeout: a timeout is taken for a refusal.               *)
ApplyTimeoutRefuses(s) ==
    /\ "nft_timeout" \in Faults
    /\ helper[s].pc = "apply"
    /\ Commit(s) \/ UNCHANGED table
    /\ Finish(s, helper[s].previous, "error")
    /\ UNCHANGED <<clock, protect, readings>>

(* nft does not answer in ten seconds: the batch may have been committed.  *)
ApplyTimeout(s) ==
    /\ "nft_timeout" \in Faults
    /\ helper[s].pc = "apply"
    /\ Commit(s) \/ UNCHANGED table
    /\ Finish(s, blocks[s], "uncertain")
    /\ UNCHANGED <<clock, protect, readings>>

(* The readback agrees with the saved list ("ok") or does not              *)
(* ("uncertain": the intent is kept for a later run).                      *)
Verify(s) ==
    /\ helper[s].pc = "verify"
    /\ Finish(s, blocks[s], IF ReadsBack(s) THEN "ok" ELSE "uncertain")
    /\ UNCHANGED <<clock, protect, readings, table>>

(* The readback command times out or fails.                                *)
ReadbackFailed(s) ==
    /\ "readback_failed" \in Faults
    /\ helper[s].pc = "verify"
    /\ Finish(s, blocks[s], "uncertain")
    /\ UNCHANGED <<clock, protect, readings, table>>

(* The readback command cannot be started.  Its code command_unavailable   *)
(* is taken for a refused batch although the batch has been committed.     *)
ReadbackUnavailable(s) ==
    /\ "readback_unavailable" \in Faults
    /\ helper[s].pc = "verify"
    /\ Finish(s, helper[s].previous, "error")
    /\ UNCHANGED <<clock, protect, readings, table>>

(* The database fails under the run: main answers "error", and neither the *)
(* list nor the receipt is saved again.                                    *)
ControlFailed(s) ==
    /\ "control_failed" \in Faults
    /\ helper[s] # Idle
    /\ helper[s].req # NoRequest
    /\ answer' = [answer EXCEPT ![s] = Reply(helper[s].req, "error")]
    /\ helper' = [helper EXCEPT ![s] = Idle]
    /\ UNCHANGED <<clock, protect, readings, blocks, receipts, table, settled>>

-----------------------------------------------------------------------------
(* The environment of the helper.                                          *)

(* The run dies without an answer; the lock goes with it.                  *)
Crash(s) ==
    /\ "crash" \in Faults
    /\ helper[s] # Idle
    /\ helper' = [helper EXCEPT ![s] = Idle]
    /\ UNCHANGED <<clock, protect, readings, blocks, receipts, table, answer, settled>>

(* The kernel's table is gone and so is any run.                           *)
Reboot(s) ==
    /\ "reboot" \in Faults
    /\ table[s] # NoTable
    /\ table' = [table EXCEPT ![s] = NoTable]
    /\ helper' = [helper EXCEPT ![s] = Idle]
    /\ settled' = [settled EXCEPT ![s] = FALSE]
    /\ UNCHANGED <<clock, protect, readings, blocks, receipts, answer>>

(* Another firewall manager replaces the ruleset under a run.              *)
Flush(s) ==
    /\ "flush" \in Faults
    /\ table[s] # NoTable
    /\ table' = [table EXCEPT ![s] = NoTable]
    /\ settled' = [settled EXCEPT ![s] = FALSE]
    /\ UNCHANGED <<clock, protect, readings, blocks, receipts, helper, answer>>

(* The configuration or an interface adds a protected address.             *)
Protect(s, ip) ==
    /\ "protect" \in Faults
    /\ ip \notin protect[s]
    /\ protect' = [protect EXCEPT ![s] = @ \cup {ip}]
    /\ readings' = [readings EXCEPT ![s] = @ \cup {protect[s] \cup {ip}}]
    /\ settled' = [settled EXCEPT ![s] = FALSE]
    /\ UNCHANGED <<clock, blocks, receipts, table, helper, answer>>

(* One second passes; the kernel drops the elements whose time has come.   *)
Tick ==
    /\ clock < MaxClock
    /\ clock' = clock + 1
    /\ table' = [s \in Sources |->
                   IF table[s] = NoTable THEN NoTable
                   ELSE [k \in Keys |-> IF table[s][k] \in Times /\ table[s][k] <= clock + 1
                                        THEN Absent ELSE table[s][k]]]
    /\ UNCHANGED <<protect, readings, blocks, receipts, helper, answer, settled>>

RunStep(s) ==
    \/ Apply(s) \/ ApplyRefused(s) \/ ApplyTimeout(s)
    \/ Verify(s) \/ ReadbackFailed(s) \/ ReadbackUnavailable(s) \/ ControlFailed(s)

Disturb(s) == Crash(s) \/ Reboot(s) \/ Flush(s) \/ (\E ip \in IPs : Protect(s, ip))

=============================================================================

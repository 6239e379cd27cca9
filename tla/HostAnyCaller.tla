--------------------------- MODULE HostAnyCaller ---------------------------
(***************************************************************************)
(* The block helper with the most general caller: any request of Calls may *)
(* arrive at any time, again and again and in any order.  Every behaviour  *)
(* of a real caller is one of these.                                       *)
(***************************************************************************)
EXTENDS HostControl

CONSTANTS Calls, NoEffect

ASSUME CallsAssumption == Calls \subseteq Requests

Receive(s, req) ==
    \/ Refuse(s, req) \/ StoreFails(s, req) \/ Busy(s, req) \/ Replay(s, req)
    \/ Begin(s, req)

Next ==
    \/ \E s \in Sources, req \in Calls : Receive(s, req)
    \/ \E s \in Sources : Restore(s) \/ RunStep(s) \/ Disturb(s)
    \/ Tick

Spec == HostInit /\ [][Next]_hostVars

-----------------------------------------------------------------------------
(* The kernel enforces the persisted list of s, up to a second.            *)
Enforces(s) ==
    /\ table[s] # NoTable
    /\ \A k \in Keys :
         LET actual == table[s][k]
             target == blocks[s][k]
         IN /\ actual # Absent =>
                 /\ target # Absent
                 /\ k[1] \notin protect[s]
                 /\ (actual = Permanent) <=> (target = Permanent)
                 /\ actual \in Times => actual <= target + 1
            /\ (target = Permanent \/ (target \in Times /\ target > clock + 1))
                 => actual # Absent

(* When the last run of a host verified and nothing has disturbed the host *)
(* since, the kernel table holds exactly the persisted blocks: no entry    *)
(* without a row, none for a protected address, no timed entry that        *)
(* outlives its row's deadline by more than a second, and every row that   *)
(* has more than a second to run is enforced.  (The point of the readback  *)
(* in execute, after timeouts, crashes, retries and boot-time restores.)   *)
EnforcementMatchesIntent == \A s \in Sources : settled[s] => Enforces(s)

(* Some accepted request asked to ban key k until d.                       *)
Accepted(s, k, d) ==
    \E id \in RequestIds :
        /\ receipts[s][id] # NoReceipt
        /\ receipts[s][id].req.action = "add"
        /\ Key(receipts[s][id].req) = k
        /\ receipts[s][id].req.expires = d

(* A row of the persisted list always carries the deadline of a request    *)
(* that was accepted for that key: a retry, a reboot, a refused batch that *)
(* is rolled back or a restore never grants a fresh duration.              *)
DeadlinesAreOriginal ==
    \A s \in Sources : \A k \in Keys :
        blocks[s][k] # Absent => Accepted(s, k, blocks[s][k])

(* The refinement mapping: what the id of a receipt asked for, and the     *)
(* list a refusal of the open run brings back.                             *)
Effects ==
    [s \in Sources |-> [id \in RequestIds |->
        IF receipts[s][id] = NoReceipt THEN NoEffect
        ELSE <<Key(receipts[s][id].req), receipts[s][id].req.expires>>]]

Undo == [s \in Sources |-> IF helper[s] = Idle THEN NoTable ELSE helper[s].previous]

Register == INSTANCE BlockRegister WITH
    intent <- blocks, effect <- Effects, undo <- Undo, NoUndo <- NoTable,
    Deadlines <- {req.expires : req \in Calls}

(* The helper implements the register: an id takes effect at most once and *)
(* an old add cannot bring back what a later delete removed.               *)
ImplementsRegister == Register!Spec

=============================================================================

--------------------------- MODULE BlockRegister ---------------------------
(***************************************************************************)
(* What the block helper promises its caller, without a firewall, receipts *)
(* or a lock: per source a list of wanted blocks, where                    *)
(*   - a request id takes effect at most once, however often it is sent;   *)
(*   - an entry appears only because a new id asks for it, or because the  *)
(*     refused operation that removed it is undone;                        *)
(*   - any operation may also drop entries (expired or protected ones).    *)
(***************************************************************************)
CONSTANTS Sources, Keys, RequestIds, Deadlines, Absent, NoEffect, NoUndo

VARIABLES
    intent,     \* intent[s][k]: deadline of the wanted block, or Absent
    effect,     \* effect[s][id]: what the id asked for when it took effect
    undo        \* undo[s]: the list a refusal of the open operation restores

vars == <<intent, effect, undo>>

Init ==
    /\ intent = [s \in Sources |-> [k \in Keys |-> Absent]]
    /\ effect = [s \in Sources |-> [id \in RequestIds |-> NoEffect]]
    /\ undo = [s \in Sources |-> NoUndo]

(* What is left of the wanted list of s when some entries are dropped.     *)
Without(s, dropped) == [k \in Keys |-> IF k \in dropped THEN Absent ELSE intent[s][k]]

(* A new request id takes effect: one key gets a deadline, or is removed.  *)
Take(s, id, k, d) ==
    /\ undo[s] = NoUndo
    /\ effect[s][id] = NoEffect
    /\ effect' = [effect EXCEPT ![s][id] = <<k, d>>]
    /\ \E dropped \in SUBSET Keys :
         /\ undo' = [undo EXCEPT ![s] = Without(s, dropped)]
         /\ intent' = [intent EXCEPT ![s] = [Without(s, dropped) EXCEPT ![k] = d]]

(* A repeated or boot-time operation: nothing appears.                     *)
Renew(s) ==
    /\ undo[s] = NoUndo
    /\ \E dropped \in SUBSET Keys :
         /\ undo' = [undo EXCEPT ![s] = Without(s, dropped)]
         /\ intent' = [intent EXCEPT ![s] = Without(s, dropped)]
    /\ UNCHANGED effect

(* The open operation ends, whatever its outcome.                          *)
Close(s) ==
    /\ undo[s] # NoUndo
    /\ undo' = [undo EXCEPT ![s] = NoUndo]
    /\ UNCHANGED <<intent, effect>>

(* The open operation was refused.                                         *)
Cancel(s) ==
    /\ undo[s] # NoUndo
    /\ intent' = [intent EXCEPT ![s] = undo[s]]
    /\ undo' = [undo EXCEPT ![s] = NoUndo]
    /\ UNCHANGED effect

Next ==
    \E s \in Sources :
        \/ \E id \in RequestIds, k \in Keys, d \in Deadlines \cup {Absent} : Take(s, id, k, d)
        \/ Renew(s) \/ Close(s) \/ Cancel(s)

Spec == Init /\ [][Next]_vars

=============================================================================

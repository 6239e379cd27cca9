-------------------------- MODULE MCHostAnyCaller --------------------------
(* One host and two addresses.                                             *)
EXTENDS HostAnyCaller

CONSTANTS s1, i1, i2

Add(id, ip, expires) ==
    [id |-> id, action |-> "add", ip |-> ip, channel |-> "ssh", expires |-> expires]
Delete(id, ip) ==
    [id |-> id, action |-> "delete", ip |-> ip, channel |-> "ssh", expires |-> Absent]

(* Nothing reads the answers here, so states that differ only in them are  *)
(* one state.                                                              *)
WithoutAnswers == <<clock, protect, readings, blocks, receipts, table, helper, settled>>

(* A timed ban, a permanent one that replaces it and an unban of i1, whose *)
(* id is also reused for a timed ban of i2; they compete for one place.    *)
AllCalls == {Add(1, i1, 2), Add(2, i1, Permanent), Delete(3, i1), Add(3, i2, 3)}

=============================================================================

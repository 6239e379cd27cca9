--------------------------- MODULE MCControlPlane ---------------------------
(* Operators' requests for the runs of the control plane.                  *)
EXTENDS ControlPlane

CONSTANTS s1, s2, i1, i2, op

Ban(targets, channels, duration) ==
    [action |-> "ban", targets |-> targets, channels |-> channels, duration |-> duration]
Unban(targets, channels) ==
    [action |-> "unban", targets |-> targets, channels |-> channels, duration |-> Permanent]

(* A ban and an unban of one key.                                          *)
OneKey == {Ban(<<<<s1, i1>>>>, {"ssh"}, Permanent), Unban(<<<<s1, i1>>>>, {"ssh"})}
OneKeyTimed == {Ban(<<<<s1, i1>>>>, {"ssh"}, 1), Unban(<<<<s1, i1>>>>, {"ssh"})}

(* Bans on each of two hosts and on both, and an unban on the first.       *)
EachHost == {Ban(<<<<s1, i1>>>>, {"ssh"}, Permanent), Ban(<<<<s2, i1>>>>, {"ssh"}, Permanent),
             Unban(<<<<s1, i1>>>>, {"ssh"})}
TwoHosts == EachHost \cup {Ban(<<<<s1, i1>>, <<s2, i1>>>>, {"ssh", "tcp"}, Permanent)}

BothHosts == {[ip |-> i1, sources |-> {s1, s2}], [ip |-> i1, sources |-> {s1}]}

Ids == (1 .. MaxPlans) \X (1 .. 2)

(* The answer a host printed last is kept by the worker when it matters.   *)
WithoutAnswers ==
    <<clock, protect, readings, blocks, receipts, table, helper, settled,
      plans, jobs, cache, checks, worker, wire, serving, triage, crashes>>

=============================================================================

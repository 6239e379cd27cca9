----------------------------- MODULE MCSocAudit -----------------------------
(* Two requests at a time, each with one alert.                            *)
EXTENDS SocWorkflow

OneBatch ==
    {<<[known |-> TRUE, broken |-> FALSE,
        alerts |-> <<[key |-> 1, ssh |-> FALSE, host |-> "x", severity |-> 20]>>]>>}
NoBonus == [host \in {"x"} |-> 0]
=============================================================================

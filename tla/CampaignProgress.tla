--------------------------- MODULE CampaignProgress ---------------------------
(***************************************************************************)
(* What the campaign tracker promises, without queues, statements or       *)
(* faults: pages are reported one by one, none is ever withdrawn, and the  *)
(* campaign completes once, after the last of them.                        *)
(***************************************************************************)
CONSTANT Pages

VARIABLES
    reported,   \* the pages whose counts are final
    completed   \* the campaign is finished

vars == <<reported, completed>>

Init ==
    /\ reported = {}
    /\ completed = FALSE

ReportPage(p) ==
    /\ ~completed
    /\ p \notin reported
    /\ reported' = reported \cup {p}
    /\ UNCHANGED completed

Complete ==
    /\ reported = Pages
    /\ completed' = TRUE
    /\ UNCHANGED reported

Next ==
    \/ \E p \in Pages : ReportPage(p)
    \/ Complete

Spec == Init /\ [][Next]_vars
===============================================================================

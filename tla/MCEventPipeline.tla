---------------------------- MODULE MCEventPipeline ----------------------------
(* Instances of EventPipeline for TLC: two replicas with one handler each.   *)
EXTENDS EventPipeline, TLC

CONSTANTS e1, r1, h1, h2, w1, w2

MCHostOf == (w1 :> h1) @@ (w2 :> h2)
MCSendsOf == [p \in Payloads |-> IF p = e1 THEN 2 ELSE 1]
===============================================================================

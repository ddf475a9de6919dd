----------------------------- MODULE MCJourneys -----------------------------
(* Instances of Journeys for TLC. *)
EXTENDS Journeys

Chain(kinds, manual) ==
    [kind |-> kinds, manual |-> manual,
     succ |-> [n \in DOMAIN kinds |->
                 IF n = Cardinality(DOMAIN kinds) THEN {} ELSE {n + 1}]]

MCSessions == 1 .. 2

\* Two deliveries of one message.
MCMsgOf == [d1 |-> "m1", d2 |-> "m1"]
MCDeliveries == DOMAIN MCMsgOf
MCRequests == {"start", "cancel", "remove"}

\* The run by hand, which brings a second workflow, is kept to one journey.
MCFlows == {Chain(<<"timed", "exit">>, FALSE),
            Chain(<<"event", "transfer">>, FALSE),
            Chain(<<"time">>, TRUE)}
=============================================================================

-------------------------- MODULE MCEventIngestion ----------------------------
(* Instances of EventIngestion for TLC: two events of one contact.           *)
EXTENDS EventIngestion

\* Every queue in one process, and those a worker of its own can consume.
MCModes ==
    {<<q, "single">> : q \in {"direct", "redis", "kafka", "rabbitmq"}}
        \cup {<<q, "split">> : q \in {"redis", "kafka", "rabbitmq"}}

\* Kafka in one process evaluates each event twice: one fault is enough there.
MCMaxFaults == [m \in MCModes |-> IF m = <<"kafka", "single">> THEN 1 ELSE 2]
===============================================================================

---------------------------- MODULE MessageBroker -----------------------------
(***************************************************************************)
(* IMessageBroker: the process consumes through the adapter BROKER_TYPE    *)
(* selects, and its consumers rely on the same promises with either.       *)
(***************************************************************************)
EXTENDS Naturals, Sequences, FiniteSets, Delivery

CONSTANTS Bodies, MaxLosses,
          Prefetch, MaxChannels, MaxCrashes,      \* RabbitConsumer
          Partitions, NoOffset, MaxSessions       \* KafkaConsumer

ASSUME BrokerAssumption ==
    /\ Prefetch \in Nat \ {0}
    /\ MaxChannels \in Nat \ {0}
    /\ MaxSessions \in Nat \ {0}
    /\ MaxLosses \in Nat
    /\ MaxCrashes \in Nat
    /\ NoOffset \notin Nat

VARIABLES
    brokerType,
    dead, running, settled, fails, losses,
    queue, out, conns, chans, listening, tags, channel, gen, active, dlqKnown,
    crashes,
    log, committed, position, session, skipped

rabbitVars == <<queue, out, conns, chans, listening, tags, channel, gen, active,
                dlqKnown, crashes>>
kafkaVars == <<log, committed, position, session, skipped>>
vars == <<brokerType, dead, running, settled, fails, losses, rabbitVars, kafkaVars>>

Rabbit == INSTANCE RabbitConsumer
Kafka == INSTANCE KafkaConsumer

Init ==
    /\ brokerType \in {"rabbitmq", "kafka"}
    /\ Rabbit!Init
    /\ IF brokerType = "kafka"
       THEN Kafka!Init
       ELSE /\ log = [p \in Partitions |-> <<>>]
            /\ committed = [p \in Partitions |-> NoOffset]
            /\ position = [p \in Partitions |-> 0]
            /\ session = 1
            /\ skipped = {}

\* The adapter that is not selected stays dormant.
With(type, Step, dormant) ==
    /\ brokerType = type
    /\ Step
    /\ UNCHANGED <<brokerType, dormant>>

RabbitStep == With("rabbitmq", Rabbit!Next, kafkaVars)
KafkaStep == With("kafka", Kafka!Next, rabbitVars)

Next == RabbitStep \/ KafkaStep

Spec == Init /\ [][Next]_vars

\* Either broker delivers while a consumer has room, a handler's work ends one
\* way or another, and RabbitMQ's reconnect loop never gives up.
Deliveries ==
    \/ With("rabbitmq", Rabbit!SomeDelivery, kafkaVars)
    \/ With("kafka", Kafka!SomeDelivery, rabbitVars)

HandlerSteps ==
    \/ With("rabbitmq", Rabbit!SomeHandlerStep, kafkaVars)
    \/ With("kafka", Kafka!SomeHandlerStep, rabbitVars)

Fairness ==
    /\ WF_vars(Deliveries)
    /\ WF_vars(HandlerSteps)
    /\ WF_vars(With("rabbitmq", Rabbit!Reconnect, kafkaVars))

FairSpec == Spec /\ Fairness

-----------------------------------------------------------------------------
(* Properties.                                                             *)

TypeOK ==
    /\ brokerType \in {"rabbitmq", "kafka"}
    /\ brokerType = "rabbitmq" => Rabbit!TypeOK
    /\ brokerType = "kafka" => Kafka!TypeOK

\* At-least-once.  RabbitMQ loses no message to a crash as long as every channel
\* outlives its handlers; Kafka loses none to a crash or a rebalance, but for
\* one whose handler gave up or a partition the group never committed on.
AtLeastOnce ==
    IF brokerType = "kafka" THEN Kafka!NothingLost
                            ELSE Rabbit!NothingLostWithoutLosses

\* The redelivery backstop dead-letters a message only after DeliveryLimit
\* failures of its own work (on Kafka a refused acknowledgement is one too):
\* crashes, losses and rebalances never count.
DeadOnlyAfterLimit ==
    \A m \in Waiting(dead) : fails[m.body] >= DeliveryLimit

\* The broker contract: no message is lost, and none gives up its redeliveries
\* early.
NoneLostNoneEarly == TypeOK /\ AtLeastOnce /\ DeadOnlyAfterLimit

\* A settlement settles what its handler was given: on RabbitMQ a delivery leaves
\* the books only when its channel closes or its own handler ends, on Kafka no
\* handler takes the group back over offsets it has committed.
SettlesOwnDelivery == [][Rabbit!SettlesOwn /\ Kafka!NeverBack]_vars

\* Every message is processed or dead-lettered in the end, whatever fails or
\* crashes, but for RabbitMQ's lost channels and what Kafka's group left behind.
Excused(b) == IF brokerType = "kafka" THEN b \in skipped ELSE losses > 0

EventuallyFinished ==
    \A b \in Bodies :
        (brokerType = "kafka" => Kafka!Published(b))
            ~> (Kafka!Finished(b) \/ Excused(b))
===============================================================================

-------------------------- MODULE MessageBrokerProofs --------------------------
(***************************************************************************)
(* What consumers may rely on with either broker, for any messages, any    *)
(* number of channels, sessions and partitions, and any number of losses   *)
(* and crashes: no message is lost but in the ways each adapter is known   *)
(* to, none is dead-lettered before its own work has failed often enough,  *)
(* and a settlement settles what its handler was given.                    *)
(*                                                                         *)
(* For RabbitMQ the argument is that, while no channel is lost, a handler  *)
(* runs on the channel of its delivery and no other has its tag; for Kafka *)
(* that the handler of the present session stands right before the offset  *)
(* that is read next, and that what was read and is no longer handled was  *)
(* settled, sent again, or left behind.                                    *)
(*                                                                         *)
(* And what the events API promises of an accepted event, over each queue  *)
(* it can be given to (EventIngestion): it is followed from hand to hand,  *)
(* and as long as evaluations take turns none undoes an earlier one.       *)
(*                                                                         *)
(* And which journeys such an event starts (JourneyTriggers): as long as   *)
(* only one party works on a journey, what that party knows of it, what    *)
(* the cache says and what the row says agree.                             *)
(*                                                                         *)
(* And what the caches of a link and of a segment say of their rows        *)
(* (EntityCache, ShortLinks, SegmentsApi): an entry that may mislead has a *)
(* request left that will remove it, or nobody could have.                 *)
(***************************************************************************)
EXTENDS MessageBroker, EventIngestion, JourneyTriggers, SegmentsApi, FiniteSetTheorems, TLAPS

Copies == Messages(Bodies)

-----------------------------------------------------------------------------
(* The inductive invariant: RabbitMQ.                                      *)

SameDelivery(d, e) == d.chan = e.chan /\ d.tag = e.tag

DeliveryOf(h) == [chan |-> h.chan, tag |-> h.tag, msg |-> h.msg]

\* A tag of a channel names one delivery and one handler.
TagsInv ==
    /\ IsFiniteSet(out)
    /\ \A d \in out : d.chan \in chans /\ d.tag <= tags[d.chan]
    /\ \A h \in running : h.tag <= tags[h.chan]
    /\ \A d, e \in out : SameDelivery(d, e) => d = e
    /\ \A g, h \in running : SameDelivery(g, h) => g = h

\* While no channel was lost, every handler runs on the adapter's channel and its
\* delivery is still open there.
CalmInv ==
    losses = 0 =>
        /\ listening \subseteq {channel}
        /\ \A h \in running :
            h.chan = channel /\ h.via \in {0, channel} /\ DeliveryOf(h) \in out
        /\ \A b \in Bodies : b \in settled \/ Rabbit!HeldByBroker(b)

\* A copy's attempts are failures of its own work, one that awaits its DLQ has
\* had its last one.
RabbitFailures ==
    /\ \A m \in Waiting(queue) : fails[m.body] >= m.attempt
    /\ \A d \in out : fails[d.msg.body] >= d.msg.attempt
    /\ \A h \in running :
        /\ fails[h.msg.body] >= h.msg.attempt
        /\ h.via # 0 => Exhausted(h.msg) /\ fails[h.msg.body] >= DeliveryLimit

\* With RabbitMQ no offset is committed.
Dormant == committed = [p \in Partitions |-> NoOffset]

RabbitInv == Rabbit!TypeOK /\ TagsInv /\ CalmInv /\ RabbitFailures /\ DeadOnlyAfterLimit

-----------------------------------------------------------------------------
(* The inductive invariant: Kafka.                                         *)

Live(h) == h.session = session

Uncommitted(h) ==
    committed[h.partition] = NoOffset \/ committed[h.partition] <= h.offset

\* The one handler of a partition in this session has the message before the next
\* one to read, and its offset is not yet committed.
PlacesInv ==
    /\ \A p \in Partitions :
        /\ position[p] <= Len(log[p])
        /\ committed[p] # NoOffset => committed[p] <= position[p]
    /\ \A h \in running :
        /\ h.session <= session
        /\ Live(h) => /\ position[h.partition] = h.offset + 1
                      /\ log[h.partition][h.offset + 1] = h.msg
                      /\ Uncommitted(h)
    /\ \A g, h \in running : Live(g) /\ Live(h) /\ g.partition = h.partition => g = h

Unread(b) == \E p \in Partitions : \E i \in DOMAIN log[p] : i > position[p] /\ log[p][i].body = b

BeingHandled(b) == \E h \in running : Live(h) /\ h.pc # "commit" /\ h.msg.body = b

\* What was published is safe without the handlers of older sessions.
Safe(b) == Kafka!Finished(b) \/ b \in skipped \/ Unread(b) \/ BeingHandled(b)

SafeInv == \A b \in Bodies : Kafka!Published(b) => Safe(b)

KafkaFailures ==
    /\ \A p \in Partitions : \A i \in DOMAIN log[p] :
        fails[log[p][i].body] >= log[p][i].attempt
    /\ \A h \in running :
        /\ fails[h.msg.body] >= h.msg.attempt
        /\ h.pc # "work" => fails[h.msg.body] >= NextAttempt(h.msg)

KafkaInv ==
    Kafka!TypeOK /\ PlacesInv /\ SafeInv /\ KafkaFailures /\ DeadOnlyAfterLimit

BrokerInv ==
    /\ brokerType \in {"rabbitmq", "kafka"}
    /\ brokerType = "rabbitmq" => RabbitInv /\ Dormant
    /\ brokerType = "kafka" => KafkaInv

-----------------------------------------------------------------------------
(* The queue operators of the two adapters are those of Delivery.          *)

LEMMA RabbitOperators ==
    /\ Rabbit!Message = Copies
    /\ \A q : Rabbit!Waiting(q) = Waiting(q)
    /\ \A S : Rabbit!Cardinality(S) = Cardinality(S)
    /\ \A q : \A m \in Copies :
        /\ Rabbit!Remove(q, m) = Remove(q, m)
        /\ Rabbit!QueueAfterNack(q, m) = QueueAfterNack(q, m)
        /\ Rabbit!DeadAfterNack(q, m) = DeadAfterNack(q, m)
        /\ Rabbit!Exhausted(m) <=> Exhausted(m)
  <1>1. Rabbit!Message = Copies
    BY DEF Rabbit!Message, Rabbit!Messages, Messages, Copies
  <1>2. ASSUME NEW q PROVE Rabbit!Waiting(q) = Waiting(q)
    BY DEF Rabbit!Waiting, Waiting
  <1>c. ASSUME NEW S PROVE Rabbit!Cardinality(S) = Cardinality(S)
    BY DEF Rabbit!Cardinality, Cardinality
  <1>3. ASSUME NEW q, NEW m \in Copies
        PROVE  /\ Rabbit!Remove(q, m) = Remove(q, m)
               /\ Rabbit!QueueAfterNack(q, m) = QueueAfterNack(q, m)
               /\ Rabbit!DeadAfterNack(q, m) = DeadAfterNack(q, m)
               /\ Rabbit!Exhausted(m) <=> Exhausted(m)
    BY <1>3 DEF Copies, Messages, Rabbit!Add, Add, Rabbit!Remove, Remove,
         Rabbit!QueueAfterNack, QueueAfterNack, Rabbit!DeadAfterNack, DeadAfterNack,
         Rabbit!Exhausted, Exhausted, Rabbit!NextAttempt, NextAttempt
  <1>4. QED
    BY <1>1, <1>2, <1>c, <1>3

LEMMA KafkaOperators ==
    /\ Kafka!Message = Copies
    /\ \A q : Kafka!Waiting(q) = Waiting(q)
    /\ \A b : Kafka!FirstCopy(b) = FirstCopy(b)
    /\ \A q : \A m \in Copies :
        /\ Kafka!DeadAfterNack(q, m) = DeadAfterNack(q, m)
        /\ Kafka!NextAttempt(m) = NextAttempt(m)
        /\ Kafka!Exhausted(m) <=> Exhausted(m)
  <1>1. Kafka!Message = Copies
    BY DEF Kafka!Message, Kafka!Messages, Messages, Copies
  <1>2. ASSUME NEW q PROVE Kafka!Waiting(q) = Waiting(q)
    BY DEF Kafka!Waiting, Waiting
  <1>3. ASSUME NEW b PROVE Kafka!FirstCopy(b) = FirstCopy(b)
    BY DEF Kafka!FirstCopy, FirstCopy
  <1>4. ASSUME NEW q, NEW m \in Copies
        PROVE  /\ Kafka!DeadAfterNack(q, m) = DeadAfterNack(q, m)
               /\ Kafka!NextAttempt(m) = NextAttempt(m)
               /\ Kafka!Exhausted(m) <=> Exhausted(m)
    BY <1>4 DEF Kafka!Add, Add, Kafka!DeadAfterNack, DeadAfterNack,
         Kafka!Exhausted, Exhausted, Kafka!NextAttempt, NextAttempt
  <1>5. QED
    BY <1>1, <1>2, <1>3, <1>4

\* What a nack does to a copy that has failed as often as it counts.
LEMMA NackFails ==
    ASSUME NEW q \in [Copies -> Nat], NEW d \in [Copies -> Nat], NEW m \in Copies,
           NEW f \in [Bodies -> 0 .. DeliveryLimit], f[m.body] >= NextAttempt(m),
           \A n \in Waiting(q) : f[n.body] >= n.attempt,
           \A n \in Waiting(d) : f[n.body] >= DeliveryLimit
    PROVE  /\ \A n \in Waiting(QueueAfterNack(q, m)) : f[n.body] >= n.attempt
           /\ \A n \in Waiting(DeadAfterNack(d, m)) : f[n.body] >= DeliveryLimit
  <1>1. CASE Exhausted(m)
    <2>1. f[m.body] >= DeliveryLimit
      BY <1>1, DeliveryLimitAssumption DEF Exhausted, NextAttempt, Copies, Messages
    <2>2. QueueAfterNack(q, m) = q /\ Waiting(DeadAfterNack(d, m)) = Waiting(d) \cup {m}
      BY <1>1, WaitingAfter DEF QueueAfterNack, DeadAfterNack
    <2>3. QED
      BY <2>1, <2>2
  <1>2. CASE ~Exhausted(m)
    <2> DEFINE n == [m EXCEPT !.attempt = NextAttempt(m)]
    <2>1. n \in Copies /\ n.body = m.body /\ n.attempt = NextAttempt(m)
      BY <1>2, DeliveryLimitAssumption DEF Copies, Messages, Exhausted, NextAttempt
    <2>2. Waiting(QueueAfterNack(q, m)) = Waiting(q) \cup {n} /\ DeadAfterNack(d, m) = d
      BY <1>2, <2>1, WaitingAfter DEF QueueAfterNack, DeadAfterNack
    <2>3. QED
      BY <2>1, <2>2
  <1>3. QED
    BY <1>1, <1>2

\* The copies that wait are copies.
LEMMA WaitingType ==
    ASSUME NEW q \in [Copies -> Nat]
    PROVE  Waiting(q) \subseteq Copies /\ \A m \in Waiting(q) : m.body \in Bodies
  <1>1. Waiting(q) \subseteq Copies
    BY DEF Waiting
  <1>2. QED
    BY <1>1 DEF Copies, Messages

-----------------------------------------------------------------------------
(* RabbitMQ: what closes.                                                  *)

RabbitTypes ==
    /\ queue \in [Copies -> Nat]
    /\ dead \in [Copies -> Nat]
    /\ out \subseteq [chan : 1 .. MaxChannels, tag : Nat, msg : Copies]
    /\ running \subseteq [chan : 1 .. MaxChannels, tag : Nat, msg : Copies, via : 0 .. MaxChannels]
    /\ chans \subseteq conns
    /\ conns \subseteq 1 .. gen
    /\ listening \subseteq chans
    /\ tags \in [1 .. MaxChannels -> Nat]
    /\ gen \in 1 .. MaxChannels
    /\ channel \in 0 .. gen
    /\ fails \in [Bodies -> 0 .. DeliveryLimit]
    /\ losses \in 0 .. MaxLosses

LEMMA RabbitTypesAre == ASSUME Rabbit!TypeOK PROVE RabbitTypes
  BY RabbitOperators DEF Rabbit!TypeOK, RabbitTypes, Rabbit!Delivered, Rabbit!Handlers, Rabbit!Channels

\* A closing channel returns what it had delivered.
LEMMA ReturnedQueue ==
    ASSUME NEW q \in [Copies -> Nat], NEW gone, IsFiniteSet(out)
    PROVE  /\ Rabbit!Returned(q, gone) \in [Copies -> Nat]
           /\ Waiting(Rabbit!Returned(q, gone)) =
                Waiting(q) \cup {m \in Copies : \E d \in out : d.chan \in gone /\ d.msg = m}
  <1> DEFINE on(m) == {d \in Rabbit!UnackedOn(gone) : d.msg = m}
  <1>1. ASSUME NEW m \in Copies
        PROVE  /\ Cardinality(on(m)) \in Nat
               /\ Cardinality(on(m)) > 0 <=> \E d \in out : d.chan \in gone /\ d.msg = m
    <2>1. IsFiniteSet(on(m))
      BY FS_Subset DEF Rabbit!UnackedOn
    <2>2. Cardinality(on(m)) \in Nat /\ (Cardinality(on(m)) = 0 <=> on(m) = {})
      BY <2>1, FS_CardinalityType, FS_EmptySet
    <2>3. on(m) # {} <=> \E d \in out : d.chan \in gone /\ d.msg = m
      BY DEF Rabbit!UnackedOn
    <2>4. QED
      BY <2>2, <2>3
  <1>2. Rabbit!Returned(q, gone) = [m \in Copies |-> q[m] + Cardinality(on(m))]
    BY RabbitOperators DEF Rabbit!Returned
  <1> HIDE DEF on
  <1>3. Rabbit!Returned(q, gone) \in [Copies -> Nat]
    BY <1>1, <1>2
  <1>4. ASSUME NEW m
        PROVE  m \in Waiting(Rabbit!Returned(q, gone)) <=>
                 m \in Copies /\ (m \in Waiting(q) \/ \E d \in out : d.chan \in gone /\ d.msg = m)
    BY <1>1, <1>2 DEF Waiting
  <1>5. Waiting(q) \subseteq Copies
    BY DEF Waiting
  <1>6. QED
    BY <1>3, <1>4, <1>5

\* The broker's books get shorter, and what they lose that was not settled waits
\* again; q is the queue before it gets that.
Shrinks(q) ==
    /\ queue' \in [Copies -> Nat]
    /\ Waiting(queue') \subseteq Waiting(q) \cup Waiting(queue) \cup {d.msg : d \in out}
    /\ out' \subseteq out
    /\ \A d \in out' : d.chan \in chans'
    /\ chans' \subseteq chans \cap conns'
    /\ conns' \subseteq conns
    /\ listening' \subseteq listening \cap chans'
    /\ tags' = tags /\ gen' = gen
    /\ channel' \in {0, channel}
    /\ active' \in BOOLEAN /\ dlqKnown' \in BOOLEAN

LEMMA ClosesShrinks ==
    ASSUME Rabbit!TypeOK, TagsInv, NEW c, NEW q \in [Copies -> Nat], NEW known \in BOOLEAN,
           Rabbit!ChannelCloses(c, q, known), conns' \in {conns, conns \ {c}}
    PROVE  /\ Shrinks(q)
           /\ \A d \in out \ out' : d.chan \notin chans'
  <1>1. /\ Rabbit!Returned(q, {c}) \in [Copies -> Nat]
        /\ Waiting(Rabbit!Returned(q, {c})) =
             Waiting(q) \cup {m \in Copies : \E d \in out : d.chan \in {c} /\ d.msg = m}
    BY ReturnedQueue DEF TagsInv
  <1>2. Waiting(queue') \subseteq Waiting(q) \cup Waiting(queue) \cup {d.msg : d \in out}
    BY <1>1 DEF Rabbit!ChannelCloses
  <1>3. /\ out' = {d \in out : d.chan # c} /\ chans' = chans \ {c} /\ listening' = listening \ {c}
        /\ tags' = tags /\ gen' = gen /\ queue' \in [Copies -> Nat]
    BY <1>1 DEF Rabbit!ChannelCloses, Rabbit!UnackedOn
  <1>4. channel' \in {0, channel} /\ active' \in BOOLEAN /\ dlqKnown' \in BOOLEAN
    BY DEF Rabbit!ChannelCloses, Rabbit!HandleClose, Rabbit!TypeOK
  <1>5. /\ \A d \in out' : d.chan \in chans'
        /\ \A d \in out \ out' : d.chan \notin chans'
    BY <1>3 DEF TagsInv
  <1>6. chans \subseteq conns /\ listening \subseteq chans
    BY DEF Rabbit!TypeOK
  <1>7. QED
    BY <1>2, <1>3, <1>4, <1>5, <1>6 DEF Shrinks

\* Settling a delivery: nothing is sent, or the delivery of that tag is taken off
\* the books, or the channel closes.
LEMMA AcknowledgeShrinks ==
    ASSUME Rabbit!TypeOK, TagsInv, NEW h, NEW q \in [Copies -> Nat], NEW d \in [Copies -> Nat],
           NEW known \in BOOLEAN, Rabbit!Acknowledge(h, q, d, known)
    PROVE  /\ Shrinks(q)
           /\ dead' \in {dead, d}
           /\ \A e \in out \ out' : e.chan \notin chans' \/ (e.chan = channel /\ e.tag = h.tag)
  <1> USE DEF Rabbit!Acknowledge
  <1>0. /\ queue \in [Copies -> Nat] /\ chans \subseteq conns /\ listening \subseteq chans
        /\ active \in BOOLEAN
    BY RabbitTypesAre DEF RabbitTypes, Rabbit!TypeOK
  <1>1. CASE ~Rabbit!Usable
    BY <1>0, <1>1 DEF Rabbit!NothingSent, Rabbit!brokerVars, Shrinks, TagsInv
  <1>2. CASE Rabbit!Usable /\ Rabbit!Named(h) # {}
    BY <1>0, <1>2 DEF Rabbit!AckFrame, Rabbit!Named, Shrinks, TagsInv
  <1>3. CASE Rabbit!Usable /\ Rabbit!Named(h) = {}
    BY <1>3, ClosesShrinks DEF Rabbit!AckFrame
  <1>4. QED
    BY <1>1, <1>2, <1>3

\* While no channel was lost it does what it is meant for.
LEMMA AcknowledgeCalm ==
    ASSUME Rabbit!TypeOK, TagsInv, CalmInv, losses = 0, NEW h \in running,
           NEW q, NEW d, NEW known, Rabbit!Acknowledge(h, q, d, known)
    PROVE  /\ queue' = q /\ dead' = d /\ out' = out \ {DeliveryOf(h)}
           /\ chans' = chans /\ listening' = listening /\ channel' = channel
  <1>1. DeliveryOf(h) \in out /\ h.chan = channel
    BY DEF CalmInv
  <1>2. Rabbit!Usable
    BY <1>1 DEF TagsInv, DeliveryOf, Rabbit!Usable
  <1>3. Rabbit!Named(h) = {DeliveryOf(h)}
    BY <1>1 DEF Rabbit!Named, TagsInv, SameDelivery, DeliveryOf
  <1>4. QED
    BY <1>2, <1>3 DEF Rabbit!Acknowledge, Rabbit!AckFrame

-----------------------------------------------------------------------------
(* RabbitMQ: what the steps that shorten the books keep.                   *)

LEMMA RabbitTypesMake ==
    ASSUME RabbitTypes', active' \in BOOLEAN, dlqKnown' \in BOOLEAN,
           settled' \subseteq Bodies, crashes' \in 0 .. MaxCrashes
    PROVE  Rabbit!TypeOK'
  BY RabbitOperators DEF Rabbit!TypeOK, RabbitTypes, Rabbit!Delivered, Rabbit!Handlers, Rabbit!Channels

Grows == fails' \in [Bodies -> 0 .. DeliveryLimit] /\ \A b \in Bodies : fails'[b] >= fails[b]

LEMMA ShrinksType ==
    ASSUME Rabbit!TypeOK, NEW q, Shrinks(q), dead' \in [Copies -> Nat],
           running' \subseteq running, Grows, settled' \subseteq Bodies,
           losses' \in 0 .. MaxLosses, crashes' \in 0 .. MaxCrashes
    PROVE  Rabbit!TypeOK'
  <1>1. RabbitTypes
    BY RabbitTypesAre
  <1>2. /\ queue' \in [Copies -> Nat] /\ tags' = tags /\ gen' = gen
        /\ out' \subseteq out /\ chans' \subseteq conns' /\ conns' \subseteq conns
        /\ listening' \subseteq chans' /\ channel' \in {0, channel}
        /\ active' \in BOOLEAN /\ dlqKnown' \in BOOLEAN
    BY DEF Shrinks
  <1>3. channel' \in 0 .. gen
    BY <1>1, <1>2 DEF RabbitTypes
  <1>4. fails' \in [Bodies -> 0 .. DeliveryLimit]
    BY DEF Grows
  <1>5. RabbitTypes'
    BY <1>1, <1>2, <1>3, <1>4 DEF RabbitTypes
  <1>6. QED
    BY <1>2, <1>5, RabbitTypesMake

LEMMA ShrinksTags ==
    ASSUME TagsInv, NEW q, Shrinks(q), running' \subseteq running
    PROVE  TagsInv'
  <1>1. IsFiniteSet(out')
    BY FS_Subset DEF TagsInv, Shrinks
  <1>2. QED
    BY <1>1 DEF TagsInv, Shrinks, SameDelivery

LEMMA ShrinksFailures ==
    ASSUME Rabbit!TypeOK, RabbitFailures, NEW q \in [Copies -> Nat], Shrinks(q),
           running' \subseteq running, Grows,
           \A n \in Waiting(q) : fails'[n.body] >= n.attempt
    PROVE  RabbitFailures'
  <1>1. RabbitTypes
    BY RabbitTypesAre
  <1>2. ASSUME NEW m \in Copies, fails[m.body] >= m.attempt
        PROVE  fails'[m.body] >= m.attempt
    BY <1>1, <1>2 DEF Grows, RabbitTypes, Copies, Messages
  <1>3. \A m \in Waiting(queue') : fails'[m.body] >= m.attempt
    <2>1. \A m \in Waiting(queue) : fails'[m.body] >= m.attempt
      BY <1>1, <1>2, WaitingType DEF RabbitFailures, RabbitTypes
    <2>2. \A d \in out : fails'[d.msg.body] >= d.msg.attempt
      BY <1>1, <1>2 DEF RabbitFailures, RabbitTypes
    <2>3. QED
      BY <2>1, <2>2 DEF Shrinks
  <1>4. \A d \in out' : fails'[d.msg.body] >= d.msg.attempt
    BY <1>1, <1>2 DEF RabbitFailures, RabbitTypes, Shrinks
  <1>5. ASSUME NEW h \in running'
        PROVE  /\ fails'[h.msg.body] >= h.msg.attempt
               /\ h.via # 0 => Exhausted(h.msg) /\ fails'[h.msg.body] >= DeliveryLimit
    <2>1. h \in running /\ h.msg \in Copies
      BY <1>1 DEF RabbitTypes
    <2>2. h.msg.body \in Bodies
      BY <2>1 DEF Copies, Messages
    <2>3. fails[h.msg.body] \in Nat /\ fails'[h.msg.body] \in Nat /\ fails'[h.msg.body] >= fails[h.msg.body]
      BY <1>1, <2>2 DEF Grows, RabbitTypes
    <2>4. QED
      BY <1>2, <2>1, <2>3, DeliveryLimitAssumption DEF RabbitFailures
  <1>6. QED
    BY <1>3, <1>4, <1>5 DEF RabbitFailures

LEMMA ShrinksDead ==
    ASSUME Rabbit!TypeOK, DeadOnlyAfterLimit, NEW d \in [Copies -> Nat], dead' \in {dead, d}, Grows,
           \A n \in Waiting(d) : fails'[n.body] >= DeliveryLimit
    PROVE  DeadOnlyAfterLimit'
  <1>1. RabbitTypes
    BY RabbitTypesAre
  <1>2. ASSUME NEW m \in Waiting(dead) PROVE fails'[m.body] >= DeliveryLimit
    <2>1. m.body \in Bodies
      BY <1>1, WaitingType DEF RabbitTypes
    <2>2. fails[m.body] >= DeliveryLimit /\ fails'[m.body] >= fails[m.body]
      BY <2>1 DEF DeadOnlyAfterLimit, Grows
    <2>3. fails[m.body] \in Nat /\ fails'[m.body] \in Nat
      BY <1>1, <2>1 DEF Grows, RabbitTypes
    <2>4. QED
      BY <2>2, <2>3, DeliveryLimitAssumption
  <1>3. QED
    BY <1>2 DEF DeadOnlyAfterLimit

\* A failure counted is enough for the next attempt.
LEMMA FailureCounted ==
    ASSUME fails \in [Bodies -> 0 .. DeliveryLimit], NEW m \in Copies, fails[m.body] >= m.attempt,
           fails' = [fails EXCEPT ![m.body] = IF @ < DeliveryLimit THEN @ + 1 ELSE @]
    PROVE  Grows /\ fails'[m.body] >= NextAttempt(m)
  BY DeliveryLimitAssumption DEF Grows, Copies, Messages, NextAttempt

LEMMA NothingCounted ==
    ASSUME Rabbit!TypeOK, fails' = fails
    PROVE  Grows
  BY RabbitTypesAre DEF RabbitTypes, Grows

\* What the broker holds, in terms of Delivery.
LEMMA HeldIs ==
    /\ \A b : Rabbit!HeldByBroker(b) <=> \/ \E m \in Waiting(queue) \cup Waiting(dead) : m.body = b
                                         \/ \E d \in out : d.msg.body = b
    /\ \A b : Rabbit!HeldByBroker(b)' <=> \/ \E m \in Waiting(queue') \cup Waiting(dead') : m.body = b
                                          \/ \E d \in out' : d.msg.body = b
  BY RabbitOperators DEF Rabbit!HeldByBroker

\* A handler that ends without a loss takes its own delivery off the books, once its
\* message is settled or waits again.
LEMMA EndsCalm ==
    ASSUME RabbitInv, NEW h \in running, losses' = losses,
           NEW q, NEW d, NEW known, Rabbit!Acknowledge(h, q, d, known),
           running' = running \ {h}, settled \subseteq settled',
           Waiting(queue) \subseteq Waiting(q), Waiting(dead) \subseteq Waiting(d),
           \/ h.msg.body \in settled'
           \/ \E n \in Waiting(q) \cup Waiting(d) : n.body = h.msg.body
    PROVE  CalmInv'
  <1> SUFFICES ASSUME losses = 0
               PROVE  /\ listening' \subseteq {channel'}
                      /\ \A g \in running' :
                           g.chan = channel' /\ g.via \in {0, channel'} /\ DeliveryOf(g) \in out'
                      /\ \A b \in Bodies : b \in settled' \/ Rabbit!HeldByBroker(b)'
    BY DEF CalmInv, DeliveryOf
  <1>1. /\ queue' = q /\ dead' = d /\ out' = out \ {DeliveryOf(h)}
        /\ listening' = listening /\ channel' = channel
    BY AcknowledgeCalm DEF RabbitInv
  <1>2. ASSUME NEW g \in running'
        PROVE  g.chan = channel' /\ g.via \in {0, channel'} /\ DeliveryOf(g) \in out'
    <2>1. g \in running /\ g # h
      OBVIOUS
    <2>2. DeliveryOf(g) # DeliveryOf(h)
      BY <2>1 DEF RabbitInv, TagsInv, SameDelivery, DeliveryOf
    <2>3. QED
      BY <1>1, <2>1, <2>2 DEF RabbitInv, CalmInv
  <1>3. ASSUME NEW b \in Bodies
        PROVE  b \in settled' \/ Rabbit!HeldByBroker(b)'
    <2>1. CASE b \in settled
      BY <2>1
    <2>2. CASE \E m \in Waiting(queue) \cup Waiting(dead) : m.body = b
      BY <1>1, <2>2, HeldIs
    <2>3. CASE \E e \in out' : e.msg.body = b
      BY <2>3, HeldIs
    <2>4. CASE h.msg.body = b
      BY <1>1, <2>4, HeldIs
    <2>5. b \in settled \/ Rabbit!HeldByBroker(b)
      BY DEF RabbitInv, CalmInv
    <2>6. QED
      BY <1>1, <2>1, <2>2, <2>3, <2>4, <2>5, HeldIs DEF DeliveryOf
  <1>4. QED
    BY <1>1, <1>2, <1>3 DEF RabbitInv, CalmInv

\* A delivery leaves the books with its channel or its handler.
LEMMA EndsSettleOwn ==
    ASSUME RabbitInv, NEW h \in running, running' = running \ {h}, losses' = losses,
           \A e \in out \ out' : e.chan \notin chans' \/ (e.chan = channel /\ e.tag = h.tag)
    PROVE  Rabbit!SettlesOwn
  <1> SUFFICES ASSUME losses = 0, NEW e \in out \ out', e.chan \in chans'
               PROVE  Rabbit!OwnHandlerEnds(e)
    BY DEF Rabbit!SettlesOwn
  <1>1. h.chan = channel
    BY DEF RabbitInv, CalmInv
  <1>2. h.chan = e.chan /\ h.tag = e.tag /\ h \notin running'
    BY <1>1
  <1>3. QED
    BY <1>2 DEF Rabbit!OwnHandlerEnds

-----------------------------------------------------------------------------
(* RabbitMQ: the steps.                                                    *)

LEMMA WorkEndsKeeps ==
    ASSUME RabbitInv, NEW h \in running, Rabbit!WorkEnds(h)
    PROVE  RabbitInv' /\ Rabbit!SettlesOwn
  <1>1. /\ settled' = settled \cup {h.msg.body} /\ running' = running \ {h}
        /\ Rabbit!Acknowledge(h, queue, dead, dlqKnown)
        /\ fails' = fails /\ losses' = losses /\ crashes' = crashes
    BY DEF Rabbit!WorkEnds, Rabbit!Ends
  <1>2. RabbitTypes /\ dlqKnown \in BOOLEAN /\ settled \subseteq Bodies /\ crashes \in 0 .. MaxCrashes
    BY RabbitTypesAre DEF RabbitInv, Rabbit!TypeOK
  <1>3. queue \in [Copies -> Nat] /\ dead \in [Copies -> Nat] /\ h.msg.body \in Bodies
    BY <1>2 DEF RabbitTypes, Copies, Messages
  <1>4. /\ Shrinks(queue) /\ dead' \in {dead, dead}
        /\ \A e \in out \ out' : e.chan \notin chans' \/ (e.chan = channel /\ e.tag = h.tag)
    BY <1>1, <1>2, <1>3, AcknowledgeShrinks DEF RabbitInv
  <1>5. Grows
    BY <1>1, NothingCounted DEF RabbitInv
  <1>6. Rabbit!TypeOK'
    <2>1. settled' \subseteq Bodies /\ losses' \in 0 .. MaxLosses
      BY <1>1, <1>2, <1>3 DEF RabbitTypes
    <2>2. QED
      BY <1>1, <1>2, <1>3, <1>4, <1>5, <2>1, ShrinksType DEF RabbitInv
  <1>7. TagsInv'
    BY <1>1, <1>4, ShrinksTags DEF RabbitInv
  <1>8. CalmInv'
    BY <1>1, EndsCalm
  <1>9. RabbitFailures'
    BY <1>1, <1>3, <1>4, <1>5, ShrinksFailures DEF RabbitInv, RabbitFailures
  <1>10. DeadOnlyAfterLimit'
    BY <1>1, <1>3, <1>4, <1>5, ShrinksDead DEF RabbitInv, DeadOnlyAfterLimit
  <1>11. Rabbit!SettlesOwn
    BY <1>1, <1>4, EndsSettleOwn
  <1>12. QED
    BY <1>6, <1>7, <1>8, <1>9, <1>10, <1>11 DEF RabbitInv

\* The work fails and the copy goes where its attempts send it.
LEMMA WorkFailsOutright ==
    ASSUME RabbitInv, NEW h \in running, running' = running \ {h}, Rabbit!CountFailure(h),
           Rabbit!Acknowledge(h, Rabbit!QueueAfterNack(queue, h.msg),
                              Rabbit!DeadAfterNack(dead, h.msg), dlqKnown),
           UNCHANGED <<settled, losses, crashes>>
    PROVE  RabbitInv' /\ Rabbit!SettlesOwn
  <1> DEFINE q == QueueAfterNack(queue, h.msg)
             d == DeadAfterNack(dead, h.msg)
  <1>1. RabbitTypes /\ dlqKnown \in BOOLEAN /\ settled \subseteq Bodies /\ crashes \in 0 .. MaxCrashes
    BY RabbitTypesAre DEF RabbitInv, Rabbit!TypeOK
  <1>2. queue \in [Copies -> Nat] /\ dead \in [Copies -> Nat] /\ h.msg \in Copies
    BY <1>1 DEF RabbitTypes
  <1>3. Rabbit!Acknowledge(h, q, d, dlqKnown)
    BY <1>2, RabbitOperators
  <1>4. q \in [Copies -> Nat] /\ d \in [Copies -> Nat]
    BY <1>2, NackType DEF Copies
  <1>5. /\ Waiting(queue) \subseteq Waiting(q) /\ Waiting(dead) \subseteq Waiting(d)
        /\ \E n \in Waiting(q) \cup Waiting(d) : n.body = h.msg.body
    BY <1>2, NackKeeps DEF Copies
  <1>6. Grows /\ fails'[h.msg.body] >= NextAttempt(h.msg)
    <2>1. fails[h.msg.body] >= h.msg.attempt
      BY DEF RabbitInv, RabbitFailures
    <2>2. QED
      BY <1>1, <1>2, <2>1, FailureCounted DEF Rabbit!CountFailure, RabbitTypes
  <1>7. /\ \A n \in Waiting(queue) : fails'[n.body] >= n.attempt
        /\ \A n \in Waiting(dead) : fails'[n.body] >= DeliveryLimit
    <2>1. ASSUME NEW n \in Copies PROVE fails'[n.body] >= fails[n.body] /\ fails[n.body] \in Nat
                                        /\ fails'[n.body] \in Nat /\ n.attempt \in Nat
      BY <1>1, <1>6 DEF Grows, RabbitTypes, Copies, Messages
    <2>2. QED
      BY <1>2, <2>1, WaitingType, DeliveryLimitAssumption DEF RabbitInv, RabbitFailures, DeadOnlyAfterLimit
  <1>8. /\ \A n \in Waiting(q) : fails'[n.body] >= n.attempt
        /\ \A n \in Waiting(d) : fails'[n.body] >= DeliveryLimit
    BY <1>2, <1>6, <1>7, NackFails DEF Grows
  <1> HIDE DEF q, d
  <1>9. /\ Shrinks(q) /\ dead' \in {dead, d}
        /\ \A e \in out \ out' : e.chan \notin chans' \/ (e.chan = channel /\ e.tag = h.tag)
    BY <1>1, <1>3, <1>4, AcknowledgeShrinks DEF RabbitInv
  <1>10. Rabbit!TypeOK'
    <2>1. dead' \in [Copies -> Nat] /\ losses' \in 0 .. MaxLosses
      BY <1>1, <1>2, <1>4, <1>9 DEF RabbitTypes
    <2>2. QED
      BY <1>1, <1>6, <1>9, <2>1, ShrinksType DEF RabbitInv
  <1>11. TagsInv'
    BY <1>9, ShrinksTags DEF RabbitInv
  <1>12. CalmInv'
    BY <1>3, <1>5, EndsCalm
  <1>13. RabbitFailures'
    BY <1>4, <1>6, <1>8, <1>9, ShrinksFailures DEF RabbitInv
  <1>14. DeadOnlyAfterLimit'
    BY <1>4, <1>6, <1>8, <1>9, ShrinksDead DEF RabbitInv
  <1>15. Rabbit!SettlesOwn
    BY <1>9, EndsSettleOwn
  <1>16. QED
    BY <1>10, <1>11, <1>12, <1>13, <1>14, <1>15 DEF RabbitInv

\* The last attempt failed, and the handler awaits the declaration of the DLQ.
LEMMA AwaitsDlqKeeps ==
    ASSUME RabbitInv, NEW h \in running, Rabbit!CountFailure(h), Exhausted(h.msg),
           running' = (running \ {h}) \cup {[h EXCEPT !.via = channel]},
           UNCHANGED <<Rabbit!brokerVars, Rabbit!adapterVars, settled, losses, crashes>>
    PROVE  RabbitInv' /\ Rabbit!SettlesOwn
  <1> DEFINE g == [h EXCEPT !.via = channel]
  <1>1. RabbitTypes /\ active \in BOOLEAN /\ dlqKnown \in BOOLEAN /\ settled \subseteq Bodies
        /\ crashes \in 0 .. MaxCrashes
    BY RabbitTypesAre DEF RabbitInv, Rabbit!TypeOK
  <1>2. /\ queue' = queue /\ dead' = dead /\ out' = out /\ conns' = conns /\ chans' = chans
        /\ listening' = listening /\ tags' = tags /\ channel' = channel /\ gen' = gen
        /\ active' = active /\ dlqKnown' = dlqKnown
        /\ settled' = settled /\ losses' = losses /\ crashes' = crashes
    BY DEF Rabbit!brokerVars, Rabbit!adapterVars
  <1>3. h.msg \in Copies /\ h.msg.body \in Bodies /\ channel \in 0 .. MaxChannels
        /\ h \in [chan : 1 .. MaxChannels, tag : Nat, msg : Copies, via : 0 .. MaxChannels]
    BY <1>1, BrokerAssumption, SMTT(30) DEF RabbitTypes, Copies, Messages
  <1>4. g.chan = h.chan /\ g.tag = h.tag /\ g.msg = h.msg /\ g.via = channel
        /\ g \in [chan : 1 .. MaxChannels, tag : Nat, msg : Copies, via : 0 .. MaxChannels]
    BY <1>3
  <1>5. running' = (running \ {h}) \cup {g}
    OBVIOUS
  <1> HIDE DEF g
  <1>6. Grows /\ fails'[h.msg.body] >= NextAttempt(h.msg)
    <2>1. fails[h.msg.body] >= h.msg.attempt
      BY DEF RabbitInv, RabbitFailures
    <2>2. QED
      BY <1>1, <1>3, <2>1, FailureCounted DEF Rabbit!CountFailure, RabbitTypes
  <1>7. Rabbit!TypeOK'
    <2>1. RabbitTypes'
      BY <1>1, <1>2, <1>4, <1>5, <1>6 DEF RabbitTypes, Grows
    <2>2. QED
      BY <1>1, <1>2, <2>1, RabbitTypesMake
  <1>8. TagsInv'
    BY <1>2, <1>4, <1>5 DEF RabbitInv, TagsInv, SameDelivery
  <1>9. CalmInv'
    <2>1. SUFFICES ASSUME losses = 0
                   PROVE  /\ listening \subseteq {channel}
                          /\ \A f \in running' :
                              f.chan = channel /\ f.via \in {0, channel} /\ DeliveryOf(f) \in out
                          /\ \A b \in Bodies : b \in settled \/ Rabbit!HeldByBroker(b)'
      BY <1>2 DEF CalmInv, DeliveryOf
    <2>2. DeliveryOf(g) = DeliveryOf(h)
      BY <1>4 DEF DeliveryOf
    <2>3. \A b : Rabbit!HeldByBroker(b)' <=> Rabbit!HeldByBroker(b)
      BY <1>2, HeldIs
    <2>4. QED
      BY <1>4, <1>5, <2>1, <2>2, <2>3 DEF RabbitInv, CalmInv
  <1>10. ASSUME NEW n \in Copies
         PROVE  fails'[n.body] >= fails[n.body] /\ fails[n.body] \in Nat
                /\ fails'[n.body] \in Nat /\ n.attempt \in Nat
    BY <1>1, <1>6 DEF Grows, RabbitTypes, Copies, Messages
  <1>11. /\ Waiting(queue) \subseteq Copies /\ Waiting(dead) \subseteq Copies
         /\ \A d \in out : d.msg \in Copies
    BY <1>1, WaitingType DEF RabbitTypes
  <1>15. DeadOnlyAfterLimit'
    <2>1. ASSUME NEW m \in Waiting(dead) PROVE fails'[m.body] >= DeliveryLimit
      <3>1. m \in Copies /\ fails[m.body] >= DeliveryLimit
        BY <1>11 DEF RabbitInv, DeadOnlyAfterLimit
      <3>2. QED
        BY <1>10, <3>1, DeliveryLimitAssumption
    <2>2. QED
      BY <1>2, <2>1 DEF DeadOnlyAfterLimit
  <1>12. RabbitFailures'
    <2>0. ASSUME NEW n \in Copies, fails[n.body] >= n.attempt PROVE fails'[n.body] >= n.attempt
      BY <1>10, <2>0
    <2>1. \A m \in Waiting(queue') : fails'[m.body] >= m.attempt
      BY <1>2, <1>11, <2>0 DEF RabbitInv, RabbitFailures
    <2>2. \A d \in out' : fails'[d.msg.body] >= d.msg.attempt
      BY <1>2, <1>11, <2>0 DEF RabbitInv, RabbitFailures
    <2>3. ASSUME NEW f \in running, f # h
          PROVE  /\ fails'[f.msg.body] >= f.msg.attempt
                 /\ f.via # 0 => Exhausted(f.msg) /\ fails'[f.msg.body] >= DeliveryLimit
      <3>1. f.msg \in Copies
        BY <1>1 DEF RabbitTypes
      <3>2. QED
        BY <1>10, <2>3, <3>1, DeliveryLimitAssumption DEF RabbitInv, RabbitFailures
    <2>4. fails'[g.msg.body] >= g.msg.attempt /\ fails'[g.msg.body] >= DeliveryLimit
      BY <1>3, <1>4, <1>6, <1>10, DeliveryLimitAssumption DEF Exhausted, NextAttempt
    <2>5. QED
      BY <1>4, <1>5, <2>1, <2>2, <2>3, <2>4 DEF RabbitFailures
  <1>13. Rabbit!SettlesOwn
    BY <1>2 DEF Rabbit!SettlesOwn
  <1>14. QED
    BY <1>7, <1>8, <1>9, <1>15, <1>12, <1>13 DEF RabbitInv

LEMMA WorkFailsKeeps ==
    ASSUME RabbitInv, NEW h \in running, Rabbit!WorkFails(h)
    PROVE  RabbitInv' /\ Rabbit!SettlesOwn
  <1>1. h.msg \in Copies
    BY RabbitTypesAre DEF RabbitInv, RabbitTypes
  <1>2. CASE Rabbit!Exhausted(h.msg) /\ ~dlqKnown /\ Rabbit!Usable
    <2>1. Exhausted(h.msg)
      BY <1>1, <1>2, RabbitOperators
    <2>2. QED
      BY <1>2, <2>1, AwaitsDlqKeeps DEF Rabbit!WorkFails
  <1>3. CASE ~(Rabbit!Exhausted(h.msg) /\ ~dlqKnown /\ Rabbit!Usable)
    BY <1>3, WorkFailsOutright DEF Rabbit!WorkFails, Rabbit!Ends
  <1>4. QED
    BY <1>2, <1>3

\* The DLQ is declared, on the channel the handler awaited it on.
LEMMA DlqDeclaredKeeps ==
    ASSUME RabbitInv, NEW h \in running, Rabbit!DlqDeclared(h)
    PROVE  RabbitInv' /\ Rabbit!SettlesOwn
  <1> DEFINE d == DeadAfterNack(dead, h.msg)
  <1>1. RabbitTypes /\ settled \subseteq Bodies /\ crashes \in 0 .. MaxCrashes
    BY RabbitTypesAre DEF RabbitInv, Rabbit!TypeOK
  <1>2. queue \in [Copies -> Nat] /\ dead \in [Copies -> Nat] /\ h.msg \in Copies
        /\ h.msg.body \in Bodies
    BY <1>1 DEF RabbitTypes, Copies, Messages
  <1>3. /\ Rabbit!Acknowledge(h, queue, d, TRUE) /\ running' = running \ {h}
        /\ settled' = settled /\ fails' = fails /\ losses' = losses /\ crashes' = crashes
    BY <1>2, RabbitOperators DEF Rabbit!DlqDeclared, Rabbit!Ends
  <1>4. h.via # 0
    BY <1>1 DEF RabbitTypes, Rabbit!DlqDeclared
  <1>5. Exhausted(h.msg) /\ fails[h.msg.body] >= DeliveryLimit
    BY <1>4 DEF RabbitInv, RabbitFailures
  <1>6. /\ d \in [Copies -> Nat] /\ Waiting(d) = Waiting(dead) \cup {h.msg}
    BY <1>2, <1>5, NackType, WaitingAfter DEF DeadAfterNack, Copies
  <1> HIDE DEF d
  <1>7. /\ Shrinks(queue) /\ dead' \in {dead, d}
        /\ \A e \in out \ out' : e.chan \notin chans' \/ (e.chan = channel /\ e.tag = h.tag)
    BY <1>2, <1>3, <1>6, AcknowledgeShrinks DEF RabbitInv
  <1>8. Grows
    BY <1>3, NothingCounted DEF RabbitInv
  <1>9. Rabbit!TypeOK'
    <2>1. dead' \in [Copies -> Nat] /\ losses' \in 0 .. MaxLosses
      BY <1>1, <1>2, <1>3, <1>6, <1>7 DEF RabbitTypes
    <2>2. QED
      BY <1>1, <1>3, <1>7, <1>8, <2>1, ShrinksType DEF RabbitInv
  <1>10. TagsInv'
    BY <1>3, <1>7, ShrinksTags DEF RabbitInv
  <1>11. CalmInv'
    BY <1>3, <1>6, EndsCalm
  <1>12. RabbitFailures'
    BY <1>2, <1>3, <1>7, <1>8, ShrinksFailures DEF RabbitInv, RabbitFailures
  <1>13. DeadOnlyAfterLimit'
    BY <1>3, <1>5, <1>6, <1>7, <1>8, ShrinksDead DEF RabbitInv, DeadOnlyAfterLimit
  <1>14. Rabbit!SettlesOwn
    BY <1>3, <1>7, EndsSettleOwn
  <1>15. QED
    BY <1>9, <1>10, <1>11, <1>12, <1>13, <1>14 DEF RabbitInv

\* That channel is gone, which takes a loss.
LEMMA DlqDeclarationFailsKeeps ==
    ASSUME RabbitInv, NEW h \in running, Rabbit!DlqDeclarationFails(h)
    PROVE  RabbitInv' /\ Rabbit!SettlesOwn
  <1>1. /\ queue' = queue /\ dead' = dead /\ out' = out /\ conns' = conns /\ chans' = chans
        /\ listening' = listening /\ tags' = tags /\ channel' = channel /\ gen' = gen
        /\ active' = active /\ dlqKnown' = dlqKnown /\ running' = running \ {h}
        /\ settled' = settled /\ fails' = fails /\ losses' = losses /\ crashes' = crashes
    BY DEF Rabbit!DlqDeclarationFails, Rabbit!brokerVars, Rabbit!adapterVars, Rabbit!Ends
  <1>2. losses # 0
    BY DEF RabbitInv, CalmInv, TagsInv, DeliveryOf, Rabbit!DlqDeclarationFails
  <1>3. Rabbit!TypeOK'
    <2>1. RabbitTypes /\ active \in BOOLEAN /\ dlqKnown \in BOOLEAN /\ settled \subseteq Bodies
          /\ crashes \in 0 .. MaxCrashes
      BY RabbitTypesAre DEF RabbitInv, Rabbit!TypeOK
    <2>2. RabbitTypes'
      BY <1>1, <2>1 DEF RabbitTypes
    <2>3. QED
      BY <1>1, <2>1, <2>2, RabbitTypesMake
  <1>4. TagsInv'
    BY <1>1 DEF RabbitInv, TagsInv, SameDelivery
  <1>5. CalmInv'
    BY <1>1, <1>2 DEF CalmInv
  <1>6. RabbitFailures' /\ DeadOnlyAfterLimit'
    BY <1>1 DEF RabbitInv, RabbitFailures, DeadOnlyAfterLimit
  <1>7. Rabbit!SettlesOwn
    BY <1>1 DEF Rabbit!SettlesOwn
  <1>8. QED
    BY <1>3, <1>4, <1>5, <1>6, <1>7 DEF RabbitInv

\* A delivery: the copy moves from the queue to the books, under a new tag.
LEMMA DeliverKeeps ==
    ASSUME RabbitInv, NEW c \in listening, NEW m \in Rabbit!Message, Rabbit!Deliver(c, m)
    PROVE  RabbitInv' /\ Rabbit!SettlesOwn
  <1> DEFINE d == [chan |-> c, tag |-> tags[c] + 1, msg |-> m]
             h == [chan |-> c, tag |-> tags[c] + 1, msg |-> m, via |-> 0]
  <1>1. RabbitTypes /\ active \in BOOLEAN /\ dlqKnown \in BOOLEAN /\ settled \subseteq Bodies
        /\ crashes \in 0 .. MaxCrashes
    BY RabbitTypesAre DEF RabbitInv, Rabbit!TypeOK
  <1>2. m \in Copies /\ m \in Waiting(queue) /\ queue' = Remove(queue, m)
    BY RabbitOperators DEF Rabbit!Deliver
  <1>3. /\ tags' = [tags EXCEPT ![c] = @ + 1]
        /\ out' = out \cup {d} /\ running' = running \cup {h}
        /\ dead' = dead /\ conns' = conns /\ chans' = chans /\ listening' = listening
        /\ channel' = channel /\ gen' = gen /\ active' = active /\ dlqKnown' = dlqKnown
        /\ settled' = settled /\ fails' = fails /\ losses' = losses /\ crashes' = crashes
    BY DEF Rabbit!Deliver, Rabbit!adapterVars
  <1>4. c \in chans /\ c \in 1 .. MaxChannels /\ tags[c] \in Nat
    BY <1>1, BrokerAssumption DEF RabbitTypes
  <1>5. /\ tags'[c] = tags[c] + 1
        /\ \A k \in 1 .. MaxChannels : k # c => tags'[k] = tags[k]
    BY <1>1, <1>3, <1>4 DEF RabbitTypes
  <1>6. queue' \in [Copies -> Nat] /\ Waiting(queue) \subseteq Waiting(queue') \cup {m}
        /\ Waiting(queue') \subseteq Waiting(queue)
    <2>1. queue \in [Copies -> Nat]
      BY <1>1 DEF RabbitTypes
    <2>2. queue' \in [Copies -> Nat] /\ Waiting(queue) \subseteq Waiting(queue') \cup {m}
      BY <1>2, <2>1, QueueType, WaitingAfter
    <2>3. Waiting(queue') \subseteq Waiting(queue)
      BY <1>2, <2>1, <2>2 DEF Waiting, Remove
    <2>4. QED
      BY <2>2, <2>3
  <1>7. Rabbit!TypeOK'
    <2>1. d \in [chan : 1 .. MaxChannels, tag : Nat, msg : Copies]
          /\ h \in [chan : 1 .. MaxChannels, tag : Nat, msg : Copies, via : 0 .. MaxChannels]
      BY <1>2, <1>4, BrokerAssumption
    <2>2. tags' \in [1 .. MaxChannels -> Nat]
      BY <1>1, <1>3, <1>4 DEF RabbitTypes
    <2>3. RabbitTypes'
      BY <1>1, <1>3, <1>6, <2>1, <2>2 DEF RabbitTypes
    <2>4. QED
      BY <1>1, <1>3, <2>3, RabbitTypesMake
  <1>8. TagsInv'
    <2>1. IsFiniteSet(out')
      BY <1>3, FS_AddElement DEF RabbitInv, TagsInv
    <2>2. /\ \A e \in out : e.tag \in Nat /\ e.chan \in 1 .. MaxChannels /\ e.tag <= tags[e.chan]
          /\ \A f \in running : f.tag \in Nat /\ f.chan \in 1 .. MaxChannels /\ f.tag <= tags[f.chan]
      BY <1>1 DEF RabbitInv, TagsInv, RabbitTypes
    <2>0. \A k \in 1 .. MaxChannels, n \in Nat :
            n <= tags[k] => n <= tags'[k] /\ (k = c => n # tags[c] + 1)
      BY <1>1, <1>4, <1>5 DEF RabbitTypes
    <2>3. /\ \A e \in out : ~SameDelivery(e, d) /\ ~SameDelivery(d, e) /\ e.tag <= tags'[e.chan]
          /\ \A f \in running : ~SameDelivery(f, h) /\ ~SameDelivery(h, f) /\ f.tag <= tags'[f.chan]
      BY <2>0, <2>2 DEF SameDelivery
    <2>4. /\ \A e \in out' : e.chan \in chans' /\ e.tag <= tags'[e.chan]
          /\ \A f \in running' : f.tag <= tags'[f.chan]
      BY <1>3, <1>4, <1>5, <2>3 DEF RabbitInv, TagsInv
    <2>5. /\ \A e, f \in out' : SameDelivery(e, f) => e = f
          /\ \A f, g \in running' : SameDelivery(f, g) => f = g
      BY <1>3, <2>3 DEF RabbitInv, TagsInv
    <2>6. QED
      BY <2>1, <2>4, <2>5 DEF TagsInv, SameDelivery
  <1>9. CalmInv'
    <2>1. SUFFICES ASSUME losses = 0
                   PROVE  /\ listening \subseteq {channel}
                          /\ \A f \in running' :
                              f.chan = channel /\ f.via \in {0, channel} /\ DeliveryOf(f) \in out'
                          /\ \A b \in Bodies : b \in settled \/ Rabbit!HeldByBroker(b)'
      BY <1>3 DEF CalmInv, DeliveryOf
    <2>2. listening \subseteq {channel} /\ c = channel
      BY <2>1 DEF RabbitInv, CalmInv
    <2>3. DeliveryOf(h) = d
      BY DEF DeliveryOf
    <2>4. \A f \in running' : f.chan = channel /\ f.via \in {0, channel} /\ DeliveryOf(f) \in out'
      BY <1>3, <2>1, <2>2, <2>3 DEF RabbitInv, CalmInv
    <2>5. ASSUME NEW b \in Bodies, b \notin settled
          PROVE  Rabbit!HeldByBroker(b)'
      <3>1. Rabbit!HeldByBroker(b)
        BY <2>1, <2>5 DEF RabbitInv, CalmInv
      <3>2. CASE m.body = b
        <4>1. d \in out' /\ d.msg.body = b
          BY <1>3, <3>2
        <4>2. QED
          BY <4>1, HeldIs
      <3>3. CASE m.body # b
        <4>1. CASE \E n \in Waiting(queue) \cup Waiting(dead) : n.body = b
          <5>1. PICK n \in Waiting(queue) \cup Waiting(dead) : n.body = b
            BY <4>1
          <5>2. n \in Waiting(queue') \cup Waiting(dead')
            BY <1>3, <1>6, <3>3, <5>1
          <5>3. QED
            BY <5>1, <5>2, HeldIs
        <4>2. CASE \E e \in out : e.msg.body = b
          BY <1>3, <4>2, HeldIs
        <4>3. QED
          BY <3>1, <4>1, <4>2, HeldIs
      <3>4. QED
        BY <3>2, <3>3
    <2>6. QED
      BY <2>2, <2>4, <2>5
  <1>10. RabbitFailures'
    <2>1. fails[m.body] >= m.attempt
      BY <1>2 DEF RabbitInv, RabbitFailures
    <2>2. h.via = 0 /\ h.msg = m /\ d.msg = m
      OBVIOUS
    <2> HIDE DEF h, d
    <2>3. QED
      BY <1>3, <1>6, <2>1, <2>2 DEF RabbitInv, RabbitFailures
  <1>11. DeadOnlyAfterLimit'
    BY <1>3 DEF RabbitInv, DeadOnlyAfterLimit
  <1>12. Rabbit!SettlesOwn
    BY <1>3 DEF Rabbit!SettlesOwn
  <1>13. QED
    BY <1>7, <1>8, <1>9, <1>10, <1>11, <1>12 DEF RabbitInv

\* No handler is left without a channel while none was lost.
LEMMA OpenConnectionKeeps ==
    ASSUME RabbitInv, Rabbit!OpenConnection
    PROVE  RabbitInv' /\ Rabbit!SettlesOwn
  <1>1. RabbitTypes /\ active \in BOOLEAN /\ dlqKnown \in BOOLEAN /\ settled \subseteq Bodies
        /\ crashes \in 0 .. MaxCrashes
    BY RabbitTypesAre DEF RabbitInv, Rabbit!TypeOK
  <1>2. /\ gen < MaxChannels /\ gen' = gen + 1 /\ channel' = gen + 1
        /\ conns' = conns \cup {gen + 1} /\ chans' = chans \cup {gen + 1}
        /\ queue' = queue /\ dead' = dead /\ out' = out /\ listening' = listening /\ tags' = tags
        /\ active' = active /\ dlqKnown' = dlqKnown /\ running' = running /\ settled' = settled
        /\ fails' = fails /\ losses' = losses /\ crashes' = crashes
    BY DEF Rabbit!OpenConnection, Rabbit!workVars
  <1>3. Rabbit!TypeOK'
    <2>1. gen' \in 1 .. MaxChannels /\ channel' \in 0 .. gen' /\ conns' \subseteq 1 .. gen'
      BY <1>1, <1>2, BrokerAssumption DEF RabbitTypes
    <2>2. RabbitTypes'
      BY <1>1, <1>2, <2>1 DEF RabbitTypes
    <2>3. QED
      BY <1>1, <1>2, <2>2, RabbitTypesMake
  <1>4. TagsInv'
    BY <1>2 DEF RabbitInv, TagsInv, SameDelivery
  <1>5. CalmInv'
    <2>1. SUFFICES ASSUME losses = 0
                   PROVE  /\ listening = {} /\ running = {}
                          /\ \A b \in Bodies : b \in settled \/ Rabbit!HeldByBroker(b)'
      BY <1>2 DEF CalmInv
    <2>2. channel \notin chans
      BY DEF Rabbit!OpenConnection, Rabbit!Usable
    <2>3. listening = {}
      BY <1>1, <2>1, <2>2 DEF RabbitInv, CalmInv, RabbitTypes
    <2>4. running = {}
      BY <2>1, <2>2 DEF RabbitInv, CalmInv, TagsInv, DeliveryOf
    <2>5. \A b : Rabbit!HeldByBroker(b)' <=> Rabbit!HeldByBroker(b)
      BY <1>2, HeldIs
    <2>6. QED
      BY <2>1, <2>3, <2>4, <2>5 DEF RabbitInv, CalmInv
  <1>6. RabbitFailures' /\ DeadOnlyAfterLimit'
    BY <1>2 DEF RabbitInv, RabbitFailures, DeadOnlyAfterLimit
  <1>7. Rabbit!SettlesOwn
    BY <1>2 DEF Rabbit!SettlesOwn
  <1>8. QED
    BY <1>3, <1>4, <1>5, <1>6, <1>7 DEF RabbitInv

LEMMA AttachConsumerKeeps ==
    ASSUME RabbitInv, Rabbit!AttachConsumer
    PROVE  RabbitInv' /\ Rabbit!SettlesOwn
  <1>1. RabbitTypes /\ dlqKnown \in BOOLEAN /\ settled \subseteq Bodies
        /\ crashes \in 0 .. MaxCrashes
    BY RabbitTypesAre DEF RabbitInv, Rabbit!TypeOK
  <1>2. /\ listening' = listening \cup {channel} /\ channel \in chans /\ active' = TRUE
        /\ queue' = queue /\ dead' = dead /\ out' = out /\ conns' = conns /\ chans' = chans
        /\ tags' = tags /\ channel' = channel /\ gen' = gen /\ dlqKnown' = dlqKnown
        /\ running' = running /\ settled' = settled
        /\ fails' = fails /\ losses' = losses /\ crashes' = crashes
    BY DEF Rabbit!AttachConsumer, Rabbit!workVars, Rabbit!Usable
  <1>3. Rabbit!TypeOK'
    <2>1. RabbitTypes'
      BY <1>1, <1>2 DEF RabbitTypes
    <2>2. QED
      BY <1>1, <1>2, <2>1, RabbitTypesMake
  <1>4. TagsInv'
    BY <1>2 DEF RabbitInv, TagsInv, SameDelivery
  <1>5. CalmInv'
    <2>1. \A b : Rabbit!HeldByBroker(b)' <=> Rabbit!HeldByBroker(b)
      BY <1>2, HeldIs
    <2>2. QED
      BY <1>2, <2>1 DEF RabbitInv, CalmInv, DeliveryOf
  <1>6. RabbitFailures' /\ DeadOnlyAfterLimit'
    BY <1>2 DEF RabbitInv, RabbitFailures, DeadOnlyAfterLimit
  <1>7. Rabbit!SettlesOwn
    BY <1>2 DEF Rabbit!SettlesOwn
  <1>8. QED
    BY <1>3, <1>4, <1>5, <1>6, <1>7 DEF RabbitInv

\* After a loss nothing is asked of the handlers' channels.
LEMMA LossEndsCalm ==
    ASSUME Rabbit!TypeOK, Rabbit!OneMoreLoss
    PROVE  losses' \in 0 .. MaxLosses /\ losses' # 0 /\ CalmInv' /\ Rabbit!SettlesOwn
  <1>1. losses' \in 0 .. MaxLosses /\ losses' # 0
    BY BrokerAssumption, RabbitTypesAre DEF RabbitTypes, Rabbit!OneMoreLoss
  <1>2. QED
    BY <1>1 DEF CalmInv, Rabbit!SettlesOwn

LEMMA LossKeeps ==
    ASSUME RabbitInv, NEW c, Rabbit!LoseConnection(c) \/ Rabbit!LoseChannel(c)
    PROVE  RabbitInv' /\ Rabbit!SettlesOwn
  <1>1. /\ Rabbit!OneMoreLoss /\ Rabbit!ChannelCloses(c, queue, dlqKnown)
        /\ conns' \in {conns, conns \ {c}}
        /\ dead' = dead /\ running' = running /\ settled' = settled /\ fails' = fails
        /\ crashes' = crashes
    BY DEF Rabbit!LoseConnection, Rabbit!LoseChannel, Rabbit!workVars
  <1>2. RabbitTypes /\ dlqKnown \in BOOLEAN /\ settled \subseteq Bodies /\ crashes \in 0 .. MaxCrashes
    BY RabbitTypesAre DEF RabbitInv, Rabbit!TypeOK
  <1>3. queue \in [Copies -> Nat] /\ dead \in [Copies -> Nat]
    BY <1>2 DEF RabbitTypes
  <1>4. Shrinks(queue)
    BY <1>1, <1>2, <1>3, ClosesShrinks DEF RabbitInv
  <1>5. Grows
    BY <1>1, NothingCounted DEF RabbitInv
  <1>6. losses' \in 0 .. MaxLosses /\ CalmInv' /\ Rabbit!SettlesOwn
    BY <1>1, LossEndsCalm DEF RabbitInv
  <1>7. Rabbit!TypeOK'
    BY <1>1, <1>2, <1>3, <1>4, <1>5, <1>6, ShrinksType DEF RabbitInv
  <1>8. TagsInv'
    BY <1>1, <1>4, ShrinksTags DEF RabbitInv
  <1>9. RabbitFailures'
    BY <1>1, <1>3, <1>4, <1>5, ShrinksFailures DEF RabbitInv, RabbitFailures
  <1>10. DeadOnlyAfterLimit'
    BY <1>1 DEF RabbitInv, DeadOnlyAfterLimit
  <1>11. QED
    BY <1>6, <1>7, <1>8, <1>9, <1>10 DEF RabbitInv

\* The republished copy waits beside the one the broker takes back.
LEMMA LoseAckOfNackKeeps ==
    ASSUME RabbitInv, NEW h \in running, Rabbit!LoseAckOfNack(h)
    PROVE  RabbitInv' /\ Rabbit!SettlesOwn
  <1> DEFINE q == QueueAfterNack(queue, h.msg)
             d == DeadAfterNack(dead, h.msg)
  <1>1. RabbitTypes /\ dlqKnown \in BOOLEAN /\ settled \subseteq Bodies /\ crashes \in 0 .. MaxCrashes
    BY RabbitTypesAre DEF RabbitInv, Rabbit!TypeOK
  <1>2. queue \in [Copies -> Nat] /\ dead \in [Copies -> Nat] /\ h.msg \in Copies
    BY <1>1 DEF RabbitTypes
  <1>3. /\ Rabbit!OneMoreLoss /\ Rabbit!CountFailure(h) /\ running' = running \ {h}
        /\ Rabbit!ChannelCloses(channel, q, dlqKnown) /\ conns' = conns \ {channel}
        /\ dead' = d /\ settled' = settled /\ crashes' = crashes
    BY <1>2, RabbitOperators DEF Rabbit!LoseAckOfNack, Rabbit!Ends
  <1>4. q \in [Copies -> Nat] /\ d \in [Copies -> Nat]
    BY <1>2, NackType DEF Copies
  <1>5. Grows /\ fails'[h.msg.body] >= NextAttempt(h.msg)
    <2>1. fails[h.msg.body] >= h.msg.attempt
      BY DEF RabbitInv, RabbitFailures
    <2>2. QED
      BY <1>1, <1>2, <1>3, <2>1, FailureCounted DEF Rabbit!CountFailure, RabbitTypes
  <1>6. /\ \A n \in Waiting(queue) : fails'[n.body] >= n.attempt
        /\ \A n \in Waiting(dead) : fails'[n.body] >= DeliveryLimit
    <2>1. ASSUME NEW n \in Copies PROVE fails'[n.body] >= fails[n.body] /\ fails[n.body] \in Nat
                                        /\ fails'[n.body] \in Nat /\ n.attempt \in Nat
      BY <1>1, <1>5 DEF Grows, RabbitTypes, Copies, Messages
    <2>2. QED
      BY <1>2, <2>1, WaitingType, DeliveryLimitAssumption DEF RabbitInv, RabbitFailures, DeadOnlyAfterLimit
  <1>7. /\ \A n \in Waiting(q) : fails'[n.body] >= n.attempt
        /\ \A n \in Waiting(d) : fails'[n.body] >= DeliveryLimit
    BY <1>2, <1>5, <1>6, NackFails DEF Grows
  <1> HIDE DEF q, d
  <1>8. Shrinks(q)
    BY <1>1, <1>3, <1>4, ClosesShrinks DEF RabbitInv
  <1>9. losses' \in 0 .. MaxLosses /\ CalmInv' /\ Rabbit!SettlesOwn
    BY <1>3, LossEndsCalm DEF RabbitInv
  <1>10. Rabbit!TypeOK'
    BY <1>1, <1>3, <1>4, <1>5, <1>8, <1>9, ShrinksType DEF RabbitInv
  <1>11. TagsInv'
    BY <1>3, <1>8, ShrinksTags DEF RabbitInv
  <1>12. RabbitFailures'
    BY <1>3, <1>4, <1>5, <1>7, <1>8, ShrinksFailures DEF RabbitInv
  <1>13. DeadOnlyAfterLimit'
    BY <1>3, <1>7 DEF DeadOnlyAfterLimit
  <1>14. QED
    BY <1>9, <1>10, <1>11, <1>12, <1>13 DEF RabbitInv

\* A crash: every delivery comes back.
LEMMA CrashKeeps ==
    ASSUME RabbitInv, Rabbit!Crash
    PROVE  RabbitInv' /\ Rabbit!SettlesOwn
  <1>1. RabbitTypes /\ settled \subseteq Bodies /\ crashes \in 0 .. MaxCrashes
    BY RabbitTypesAre DEF RabbitInv, Rabbit!TypeOK
  <1>2. /\ queue' = Rabbit!Returned(queue, chans) /\ out' = {} /\ conns' = {} /\ chans' = {}
        /\ listening' = {} /\ channel' = 0 /\ active' = FALSE /\ dlqKnown' = FALSE
        /\ running' = {} /\ dead' = dead /\ tags' = tags /\ gen' = gen /\ settled' = settled
        /\ fails' = fails /\ losses' = losses /\ crashes < MaxCrashes /\ crashes' = crashes + 1
    BY DEF Rabbit!Crash
  <1>3. queue \in [Copies -> Nat]
    BY <1>1 DEF RabbitTypes
  <1>4. /\ queue' \in [Copies -> Nat]
        /\ Waiting(queue') =
             Waiting(queue) \cup {m \in Copies : \E d \in out : d.chan \in chans /\ d.msg = m}
    BY <1>2, <1>3, ReturnedQueue DEF RabbitInv, TagsInv
  <1>5. Waiting(queue') = Waiting(queue) \cup {d.msg : d \in out}
    BY <1>1, <1>4 DEF RabbitInv, TagsInv, RabbitTypes
  <1>6. Shrinks(queue)
    BY <1>2, <1>4, <1>5 DEF Shrinks
  <1>7. Grows
    BY <1>2, NothingCounted DEF RabbitInv
  <1>8. Rabbit!TypeOK'
    <2>1. crashes' \in 0 .. MaxCrashes /\ losses' \in 0 .. MaxLosses /\ dead' \in [Copies -> Nat]
      BY <1>1, <1>2, BrokerAssumption DEF RabbitTypes
    <2>2. QED
      BY <1>1, <1>2, <1>6, <1>7, <2>1, ShrinksType DEF RabbitInv
  <1>9. TagsInv'
    BY <1>2, <1>6, ShrinksTags DEF RabbitInv
  <1>10. CalmInv'
    <2>1. \A b : Rabbit!HeldByBroker(b) => Rabbit!HeldByBroker(b)'
      BY <1>2, <1>5, HeldIs
    <2>2. QED
      BY <1>2, <2>1 DEF RabbitInv, CalmInv
  <1>11. RabbitFailures'
    BY <1>2, <1>3, <1>6, <1>7, ShrinksFailures DEF RabbitInv, RabbitFailures
  <1>12. DeadOnlyAfterLimit'
    BY <1>2 DEF RabbitInv, DeadOnlyAfterLimit
  <1>13. Rabbit!SettlesOwn
    BY <1>2 DEF Rabbit!SettlesOwn
  <1>14. QED
    BY <1>8, <1>9, <1>10, <1>11, <1>12, <1>13 DEF RabbitInv

LEMMA RabbitKeeps ==
    ASSUME RabbitInv, Rabbit!Next
    PROVE  RabbitInv' /\ Rabbit!SettlesOwn
  <1>1. ASSUME NEW h \in running, Rabbit!HandlerStep(h)
        PROVE  RabbitInv' /\ Rabbit!SettlesOwn
    BY <1>1, WorkEndsKeeps, WorkFailsKeeps, DlqDeclaredKeeps, DlqDeclarationFailsKeeps
       DEF Rabbit!HandlerStep
  <1>2. CASE Rabbit!SomeDelivery
    BY <1>2, DeliverKeeps DEF Rabbit!SomeDelivery
  <1>3. CASE Rabbit!Reconnect
    BY <1>3, OpenConnectionKeeps, AttachConsumerKeeps DEF Rabbit!Reconnect
  <1>4. CASE Rabbit!Fault
    BY <1>4, LossKeeps, LoseAckOfNackKeeps, CrashKeeps DEF Rabbit!Fault
  <1>5. QED
    BY <1>1, <1>2, <1>3, <1>4 DEF Rabbit!Next, Rabbit!SomeHandlerStep

-----------------------------------------------------------------------------
(* Kafka: what every step of a handler keeps.                              *)

HandlerSet == [session : 1 .. MaxSessions, partition : Partitions, offset : Nat,
               msg : Copies, pc : {"work", "send", "commit"}]

KafkaTypes ==
    /\ log \in [Partitions -> Seq(Copies)]
    /\ dead \in [Copies -> Nat]
    /\ committed \in [Partitions -> Nat \cup {NoOffset}]
    /\ position \in [Partitions -> Nat]
    /\ session \in 1 .. MaxSessions
    /\ running \subseteq HandlerSet
    /\ settled \subseteq Bodies
    /\ fails \in [Bodies -> 0 .. DeliveryLimit]
    /\ skipped \subseteq Bodies
    /\ losses \in 0 .. MaxLosses

LEMMA KafkaTypesAre == (Kafka!TypeOK <=> KafkaTypes) /\ (Kafka!TypeOK' <=> KafkaTypes')
  BY KafkaOperators DEF Kafka!TypeOK, KafkaTypes, Kafka!Handlers, HandlerSet, Kafka!Offsets

\* What is in the log stays where it is, and all that is new is m.
LogGains(m) ==
    /\ log' \in [Partitions -> Seq(Copies)]
    /\ \A p \in Partitions :
        /\ Len(log[p]) <= Len(log'[p])
        /\ \A i \in DOMAIN log[p] : i \in DOMAIN log'[p] /\ log'[p][i] = log[p][i]
        /\ \A i \in DOMAIN log'[p] : i \in DOMAIN log[p] \/ log'[p][i] = m

LEMMA LogUnchanged ==
    ASSUME log \in [Partitions -> Seq(Copies)], log' = log, NEW m
    PROVE  LogGains(m)
  BY DEF LogGains

LEMMA AppendedGains ==
    ASSUME log \in [Partitions -> Seq(Copies)], NEW m \in Copies, Kafka!Appended(m)
    PROVE  /\ LogGains(m)
           /\ \E p \in Partitions : \E i \in DOMAIN log'[p] : i > Len(log[p]) /\ log'[p][i] = m
  <1>1. PICK p \in Partitions : log' = [log EXCEPT ![p] = Append(@, m)]
    BY DEF Kafka!Appended
  <1>2. log[p] \in Seq(Copies) /\ log'[p] = Append(log[p], m)
    BY <1>1
  <1>3. /\ log'[p] \in Seq(Copies) /\ Len(log'[p]) = Len(log[p]) + 1 /\ Len(log[p]) \in Nat
        /\ log'[p][Len(log[p]) + 1] = m
        /\ \A i \in 1 .. Len(log[p]) : log'[p][i] = log[p][i]
    BY <1>2
  <1>4. \A q \in Partitions \ {p} : log'[q] = log[q]
    BY <1>1
  <1>5. log' \in [Partitions -> Seq(Copies)]
    BY <1>1, <1>2, <1>3
  <1>6. DOMAIN log[p] = 1 .. Len(log[p]) /\ DOMAIN log'[p] = 1 .. Len(log[p]) + 1
    BY <1>2, <1>3
  <1>7. /\ Len(log[p]) <= Len(log'[p])
        /\ \A i \in DOMAIN log[p] : i \in DOMAIN log'[p] /\ log'[p][i] = log[p][i]
        /\ \A i \in DOMAIN log'[p] : i \in DOMAIN log[p] \/ log'[p][i] = m
    BY <1>3, <1>6
  <1>8. \A q \in Partitions \ {p} : Len(log[q]) <= Len(log'[q])
    BY <1>4
  <1>9. LogGains(m)
    BY <1>4, <1>5, <1>7, <1>8 DEF LogGains
  <1>10. QED
    BY <1>3, <1>6, <1>9

\* A handler h goes to the step s or ends, and nothing is committed.
MovesOn(h, s) ==
    /\ running' \subseteq (running \ {h}) \cup {[h EXCEPT !.pc = s]}
    /\ committed' = committed

\* A handler of the session commits and ends.
Commits(h) ==
    /\ Live(h)
    /\ running' = running \ {h}
    /\ committed' = [committed EXCEPT ![h.partition] = h.offset + 1]

LEMMA HandlerTypes ==
    ASSUME KafkaTypes, NEW h \in running, NEW s \in {"work", "send", "commit"}
    PROVE  /\ h.msg \in Copies /\ h.msg.body \in Bodies /\ h.partition \in Partitions
           /\ h.offset \in Nat /\ h.session \in Nat
           /\ [h EXCEPT !.pc = s] \in HandlerSet
           /\ MovesOn(h, s) => /\ running' \subseteq HandlerSet
                               /\ committed' \in [Partitions -> Nat \cup {NoOffset}]
           /\ Commits(h) => /\ running' \subseteq HandlerSet
                            /\ committed' \in [Partitions -> Nat \cup {NoOffset}]
  <1>1. h \in HandlerSet
    BY DEF KafkaTypes
  <1>2. h.msg \in Copies /\ h.partition \in Partitions /\ h.offset \in Nat /\ h.session \in Nat
    BY <1>1 DEF HandlerSet
  <1>3. h.msg.body \in Bodies
    BY <1>2 DEF Copies, Messages
  <1>4. [h EXCEPT !.pc = s] \in HandlerSet
    BY <1>1 DEF HandlerSet
  <1>5. MovesOn(h, s) => /\ running' \subseteq HandlerSet
                         /\ committed' \in [Partitions -> Nat \cup {NoOffset}]
    BY <1>4 DEF MovesOn, KafkaTypes
  <1>6. Commits(h) => /\ running' \subseteq HandlerSet
                      /\ committed' \in [Partitions -> Nat \cup {NoOffset}]
    BY <1>2 DEF Commits, KafkaTypes
  <1>7. QED
    BY <1>2, <1>3, <1>4, <1>5, <1>6

\* A longer log moves no place.
LEMMA LogKeepsPlaces ==
    ASSUME KafkaTypes, PlacesInv, NEW m, LogGains(m)
    PROVE  /\ \A p \in Partitions : position[p] <= Len(log'[p])
           /\ \A f \in running :
                Live(f) => log'[f.partition][f.offset + 1] = log[f.partition][f.offset + 1]
  <1>1. ASSUME NEW p \in Partitions PROVE position[p] <= Len(log'[p])
    <2>1. log[p] \in Seq(Copies) /\ log'[p] \in Seq(Copies) /\ Len(log[p]) <= Len(log'[p])
          /\ position[p] \in Nat
      BY DEF LogGains, KafkaTypes
    <2>2. QED
      BY <2>1 DEF PlacesInv
  <1>2. ASSUME NEW f \in running, Live(f)
        PROVE  log'[f.partition][f.offset + 1] = log[f.partition][f.offset + 1]
    <2>1. f.partition \in Partitions /\ f.offset \in Nat
      BY HandlerTypes
    <2>2. f.offset + 1 \in 1 .. Len(log[f.partition])
      BY <1>2, <2>1 DEF PlacesInv, KafkaTypes
    <2>3. DOMAIN log[f.partition] = 1 .. Len(log[f.partition])
      BY <2>1 DEF KafkaTypes
    <2>4. QED
      BY <2>1, <2>2, <2>3 DEF LogGains
  <1>3. QED
    BY <1>1, <1>2

LEMMA MovesOnPlaces ==
    ASSUME KafkaTypes, PlacesInv, NEW m, LogGains(m), position' = position, session' = session,
           NEW h \in running, NEW s \in {"work", "send", "commit"}, MovesOn(h, s)
    PROVE  PlacesInv'
  <1> DEFINE g == [h EXCEPT !.pc = s]
  <1>1. h \in HandlerSet /\ log \in [Partitions -> Seq(Copies)] /\ position \in [Partitions -> Nat]
    BY DEF KafkaTypes
  <1>2. g.session = h.session /\ g.partition = h.partition /\ g.offset = h.offset /\ g.msg = h.msg
    BY <1>1 DEF HandlerSet
  <1>3. running' \subseteq (running \ {h}) \cup {g} /\ committed' = committed
    BY DEF MovesOn
  <1> HIDE DEF g
  <1>4. \A p \in Partitions :
            /\ position'[p] <= Len(log'[p])
            /\ committed'[p] # NoOffset => committed'[p] <= position'[p]
    BY <1>3, LogKeepsPlaces DEF PlacesInv
  <1>5. \A f \in running :
            Live(f) => log'[f.partition][f.offset + 1] = log[f.partition][f.offset + 1]
    BY LogKeepsPlaces
  <1>6. ASSUME NEW f \in running'
        PROVE  \E e \in running : /\ f.session = e.session /\ f.partition = e.partition
                                  /\ f.offset = e.offset /\ f.msg = e.msg
                                  /\ e = h <=> f = g
    <2>1. CASE f = g
      BY <1>2, <2>1
    <2>2. CASE f # g
      BY <1>3, <2>2
    <2>3. QED
      BY <2>1, <2>2
  <1>7. \A f \in running' :
            /\ f.session <= session'
            /\ f.session = session' =>
                  /\ position'[f.partition] = f.offset + 1
                  /\ log'[f.partition][f.offset + 1] = f.msg
                  /\ committed'[f.partition] = NoOffset \/ committed'[f.partition] <= f.offset
    BY <1>3, <1>5, <1>6 DEF PlacesInv, Live, Uncommitted
  <1>8. ASSUME NEW e \in running', NEW f \in running', e.session = session', f.session = session',
               e.partition = f.partition
        PROVE  e = f
    BY <1>2, <1>3, <1>8 DEF PlacesInv, Live
  <1>9. QED
    BY <1>4, <1>7, <1>8 DEF PlacesInv, Live, Uncommitted

LEMMA CommitsPlaces ==
    ASSUME KafkaTypes, PlacesInv, log' = log, position' = position, session' = session,
           NEW h \in running, Commits(h)
    PROVE  PlacesInv'
  <1>1. h.partition \in Partitions /\ h.offset \in Nat /\ position[h.partition] = h.offset + 1
    BY HandlerTypes DEF Commits, PlacesInv
  <1>2. /\ committed'[h.partition] = position[h.partition]
        /\ \A p \in Partitions \ {h.partition} : committed'[p] = committed[p]
    BY <1>1 DEF Commits, KafkaTypes
  <1>3. \A p \in Partitions :
            /\ position'[p] <= Len(log'[p])
            /\ committed'[p] # NoOffset => committed'[p] <= position'[p]
    <2>1. ASSUME NEW p \in Partitions, committed'[p] # NoOffset
          PROVE  committed'[p] <= position[p]
      <3>1. position[p] \in Nat
        BY DEF KafkaTypes
      <3>2. CASE p = h.partition
        BY <1>2, <3>1, <3>2
      <3>3. CASE p # h.partition
        BY <1>2, <2>1, <3>3 DEF PlacesInv
      <3>4. QED
        BY <3>2, <3>3
    <2>2. QED
      BY <2>1 DEF PlacesInv
  <1>4. ASSUME NEW f \in running', f.session = session'
        PROVE  committed'[f.partition] = committed[f.partition]
    <2>1. f \in running /\ f # h /\ f.partition \in Partitions
      BY HandlerTypes DEF Commits
    <2>2. f.partition # h.partition
      BY <1>4, <2>1 DEF Commits, PlacesInv, Live
    <2>3. QED
      BY <1>2, <2>1, <2>2
  <1>5. running' \subseteq running
    BY DEF Commits
  <1>6. QED
    BY <1>3, <1>4, <1>5 DEF PlacesInv, Live, Uncommitted

LEMMA CommitsForward ==
    ASSUME KafkaTypes, PlacesInv, NEW h \in running, Commits(h)
    PROVE  Kafka!NeverBack
  <1>1. h.partition \in Partitions /\ h.offset \in Nat /\ Uncommitted(h)
    BY HandlerTypes DEF Commits, PlacesInv
  <1>2. /\ committed'[h.partition] = h.offset + 1
        /\ \A p \in Partitions \ {h.partition} : committed'[p] = committed[p]
    BY <1>1 DEF Commits, KafkaTypes
  <1>3. \A p \in Partitions : committed[p] # NoOffset => committed[p] \in Nat
    BY DEF KafkaTypes
  <1>4. h.offset + 1 # NoOffset
    BY <1>1, BrokerAssumption
  <1>5. QED
    BY <1>1, <1>2, <1>3, <1>4 DEF Kafka!NeverBack, Uncommitted

LEMMA NothingCommitted ==
    ASSUME committed \in [Partitions -> Nat \cup {NoOffset}], committed' = committed
    PROVE  Kafka!NeverBack
  <1>1. \A p \in Partitions : committed[p] # NoOffset => committed[p] \in Nat
    OBVIOUS
  <1>2. QED
    BY <1>1 DEF Kafka!NeverBack

LEMMA KafkaFailuresKept ==
    ASSUME KafkaTypes, KafkaFailures, NEW m \in Copies, LogGains(m), Grows,
           fails'[m.body] >= m.attempt,
           NEW h \in running, NEW s \in {"work", "send", "commit"},
           running' \subseteq (running \ {h}) \cup {[h EXCEPT !.pc = s]},
           s # "work" /\ [h EXCEPT !.pc = s] \in running' => fails'[h.msg.body] >= NextAttempt(h.msg)
    PROVE  KafkaFailures'
  <1> DEFINE g == [h EXCEPT !.pc = s]
  <1>1. ASSUME NEW n \in Copies
        PROVE  /\ fails[n.body] >= n.attempt => fails'[n.body] >= n.attempt
               /\ fails[n.body] >= NextAttempt(n) => fails'[n.body] >= NextAttempt(n)
    <2>1. n.body \in Bodies /\ n.attempt \in Nat
      BY DEF Copies, Messages
    <2>2. fails[n.body] \in Nat /\ fails'[n.body] \in Nat /\ fails'[n.body] >= fails[n.body]
      BY <2>1 DEF KafkaTypes, Grows
    <2>3. QED
      BY <2>1, <2>2 DEF NextAttempt
  <1>2. ASSUME NEW p \in Partitions, NEW i \in DOMAIN log'[p]
        PROVE  fails'[log'[p][i].body] >= log'[p][i].attempt
    <2>1. CASE i \in DOMAIN log[p]
      <3>1. log'[p][i] = log[p][i] /\ log[p][i] \in Copies
        BY <2>1 DEF LogGains, KafkaTypes
      <3>2. QED
        BY <1>1, <2>1, <3>1 DEF KafkaFailures
    <2>2. CASE log'[p][i] = m
      BY <2>2
    <2>3. QED
      BY <2>1, <2>2 DEF LogGains
  <1>3. ASSUME NEW f \in running, f # h
        PROVE  /\ fails'[f.msg.body] >= f.msg.attempt
               /\ f.pc # "work" => fails'[f.msg.body] >= NextAttempt(f.msg)
    <2>1. f.msg \in Copies
      BY HandlerTypes
    <2>2. QED
      BY <1>1, <2>1 DEF KafkaFailures
  <1>4. g.msg = h.msg /\ g.pc = s /\ h.msg \in Copies
    BY HandlerTypes DEF KafkaTypes, HandlerSet
  <1>5. fails'[h.msg.body] >= h.msg.attempt
    BY <1>1, <1>4 DEF KafkaFailures
  <1> HIDE DEF g
  <1>6. ASSUME NEW f \in running'
        PROVE  /\ fails'[f.msg.body] >= f.msg.attempt
               /\ f.pc # "work" => fails'[f.msg.body] >= NextAttempt(f.msg)
    <2>1. CASE f = g
      BY <1>4, <1>5, <2>1 DEF g
    <2>2. CASE f # g
      BY <1>3, <2>2 DEF g
    <2>3. QED
      BY <2>1, <2>2
  <1>7. QED
    BY <1>2, <1>6 DEF KafkaFailures

LEMMA PublishedBefore ==
    ASSUME NEW m, LogGains(m), NEW b, Kafka!Published(b)', log' = log \/ b # m.body
    PROVE  Kafka!Published(b)
  <1>1. PICK p \in Partitions : \E i \in DOMAIN log'[p] : log'[p][i].body = b
    BY DEF Kafka!Published
  <1>2. PICK i \in DOMAIN log'[p] : log'[p][i].body = b
    BY <1>1
  <1>3. i \in DOMAIN log[p] /\ log[p][i].body = b
    BY <1>2 DEF LogGains
  <1>4. QED
    BY <1>3 DEF Kafka!Published

\* A message stays safe while its handler does not end.
LEMMA StaysSafe ==
    ASSUME NEW m, LogGains(m), position' = position, session' = session,
           settled \subseteq settled', skipped \subseteq skipped', Waiting(dead) \subseteq Waiting(dead'),
           NEW b, Safe(b),
           \A f \in running : Live(f) /\ f.pc # "commit" /\ f.msg.body = b => f \in running'
    PROVE  Safe(b)'
  <1>1. CASE Kafka!Finished(b)
    BY <1>1, KafkaOperators DEF Safe, Kafka!Finished
  <1>2. CASE b \in skipped
    BY <1>2 DEF Safe
  <1>3. CASE Unread(b)
    BY <1>3 DEF Safe, Unread, LogGains
  <1>4. CASE BeingHandled(b)
    <2>1. PICK f \in running : Live(f) /\ f.pc # "commit" /\ f.msg.body = b
      BY <1>4 DEF BeingHandled
    <2>2. f \in running' /\ f.session = session'
      BY <2>1 DEF Live
    <2>3. QED
      BY <2>1, <2>2 DEF Safe, BeingHandled, Live
  <1>5. QED
    BY <1>1, <1>2, <1>3, <1>4 DEF Safe

\* What h does makes no other message less safe, if h sends on what it no longer
\* handles.
LEMMA OthersStaySafe ==
    ASSUME KafkaTypes, SafeInv, NEW m, LogGains(m), position' = position, session' = session,
           NEW h \in running, running \ {h} \subseteq running',
           settled \subseteq settled', skipped \subseteq skipped', Waiting(dead) \subseteq Waiting(dead'),
           log' = log \/ Safe(m.body)',
           ~Live(h) \/ h.pc = "commit" \/ Safe(h.msg.body)'
    PROVE  SafeInv'
  <1> SUFFICES ASSUME NEW b \in Bodies, Kafka!Published(b)', ~Safe(b)'
               PROVE  FALSE
    BY DEF SafeInv, Safe, Kafka!Published, Kafka!Finished, Unread, BeingHandled, Live
  <1>1. Kafka!Published(b)
    BY PublishedBefore
  <1>2. Safe(b)
    BY <1>1 DEF SafeInv
  <1>3. ASSUME NEW f \in running, Live(f), f.pc # "commit", f.msg.body = b
        PROVE  f \in running'
    BY <1>3
  <1>4. QED
    BY <1>2, <1>3, StaysSafe

-----------------------------------------------------------------------------
(* Kafka: the steps.                                                       *)

\* A handler step that touches neither the log nor the dead letters.
LEMMA QuietStepKeeps ==
    ASSUME KafkaInv, NEW h \in running, NEW s \in {"work", "send", "commit"},
           log' = log, dead' = dead, position' = position, session' = session,
           MovesOn(h, s) \/ Commits(h),
           running \ {h} \subseteq running',
           s # "work" /\ [h EXCEPT !.pc = s] \in running' => fails'[h.msg.body] >= NextAttempt(h.msg),
           settled \subseteq settled', settled' \subseteq Bodies,
           skipped \subseteq skipped', skipped' \subseteq Bodies, Grows,
           losses' \in 0 .. MaxLosses,
           ~Live(h) \/ h.pc = "commit" \/ Safe(h.msg.body)'
    PROVE  KafkaInv' /\ Kafka!NeverBack
  <1>1. KafkaTypes
    BY KafkaTypesAre DEF KafkaInv
  <1>2. h.msg \in Copies /\ LogGains(h.msg)
    BY <1>1, HandlerTypes, LogUnchanged DEF KafkaTypes
  <1>3. KafkaTypes'
    BY <1>1, HandlerTypes DEF KafkaTypes, Grows
  <1>4. PlacesInv'
    BY <1>1, <1>2, MovesOnPlaces, CommitsPlaces DEF KafkaInv
  <1>5. SafeInv'
    BY <1>1, <1>2, OthersStaySafe DEF KafkaInv
  <1>6. KafkaFailures'
    <2>1. running' \subseteq (running \ {h}) \cup {[h EXCEPT !.pc = s]}
      BY DEF MovesOn, Commits
    <2>2. fails'[h.msg.body] >= h.msg.attempt
      <3>1. h.msg.body \in Bodies /\ h.msg.attempt \in Nat
        BY <1>2 DEF Copies, Messages
      <3>2. fails[h.msg.body] \in Nat /\ fails'[h.msg.body] \in Nat
            /\ fails'[h.msg.body] >= fails[h.msg.body] /\ fails[h.msg.body] >= h.msg.attempt
        BY <1>1, <3>1 DEF KafkaTypes, Grows, KafkaInv, KafkaFailures
      <3>3. QED
        BY <3>1, <3>2
    <2>3. QED
      BY <1>1, <1>2, <2>1, <2>2, KafkaFailuresKept DEF KafkaInv
  <1>7. DeadOnlyAfterLimit'
    <2>1. ASSUME NEW n \in Waiting(dead) PROVE fails'[n.body] >= DeliveryLimit
      <3>1. n.body \in Bodies
        BY <1>1, WaitingType DEF KafkaTypes
      <3>2. fails[n.body] \in Nat /\ fails'[n.body] \in Nat
            /\ fails'[n.body] >= fails[n.body] /\ fails[n.body] >= DeliveryLimit
        BY <1>1, <3>1 DEF KafkaTypes, Grows, KafkaInv, DeadOnlyAfterLimit
      <3>3. QED
        BY <3>2, DeliveryLimitAssumption
    <2>2. QED
      BY <2>1 DEF DeadOnlyAfterLimit
  <1>8. Kafka!NeverBack
    BY <1>1, CommitsForward, NothingCommitted DEF KafkaInv, MovesOn, KafkaTypes
  <1>9. QED
    BY <1>3, <1>4, <1>5, <1>6, <1>7, <1>8, KafkaTypesAre DEF KafkaInv

\* A retry that is counted.
LEMMA RetryCounted ==
    ASSUME KafkaInv, NEW h \in running, Kafka!CountRetry(h)
    PROVE  Grows /\ fails'[h.msg.body] >= NextAttempt(h.msg)
  <1>1. KafkaTypes
    BY KafkaTypesAre DEF KafkaInv
  <1>2. h.msg \in Copies /\ fails[h.msg.body] >= h.msg.attempt /\ fails \in [Bodies -> 0 .. DeliveryLimit]
    BY <1>1, HandlerTypes DEF KafkaInv, KafkaFailures, KafkaTypes
  <1>3. QED
    BY <1>2, FailureCounted DEF Kafka!CountRetry

LEMMA NoRetry ==
    ASSUME KafkaInv, fails' = fails
    PROVE  Grows
  BY KafkaTypesAre DEF KafkaInv, KafkaTypes, Grows

\* A handler that ends and commits if it still may.
LEMMA AcceptedIsLive ==
    ASSUME NEW h, Kafka!Ends(h), IF Kafka!Accepted(h) THEN Kafka!Commit(h) ELSE UNCHANGED committed
    PROVE  (MovesOn(h, "work") \/ Commits(h)) /\ running' = running \ {h}
  <1>1. CASE Live(h)
    BY <1>1 DEF Kafka!Accepted, Kafka!Live, Kafka!Ends, Kafka!Commit, Live, Commits
  <1>2. CASE ~Live(h)
    BY <1>2 DEF Kafka!Accepted, Kafka!Live, Kafka!Ends, Live, MovesOn
  <1>3. QED
    BY <1>1, <1>2

LEMMA WorkDoneKeeps ==
    ASSUME KafkaInv, NEW h \in running, Kafka!WorkDone(h)
    PROVE  KafkaInv' /\ Kafka!NeverBack
  <1>1. KafkaTypes /\ h.msg.body \in Bodies
    BY KafkaTypesAre, HandlerTypes DEF KafkaInv
  <1>2. /\ settled' = settled \cup {h.msg.body}
        /\ log' = log /\ dead' = dead /\ position' = position /\ session' = session
        /\ skipped' = skipped /\ losses' = losses
    BY DEF Kafka!WorkDone
  <1>3. settled \subseteq settled' /\ settled' \subseteq Bodies /\ skipped' \subseteq Bodies
        /\ losses' \in 0 .. MaxLosses
    BY <1>1, <1>2 DEF KafkaTypes
  <1>4. Safe(h.msg.body)'
    BY <1>2 DEF Safe, Kafka!Finished
  <1>5. CASE Kafka!Accepted(h)
    <2>1. Commits(h) /\ running' = running \ {h} /\ fails' = fails
      BY <1>5 DEF Kafka!WorkDone, Kafka!Commit, Kafka!Ends, Kafka!Accepted, Kafka!Live, Commits, Live
    <2>2. QED
      BY <1>2, <1>3, <1>4, <2>1, NoRetry, QuietStepKeeps
  <1>6. CASE ~Kafka!Accepted(h)
    <2>1. Kafka!CountRetry(h) /\ MovesOn(h, "send") /\ running \ {h} \subseteq running'
      BY <1>6 DEF Kafka!WorkDone, Kafka!Goto, MovesOn
    <2>2. Grows /\ fails'[h.msg.body] >= NextAttempt(h.msg)
      BY <2>1, RetryCounted
    <2>3. QED
      BY <1>2, <1>3, <1>4, <2>1, <2>2, QuietStepKeeps
  <1>7. QED
    BY <1>5, <1>6

LEMMA WorkRefusedKeeps ==
    ASSUME KafkaInv, NEW h \in running, Kafka!WorkRefused(h)
    PROVE  KafkaInv' /\ Kafka!NeverBack
  <1>1. KafkaTypes /\ h.msg.body \in Bodies
    BY KafkaTypesAre, HandlerTypes DEF KafkaInv
  <1>2. /\ settled' = settled \cup {h.msg.body}
        /\ log' = log /\ dead' = dead /\ position' = position /\ session' = session
        /\ fails' = fails /\ skipped' = skipped /\ losses' = losses
    BY DEF Kafka!WorkRefused
  <1>3. settled \subseteq settled' /\ settled' \subseteq Bodies /\ skipped' \subseteq Bodies
        /\ losses' \in 0 .. MaxLosses
    BY <1>1, <1>2 DEF KafkaTypes
  <1>4. Safe(h.msg.body)'
    BY <1>2 DEF Safe, Kafka!Finished
  <1>5. (MovesOn(h, "work") \/ Commits(h)) /\ running' = running \ {h}
    BY AcceptedIsLive DEF Kafka!WorkRefused
  <1>6. QED
    BY <1>2, <1>3, <1>4, <1>5, NoRetry, QuietStepKeeps

LEMMA KafkaWorkFailsKeeps ==
    ASSUME KafkaInv, NEW h \in running, Kafka!WorkFails(h)
    PROVE  KafkaInv' /\ Kafka!NeverBack
  <1>1. KafkaTypes
    BY KafkaTypesAre DEF KafkaInv
  <1>2. /\ Kafka!CountRetry(h) /\ MovesOn(h, "send")
        /\ running' = (running \ {h}) \cup {[h EXCEPT !.pc = "send"]}
        /\ log' = log /\ dead' = dead /\ position' = position /\ session' = session
        /\ settled' = settled /\ skipped' = skipped /\ losses' = losses
    BY DEF Kafka!WorkFails, Kafka!Goto, MovesOn
  <1>3. Grows /\ fails'[h.msg.body] >= NextAttempt(h.msg)
    BY <1>2, RetryCounted
  <1>4. ~Live(h) \/ Safe(h.msg.body)'
    <2> DEFINE g == [h EXCEPT !.pc = "send"]
    <2>1. g \in running' /\ g.session = h.session /\ g.pc = "send" /\ g.msg = h.msg
      BY <1>1, <1>2 DEF KafkaTypes, HandlerSet
    <2> HIDE DEF g
    <2>2. QED
      BY <1>2, <2>1 DEF Safe, BeingHandled, Live
  <1>5. settled' \subseteq Bodies /\ skipped' \subseteq Bodies /\ losses' \in 0 .. MaxLosses
    BY <1>1, <1>2 DEF KafkaTypes
  <1>6. QED
    BY <1>2, <1>3, <1>4, <1>5, QuietStepKeeps

\* nack sends the message on before its original is committed.
LEMMA ResendKeeps ==
    ASSUME KafkaInv, NEW h \in running, Kafka!Resend(h)
    PROVE  KafkaInv' /\ Kafka!NeverBack
  <1> DEFINE n == [h.msg EXCEPT !.attempt = NextAttempt(h.msg)]
  <1>1. KafkaTypes /\ h.msg \in Copies /\ h.msg.body \in Bodies
    BY KafkaTypesAre, HandlerTypes DEF KafkaInv
  <1>2. log \in [Partitions -> Seq(Copies)] /\ dead \in [Copies -> Nat]
    BY <1>1 DEF KafkaTypes
  <1>3. /\ h.pc = "send" /\ dead' = DeadAfterNack(dead, h.msg)
        /\ running' = (running \ {h}) \cup {[h EXCEPT !.pc = "commit"]} /\ MovesOn(h, "commit")
        /\ position' = position /\ session' = session /\ committed' = committed
        /\ settled' = settled /\ fails' = fails /\ skipped' = skipped /\ losses' = losses
    BY <1>1, KafkaOperators DEF Kafka!Resend, Kafka!Goto, MovesOn
  <1>4. fails'[h.msg.body] >= NextAttempt(h.msg) /\ fails'[h.msg.body] >= h.msg.attempt /\ Grows
    BY <1>3, NoRetry DEF KafkaInv, KafkaFailures
  <1>5. PICK m \in Copies : LogGains(m) /\ m.body = h.msg.body /\ fails'[m.body] >= m.attempt
                            /\ (log' = log \/ Safe(m.body)') /\ Safe(h.msg.body)'
    <2>1. CASE Exhausted(h.msg)
      <3>1. log' = log /\ Waiting(dead') = Waiting(dead) \cup {h.msg}
        BY <1>1, <1>2, <1>3, <2>1, KafkaOperators, WaitingAfter DEF Kafka!Resend, DeadAfterNack
      <3>2. Safe(h.msg.body)'
        BY <3>1, KafkaOperators DEF Safe, Kafka!Finished
      <3>3. QED
        BY <1>1, <1>2, <1>4, <3>1, <3>2, LogUnchanged
    <2>2. CASE ~Exhausted(h.msg)
      <3>1. n \in Copies /\ n.body = h.msg.body /\ n.attempt = NextAttempt(h.msg)
        BY <1>1, <2>2, DeliveryLimitAssumption DEF Copies, Messages, Exhausted, NextAttempt
      <3>2. Kafka!Appended(n)
        BY <1>1, <2>2, KafkaOperators DEF Kafka!Resend
      <3> HIDE DEF n
      <3>3. LogGains(n) /\ \E p \in Partitions : \E i \in DOMAIN log'[p] : i > Len(log[p]) /\ log'[p][i] = n
        BY <1>2, <3>1, <3>2, AppendedGains
      <3>4. Unread(n.body)'
        <4>0. PICK p \in Partitions : \E i \in DOMAIN log'[p] : i > Len(log[p]) /\ log'[p][i] = n
          BY <3>3
        <4>1. PICK i \in DOMAIN log'[p] : i > Len(log[p]) /\ log'[p][i] = n
          BY <4>0
        <4>2. position'[p] <= Len(log[p]) /\ position'[p] \in Nat /\ Len(log[p]) \in Nat /\ i \in Nat
          BY <1>1, <1>3, <3>3, SMTT(30) DEF KafkaInv, PlacesInv, KafkaTypes, LogGains
        <4>3. QED
          BY <4>1, <4>2 DEF Unread
      <3>5. Safe(n.body)'
        BY <3>4 DEF Safe
      <3>6. QED
        BY <1>4, <3>1, <3>3, <3>5
    <2>3. QED
      BY <2>1, <2>2
  <1> HIDE DEF n
  <1>6. /\ dead' \in [Copies -> Nat] /\ Waiting(dead) \subseteq Waiting(dead')
        /\ \A k \in Waiting(dead') : fails'[k.body] >= DeliveryLimit
    <2>1. CASE Exhausted(h.msg)
      <3>1. dead' \in [Copies -> Nat] /\ Waiting(dead') = Waiting(dead) \cup {h.msg}
        BY <1>1, <1>2, <1>3, <2>1, QueueType, WaitingAfter DEF DeadAfterNack
      <3>2. fails'[h.msg.body] >= DeliveryLimit
        <4>1. fails'[h.msg.body] \in Nat /\ h.msg.attempt \in Nat
          BY <1>1, <1>4 DEF Grows, Copies, Messages
        <4>2. QED
          BY <1>4, <2>1, <4>1, DeliveryLimitAssumption DEF Exhausted, NextAttempt
      <3>3. QED
        BY <1>3, <3>1, <3>2 DEF KafkaInv, DeadOnlyAfterLimit
    <2>2. CASE ~Exhausted(h.msg)
      BY <1>2, <1>3, <2>2 DEF DeadAfterNack, KafkaInv, DeadOnlyAfterLimit
    <2>3. QED
      BY <2>1, <2>2
  <1>7. KafkaTypes'
    <2>1. log' \in [Partitions -> Seq(Copies)]
      BY <1>5 DEF LogGains
    <2>2. running' \subseteq HandlerSet
      BY <1>1, <1>3, HandlerTypes
    <2>3. QED
      BY <1>1, <1>3, <1>6, <2>1, <2>2 DEF KafkaTypes
  <1>8. PlacesInv'
    BY <1>1, <1>3, <1>5, MovesOnPlaces DEF KafkaInv
  <1>9. SafeInv'
    BY <1>1, <1>3, <1>5, <1>6, OthersStaySafe DEF KafkaInv
  <1>10. KafkaFailures'
    BY <1>1, <1>3, <1>4, <1>5, KafkaFailuresKept DEF KafkaInv
  <1>11. DeadOnlyAfterLimit'
    BY <1>6 DEF DeadOnlyAfterLimit
  <1>12. Kafka!NeverBack
    BY <1>1, <1>3, NothingCommitted DEF KafkaTypes
  <1>13. QED
    BY <1>7, <1>8, <1>9, <1>10, <1>11, <1>12, KafkaTypesAre DEF KafkaInv

LEMMA CommitOriginalKeeps ==
    ASSUME KafkaInv, NEW h \in running, Kafka!CommitOriginal(h)
    PROVE  KafkaInv' /\ Kafka!NeverBack
  <1>1. KafkaTypes
    BY KafkaTypesAre DEF KafkaInv
  <1>2. /\ h.pc = "commit" /\ log' = log /\ dead' = dead /\ position' = position /\ session' = session
        /\ settled' = settled /\ fails' = fails /\ skipped' = skipped /\ losses' = losses
    BY DEF Kafka!CommitOriginal
  <1>3. settled' \subseteq Bodies /\ skipped' \subseteq Bodies /\ losses' \in 0 .. MaxLosses
    BY <1>1, <1>2 DEF KafkaTypes
  <1>4. (MovesOn(h, "work") \/ Commits(h)) /\ running' = running \ {h}
    BY AcceptedIsLive DEF Kafka!CommitOriginal
  <1>5. QED
    BY <1>2, <1>3, <1>4, NoRetry, QuietStepKeeps

LEMMA GiveUpKeeps ==
    ASSUME KafkaInv, NEW h \in running, Kafka!GiveUp(h)
    PROVE  KafkaInv' /\ Kafka!NeverBack
  <1>1. KafkaTypes /\ h.msg.body \in Bodies
    BY KafkaTypesAre, HandlerTypes DEF KafkaInv
  <1>2. /\ losses < MaxLosses /\ losses' = losses + 1
        /\ MovesOn(h, "work") /\ running' = running \ {h}
        /\ skipped' = skipped \cup {h.msg.body} /\ log' = log /\ dead' = dead
        /\ position' = position /\ session' = session /\ settled' = settled /\ fails' = fails
    BY DEF Kafka!GiveUp, Kafka!Ends, MovesOn
  <1>3. settled' \subseteq Bodies /\ skipped' \subseteq Bodies /\ losses' \in 0 .. MaxLosses
    BY <1>1, <1>2, BrokerAssumption DEF KafkaTypes
  <1>4. Safe(h.msg.body)'
    BY <1>2 DEF Safe
  <1>5. QED
    BY <1>2, <1>3, <1>4, NoRetry, QuietStepKeeps

LEMMA PublishKeeps ==
    ASSUME KafkaInv, NEW b \in Bodies, Kafka!Publish(b)
    PROVE  KafkaInv' /\ Kafka!NeverBack
  <1> DEFINE m == FirstCopy(b)
  <1>1. KafkaTypes
    BY KafkaTypesAre DEF KafkaInv
  <1>2. /\ Kafka!Appended(m)
        /\ dead' = dead /\ committed' = committed /\ position' = position /\ session' = session
        /\ running' = running /\ settled' = settled /\ fails' = fails /\ skipped' = skipped
        /\ losses' = losses
    BY KafkaOperators DEF Kafka!Publish
  <1>3. m \in Copies /\ m.body = b /\ m.attempt = 0
    BY FirstCopyType DEF Copies, FirstCopy
  <1> HIDE DEF m
  <1>4. LogGains(m) /\ \E p \in Partitions : \E i \in DOMAIN log'[p] : i > Len(log[p]) /\ log'[p][i] = m
    BY <1>1, <1>2, <1>3, AppendedGains DEF KafkaTypes
  <1>5. KafkaTypes'
    BY <1>1, <1>2, <1>4 DEF KafkaTypes, LogGains
  <1>6. PlacesInv'
    BY <1>1, <1>2, <1>4, LogKeepsPlaces DEF KafkaInv, PlacesInv, Live, Uncommitted
  <1>7. SafeInv'
    <2>1. ASSUME NEW c \in Bodies, Kafka!Published(c)', c # b
          PROVE  Safe(c)'
      <3>1. Safe(c)
        BY <1>3, <1>4, <2>1, PublishedBefore DEF KafkaInv, SafeInv
      <3>2. QED
        BY <1>2, <1>4, <3>1, StaysSafe
    <2>2. Safe(b)'
      <3>1. PICK p \in Partitions : \E i \in DOMAIN log'[p] : i > Len(log[p]) /\ log'[p][i] = m
        BY <1>4
      <3>2. PICK i \in DOMAIN log'[p] : i > Len(log[p]) /\ log'[p][i] = m
        BY <3>1
      <3>3. position'[p] <= Len(log[p]) /\ position'[p] \in Nat /\ Len(log[p]) \in Nat /\ i \in Nat
        BY <1>1, <1>2, <1>4 DEF KafkaInv, PlacesInv, KafkaTypes, LogGains
      <3>4. QED
        BY <1>3, <3>2, <3>3 DEF Safe, Unread
    <2>3. QED
      BY <2>1, <2>2 DEF SafeInv, Safe, Kafka!Published, Kafka!Finished, Unread, BeingHandled, Live
  <1>8. KafkaFailures'
    <2>1. ASSUME NEW p \in Partitions, NEW i \in DOMAIN log'[p]
          PROVE  fails[log'[p][i].body] >= log'[p][i].attempt
      <3>1. fails[m.body] >= m.attempt
        BY <1>1, <1>3 DEF KafkaTypes
      <3>2. QED
        BY <1>4, <3>1 DEF LogGains, KafkaInv, KafkaFailures
    <2>2. QED
      BY <1>2, <2>1 DEF KafkaInv, KafkaFailures
  <1>9. DeadOnlyAfterLimit'
    BY <1>2 DEF KafkaInv, DeadOnlyAfterLimit
  <1>10. Kafka!NeverBack
    BY <1>1, <1>2, NothingCommitted DEF KafkaTypes
  <1>11. QED
    BY <1>5, <1>6, <1>7, <1>8, <1>9, <1>10, KafkaTypesAre DEF KafkaInv

\* The next message of a partition, once the handler of the last has ended.
LEMMA DispatchKeeps ==
    ASSUME KafkaInv, NEW p \in Partitions, Kafka!Dispatch(p)
    PROVE  KafkaInv' /\ Kafka!NeverBack
  <1> DEFINE h == [session |-> session, partition |-> p, offset |-> position[p],
                   msg |-> log[p][position[p] + 1], pc |-> "work"]
  <1>1. KafkaTypes
    BY KafkaTypesAre DEF KafkaInv
  <1>2. /\ running' = running \cup {h} /\ position' = [position EXCEPT ![p] = @ + 1]
        /\ log' = log /\ dead' = dead /\ committed' = committed /\ session' = session
        /\ settled' = settled /\ fails' = fails /\ skipped' = skipped /\ losses' = losses
    BY DEF Kafka!Dispatch
  <1>3. /\ position[p] \in Nat /\ log[p] \in Seq(Copies) /\ position[p] + 1 \in DOMAIN log[p]
        /\ position[p] + 1 <= Len(log[p])
    BY <1>1 DEF KafkaTypes, Kafka!Dispatch
  <1>4. /\ position'[p] = position[p] + 1
        /\ \A q \in Partitions \ {p} : position'[q] = position[q]
    BY <1>1, <1>2 DEF KafkaTypes
  <1>5. ~ \E f \in running : f.session = session /\ f.partition = p
    BY DEF Kafka!Dispatch, Kafka!Busy
  <1>6. /\ h.session = session /\ h.partition = p /\ h.offset = position[p]
        /\ h.msg = log[p][position[p] + 1] /\ h.pc = "work"
    OBVIOUS
  <1>7. h \in HandlerSet
    BY <1>1, <1>3 DEF HandlerSet, KafkaTypes
  <1> HIDE DEF h
  <1>8. KafkaTypes'
    <2>1. position' \in [Partitions -> Nat]
      BY <1>1, <1>2, <1>3 DEF KafkaTypes
    <2>2. QED
      BY <1>1, <1>2, <1>7, <2>1 DEF KafkaTypes
  <1>9. PlacesInv'
    <2>1. ASSUME NEW q \in Partitions
          PROVE  /\ position'[q] <= Len(log[q])
                 /\ committed[q] # NoOffset => committed[q] <= position'[q]
      <3>1. /\ position[q] <= Len(log[q]) /\ position[q] \in Nat
            /\ committed[q] # NoOffset => committed[q] <= position[q] /\ committed[q] \in Nat
        BY <1>1 DEF KafkaInv, PlacesInv, KafkaTypes
      <3>2. QED
        BY <1>3, <1>4, <3>1
    <2>2. ASSUME NEW f \in running
          PROVE  /\ f.session <= session
                 /\ f.session = session =>
                      /\ position'[f.partition] = f.offset + 1
                      /\ log[f.partition][f.offset + 1] = f.msg
                      /\ committed[f.partition] = NoOffset \/ committed[f.partition] <= f.offset
      <3>1. f.partition \in Partitions
        BY <1>1, HandlerTypes
      <3>2. QED
        BY <1>4, <1>5, <3>1 DEF KafkaInv, PlacesInv, Live, Uncommitted
    <2>3. /\ h.session <= session
          /\ position'[h.partition] = h.offset + 1
          /\ log[h.partition][h.offset + 1] = h.msg
          /\ committed[h.partition] = NoOffset \/ committed[h.partition] <= h.offset
      BY <1>1, <1>4, <1>6 DEF KafkaTypes, KafkaInv, PlacesInv
    <2>4. ASSUME NEW e \in running', NEW f \in running', e.session = session, f.session = session,
                 e.partition = f.partition
          PROVE  e = f
      BY <1>2, <1>5, <1>6, <2>4 DEF KafkaInv, PlacesInv, Live
    <2>5. QED
      BY <1>2, <2>1, <2>2, <2>3, <2>4 DEF PlacesInv, Live, Uncommitted
  <1>10. SafeInv'
    <2>1. ASSUME NEW b \in Bodies, Safe(b) PROVE Safe(b)'
      <3>1. CASE Kafka!Finished(b) \/ b \in skipped
        BY <1>2, <3>1, KafkaOperators DEF Safe, Kafka!Finished
      <3>2. CASE BeingHandled(b)
        BY <1>2, <3>2 DEF Safe, BeingHandled, Live
      <3>3. CASE Unread(b)
        <4>1. PICK q \in Partitions : \E i \in DOMAIN log[q] : i > position[q] /\ log[q][i].body = b
          BY <3>3 DEF Unread
        <4>2. PICK i \in DOMAIN log[q] : i > position[q] /\ log[q][i].body = b
          BY <4>1
        <4>3. i \in Nat /\ position[q] \in Nat
          BY <1>1 DEF KafkaTypes
        <4>4. CASE q = p /\ i = position[p] + 1
          <5>1. h \in running' /\ h.session = session' /\ h.pc # "commit" /\ h.msg.body = b
            BY <1>2, <1>6, <4>2, <4>4
          <5>2. QED
            BY <5>1 DEF Safe, BeingHandled, Live
        <4>5. CASE ~(q = p /\ i = position[p] + 1)
          <5>1. i > position'[q]
            BY <1>3, <1>4, <4>2, <4>3, <4>5
          <5>2. QED
            BY <1>2, <4>2, <5>1 DEF Safe, Unread
        <4>6. QED
          BY <4>4, <4>5
      <3>4. QED
        BY <2>1, <3>1, <3>2, <3>3 DEF Safe
    <2>2. \A b : Kafka!Published(b)' => Kafka!Published(b)
      BY <1>2 DEF Kafka!Published
    <2>3. ASSUME NEW b \in Bodies, Kafka!Published(b)' PROVE Safe(b)'
      BY <2>1, <2>2, <2>3 DEF KafkaInv, SafeInv
    <2>4. QED
      BY <2>3 DEF SafeInv, Safe, Kafka!Published, Kafka!Finished, Unread, BeingHandled, Live
  <1>11. KafkaFailures'
    <2>1. fails[h.msg.body] >= h.msg.attempt
      BY <1>3, <1>6 DEF KafkaInv, KafkaFailures
    <2>2. QED
      BY <1>2, <1>6, <2>1 DEF KafkaInv, KafkaFailures
  <1>12. DeadOnlyAfterLimit'
    BY <1>2 DEF KafkaInv, DeadOnlyAfterLimit
  <1>13. Kafka!NeverBack
    BY <1>1, <1>2, NothingCommitted DEF KafkaTypes
  <1>14. QED
    BY <1>8, <1>9, <1>10, <1>11, <1>12, <1>13, KafkaTypesAre DEF KafkaInv

\* A new session reads on from what was committed; where nothing was, what it skips
\* is named.
LEMMA RebalanceKeeps ==
    ASSUME KafkaInv, Kafka!Rebalance
    PROVE  KafkaInv' /\ Kafka!NeverBack
  <1>1. KafkaTypes
    BY KafkaTypesAre DEF KafkaInv
  <1>2. /\ session < MaxSessions /\ session' = session + 1 /\ running' \subseteq running
        /\ log' = log /\ dead' = dead /\ committed' = committed /\ settled' = settled
        /\ fails' = fails /\ losses' = losses
        /\ position' = [p \in Partitions |-> IF committed[p] = NoOffset THEN Len(log[p]) ELSE committed[p]]
    BY DEF Kafka!Rebalance, Kafka!Resumed
  <1>3. /\ skipped \subseteq skipped'
        /\ \A p \in Partitions : \A i \in DOMAIN log[p] :
             committed[p] = NoOffset => log[p][i].body \in skipped'
    BY DEF Kafka!Rebalance, Kafka!UnreadOn
  <1>4. skipped' \subseteq Bodies
    <2>1. ASSUME NEW p \in Partitions, NEW i \in DOMAIN log[p]
          PROVE  log[p][i].body \in Bodies
      <3>1. log[p][i] \in Copies
        BY <1>1 DEF KafkaTypes
      <3>2. QED
        BY <3>1 DEF Copies, Messages
    <2>2. \A p \in Partitions : Kafka!UnreadOn(p) \subseteq Bodies
      BY <2>1 DEF Kafka!UnreadOn
    <2>3. QED
      BY <1>1, <2>2 DEF Kafka!Rebalance, KafkaTypes
  <1>5. ASSUME NEW p \in Partitions
        PROVE  /\ committed[p] = NoOffset => position'[p] = Len(log[p])
               /\ committed[p] # NoOffset => position'[p] = committed[p]
               /\ position'[p] \in Nat /\ Len(log[p]) \in Nat /\ position[p] \in Nat
    BY <1>1, <1>2 DEF KafkaTypes
  <1>6. KafkaTypes'
    <2>1. position' \in [Partitions -> Nat]
      BY <1>2, <1>5
    <2>2. session' \in 1 .. MaxSessions
      BY <1>1, <1>2, BrokerAssumption DEF KafkaTypes
    <2>3. QED
      BY <1>1, <1>2, <1>4, <2>1, <2>2 DEF KafkaTypes
  <1>7. \A f \in running : f.session # session' /\ f.session <= session'
    <2>1. ASSUME NEW f \in running PROVE f.session # session' /\ f.session <= session'
      <3>1. f.session \in Nat /\ session \in Nat /\ f.session <= session
        <4>1. f.session \in Nat
          BY <1>1, HandlerTypes
        <4>2. session \in Nat
          BY <1>1 DEF KafkaTypes
        <4>3. QED
          BY <4>1, <4>2 DEF KafkaInv, PlacesInv
      <3>2. QED
        BY <1>2, <3>1
    <2>2. QED
      BY <2>1
  <1>8. PlacesInv'
    <2>1. ASSUME NEW p \in Partitions
          PROVE  /\ position'[p] <= Len(log[p])
                 /\ committed[p] # NoOffset => committed[p] <= position'[p]
      BY <1>5 DEF KafkaInv, PlacesInv
    <2>2. QED
      BY <1>2, <1>7, <2>1 DEF PlacesInv, Live, Uncommitted
  <1>9. SafeInv'
    <2>1. ASSUME NEW b, NEW p \in Partitions, NEW i \in DOMAIN log[p], log[p][i].body = b,
                 committed[p] # NoOffset => i > committed[p]
          PROVE  Safe(b)'
      <3>1. CASE committed[p] = NoOffset
        BY <1>3, <2>1, <3>1 DEF Safe
      <3>2. CASE committed[p] # NoOffset
        <4>1. i \in DOMAIN log'[p] /\ i > position'[p] /\ log'[p][i].body = b
          BY <1>2, <1>5, <2>1, <3>2
        <4>2. QED
          BY <4>1 DEF Safe, Unread
      <3>3. QED
        BY <3>1, <3>2
    <2>2. ASSUME NEW b \in Bodies, Safe(b) PROVE Safe(b)'
      <3>1. CASE Kafka!Finished(b) \/ b \in skipped
        BY <1>2, <1>3, <3>1, KafkaOperators DEF Safe, Kafka!Finished
      <3>2. CASE Unread(b)
        <4>1. PICK q \in Partitions : \E i \in DOMAIN log[q] : i > position[q] /\ log[q][i].body = b
          BY <3>2 DEF Unread
        <4>2. PICK i \in DOMAIN log[q] : i > position[q] /\ log[q][i].body = b
          BY <4>1
        <4>3. i \in Nat /\ position[q] \in Nat
          BY <1>1 DEF KafkaTypes
        <4>4. committed[q] # NoOffset => i > committed[q]
          BY <1>1, <4>2, <4>3 DEF KafkaInv, PlacesInv, KafkaTypes
        <4>5. QED
          BY <2>1, <4>2, <4>4
      <3>3. CASE BeingHandled(b)
        <4>1. PICK f \in running : Live(f) /\ f.msg.body = b
          BY <3>3 DEF BeingHandled
        <4>2. f.partition \in Partitions /\ f.offset \in Nat
          BY <1>1, HandlerTypes
        <4>3. /\ position[f.partition] = f.offset + 1
              /\ log[f.partition][f.offset + 1] = f.msg /\ Uncommitted(f)
              /\ position[f.partition] <= Len(log[f.partition])
          BY <4>1, <4>2 DEF KafkaInv, PlacesInv
        <4>4. f.offset + 1 \in DOMAIN log[f.partition]
          BY <1>1, <4>2, <4>3 DEF KafkaTypes
        <4>5. committed[f.partition] # NoOffset => f.offset + 1 > committed[f.partition]
          BY <1>1, <4>2, <4>3 DEF Uncommitted, KafkaTypes
        <4>6. log[f.partition][f.offset + 1].body = b
          BY <4>1, <4>3
        <4>7. QED
          BY <2>1, <4>2, <4>4, <4>5, <4>6
      <3>4. QED
        BY <2>2, <3>1, <3>2, <3>3 DEF Safe
    <2>3. \A b : Kafka!Published(b)' => Kafka!Published(b)
      BY <1>2 DEF Kafka!Published
    <2>4. ASSUME NEW b \in Bodies, Kafka!Published(b)' PROVE Safe(b)'
      BY <2>2, <2>3, <2>4 DEF KafkaInv, SafeInv
    <2>5. QED
      BY <2>4 DEF SafeInv, Safe, Kafka!Published, Kafka!Finished, Unread, BeingHandled, Live
  <1>10. KafkaFailures' /\ DeadOnlyAfterLimit'
    BY <1>2 DEF KafkaInv, KafkaFailures, DeadOnlyAfterLimit
  <1>11. Kafka!NeverBack
    BY <1>1, <1>2, NothingCommitted DEF KafkaTypes
  <1>12. QED
    BY <1>6, <1>8, <1>9, <1>10, <1>11, KafkaTypesAre DEF KafkaInv

LEMMA KafkaKeeps ==
    ASSUME KafkaInv, Kafka!Next
    PROVE  KafkaInv' /\ Kafka!NeverBack
  <1>1. ASSUME NEW h \in running, Kafka!HandlerStep(h)
        PROVE  KafkaInv' /\ Kafka!NeverBack
    BY <1>1, WorkDoneKeeps, WorkRefusedKeeps, KafkaWorkFailsKeeps, ResendKeeps,
       CommitOriginalKeeps, GiveUpKeeps DEF Kafka!HandlerStep
  <1>2. CASE Kafka!SomePublish
    BY <1>2, PublishKeeps DEF Kafka!SomePublish
  <1>3. CASE Kafka!SomeDelivery
    BY <1>3, DispatchKeeps DEF Kafka!SomeDelivery
  <1>4. CASE Kafka!Rebalance
    BY <1>4, RebalanceKeeps
  <1>5. QED
    BY <1>1, <1>2, <1>3, <1>4 DEF Kafka!Next, Kafka!SomeHandlerStep


-----------------------------------------------------------------------------
(* The two brokers together.                                               *)

LEMMA InitShared ==
    ASSUME Rabbit!Init
    PROVE  /\ dead \in [Copies -> Nat] /\ Waiting(dead) = {}
           /\ running = {} /\ settled = {} /\ losses = 0
           /\ fails = [b \in Bodies |-> 0]
           /\ fails \in [Bodies -> 0 .. DeliveryLimit] /\ losses \in 0 .. MaxLosses
  <1>1. dead = [m \in Copies |-> 0]
    BY RabbitOperators DEF Rabbit!Init, Rabbit!NoCopies
  <1>2. dead \in [Copies -> Nat] /\ Waiting(dead) = {}
    BY <1>1 DEF Waiting
  <1>3. running = {} /\ settled = {} /\ losses = 0 /\ fails = [b \in Bodies |-> 0]
    BY DEF Rabbit!Init
  <1>4. fails \in [Bodies -> 0 .. DeliveryLimit] /\ losses \in 0 .. MaxLosses
    BY <1>3, DeliveryLimitAssumption, BrokerAssumption
  <1>5. QED
    BY <1>2, <1>3, <1>4

LEMMA InitRabbit ==
    ASSUME Rabbit!Init
    PROVE  RabbitInv
  <1>1. /\ out = {} /\ conns = {1} /\ chans = {1} /\ listening = {1} /\ channel = 1 /\ gen = 1
        /\ active = TRUE /\ dlqKnown = FALSE /\ crashes = 0
        /\ tags = [c \in 1 .. MaxChannels |-> 0]
        /\ queue = [m \in Copies |-> IF m.attempt = 0 THEN 1 ELSE 0]
    BY RabbitOperators DEF Rabbit!Init, Rabbit!Channels
  <1>2. Rabbit!TypeOK
    <2>1. queue \in [Copies -> Nat] /\ tags \in [1 .. MaxChannels -> Nat]
      BY <1>1
    <2>2. gen \in 1 .. MaxChannels /\ channel \in 0 .. gen /\ crashes \in 0 .. MaxCrashes
      BY <1>1, BrokerAssumption
    <2>3. conns \subseteq 1 .. gen /\ chans \subseteq conns /\ listening \subseteq chans
      BY <1>1
    <2>4. QED
      BY <1>1, <2>1, <2>2, <2>3, InitShared, RabbitOperators
         DEF Rabbit!TypeOK, Rabbit!Channels
  <1>3. TagsInv
    BY <1>1, InitShared, FS_EmptySet DEF TagsInv
  <1>4. \A m \in Waiting(queue) : m \in Copies /\ m.attempt = 0
    BY <1>1 DEF Waiting
  <1>5. ASSUME NEW b \in Bodies PROVE Rabbit!HeldByBroker(b)
    <2>1. FirstCopy(b) \in Copies /\ FirstCopy(b).body = b /\ FirstCopy(b).attempt = 0
      BY FirstCopyType DEF Copies, FirstCopy
    <2>2. FirstCopy(b) \in Waiting(queue)
      BY <1>1, <2>1 DEF Waiting
    <2>3. QED
      BY <2>1, <2>2, HeldIs
  <1>6. CalmInv
    BY <1>1, <1>5, InitShared DEF CalmInv
  <1>7. RabbitFailures
    <2>1. ASSUME NEW m \in Waiting(queue) PROVE fails[m.body] >= m.attempt
      <3>1. m.body \in Bodies /\ m.attempt = 0
        BY <1>4 DEF Copies, Messages
      <3>2. QED
        BY <3>1, InitShared
    <2>2. QED
      BY <1>1, <2>1, InitShared DEF RabbitFailures
  <1>8. DeadOnlyAfterLimit
    BY InitShared DEF DeadOnlyAfterLimit
  <1>9. QED
    BY <1>2, <1>3, <1>6, <1>7, <1>8 DEF RabbitInv

LEMMA InitKafka ==
    ASSUME Rabbit!Init, Kafka!Init
    PROVE  KafkaInv
  <1>1. /\ log = [p \in Partitions |-> <<>>] /\ position = [p \in Partitions |-> 0]
        /\ committed \in [Partitions -> {NoOffset, 0}] /\ session = 1 /\ skipped = {}
    BY DEF Kafka!Init
  <1>2. KafkaTypes
    <2>1. /\ log \in [Partitions -> Seq(Copies)] /\ position \in [Partitions -> Nat]
          /\ committed \in [Partitions -> Nat \cup {NoOffset}]
      BY <1>1
    <2>2. session \in 1 .. MaxSessions
      BY <1>1, BrokerAssumption
    <2>3. QED
      BY <1>1, <2>1, <2>2, InitShared DEF KafkaTypes
  <1>3. PlacesInv
    <2>1. ASSUME NEW p \in Partitions
          PROVE  /\ position[p] <= Len(log[p])
                 /\ committed[p] # NoOffset => committed[p] <= position[p]
      BY <1>1
    <2>2. QED
      BY <2>1, InitShared DEF PlacesInv
  <1>4. \A p \in Partitions : DOMAIN log[p] = {}
    BY <1>1
  <1>5. SafeInv
    BY <1>4 DEF SafeInv, Kafka!Published
  <1>6. KafkaFailures
    BY <1>4, InitShared DEF KafkaFailures
  <1>7. DeadOnlyAfterLimit
    BY InitShared DEF DeadOnlyAfterLimit
  <1>8. QED
    BY <1>2, <1>3, <1>5, <1>6, <1>7, KafkaTypesAre DEF KafkaInv

LEMMA InitBroker == Init => BrokerInv
  <1> SUFFICES ASSUME Init PROVE BrokerInv
    OBVIOUS
  <1>1. brokerType \in {"rabbitmq", "kafka"} /\ Rabbit!Init
    BY DEF Init
  <1>2. CASE brokerType = "kafka"
    BY <1>1, <1>2, InitKafka DEF Init, BrokerInv
  <1>3. CASE brokerType = "rabbitmq"
    BY <1>1, <1>3, InitRabbit DEF Init, BrokerInv, Dormant
  <1>4. QED
    BY <1>1, <1>2, <1>3

LEMMA SelectedRabbitKeeps ==
    ASSUME BrokerInv, RabbitStep
    PROVE  BrokerInv' /\ Rabbit!SettlesOwn /\ Kafka!NeverBack
  <1>1. brokerType = "rabbitmq" /\ brokerType' = brokerType /\ committed' = committed /\ Rabbit!Next
    BY DEF RabbitStep, With, kafkaVars
  <1>2. RabbitInv /\ Dormant
    BY <1>1 DEF BrokerInv
  <1>3. RabbitInv' /\ Rabbit!SettlesOwn
    BY <1>1, <1>2, RabbitKeeps
  <1>4. Dormant'
    BY <1>1, <1>2 DEF Dormant
  <1>5. Kafka!NeverBack
    BY <1>2 DEF Dormant, Kafka!NeverBack
  <1>6. QED
    BY <1>1, <1>3, <1>4, <1>5 DEF BrokerInv

LEMMA SelectedKafkaKeeps ==
    ASSUME BrokerInv, KafkaStep
    PROVE  BrokerInv' /\ Rabbit!SettlesOwn /\ Kafka!NeverBack
  <1>1. brokerType = "kafka" /\ brokerType' = brokerType /\ out' = out /\ Kafka!Next
    BY DEF KafkaStep, With, rabbitVars
  <1>2. KafkaInv
    BY <1>1 DEF BrokerInv
  <1>3. KafkaInv' /\ Kafka!NeverBack
    BY <1>1, <1>2, KafkaKeeps
  <1>4. Rabbit!SettlesOwn
    BY <1>1 DEF Rabbit!SettlesOwn
  <1>5. QED
    BY <1>1, <1>3, <1>4 DEF BrokerInv

LEMMA IdleKeeps == ASSUME BrokerInv, UNCHANGED vars PROVE BrokerInv'
  <1>1. /\ brokerType' = brokerType /\ dead' = dead /\ running' = running /\ settled' = settled
        /\ fails' = fails /\ losses' = losses /\ queue' = queue /\ out' = out /\ conns' = conns
        /\ chans' = chans /\ listening' = listening /\ tags' = tags /\ channel' = channel
        /\ gen' = gen /\ active' = active /\ dlqKnown' = dlqKnown /\ crashes' = crashes
        /\ log' = log /\ committed' = committed /\ position' = position /\ session' = session
        /\ skipped' = skipped
    BY DEF vars, rabbitVars, kafkaVars
  <1>2. /\ Rabbit!TypeOK' <=> Rabbit!TypeOK
        /\ TagsInv' <=> TagsInv
        /\ RabbitFailures' <=> RabbitFailures
        /\ DeadOnlyAfterLimit' <=> DeadOnlyAfterLimit
        /\ Dormant' <=> Dormant
    BY <1>1 DEF Rabbit!TypeOK, TagsInv, RabbitFailures, DeadOnlyAfterLimit, Dormant
  <1>3. CalmInv' <=> CalmInv
    BY <1>1 DEF CalmInv, Rabbit!HeldByBroker
  <1>4. /\ KafkaTypes' <=> KafkaTypes
        /\ PlacesInv' <=> PlacesInv
        /\ KafkaFailures' <=> KafkaFailures
    BY <1>1 DEF KafkaTypes, PlacesInv, KafkaFailures, Live, Uncommitted
  <1>5. SafeInv' <=> SafeInv
    BY <1>1 DEF SafeInv, Safe, Kafka!Published, Kafka!Finished, Unread, BeingHandled, Live
  <1>6. QED
    BY <1>1, <1>2, <1>3, <1>4, <1>5, KafkaTypesAre DEF BrokerInv, RabbitInv, KafkaInv

LEMMA BrokerStep ==
    BrokerInv /\ [Next]_vars => BrokerInv' /\ [Rabbit!SettlesOwn /\ Kafka!NeverBack]_vars
  <1> SUFFICES ASSUME BrokerInv, [Next]_vars
               PROVE  BrokerInv' /\ [Rabbit!SettlesOwn /\ Kafka!NeverBack]_vars
    OBVIOUS
  <1>1. CASE RabbitStep
    BY <1>1, SelectedRabbitKeeps
  <1>2. CASE KafkaStep
    BY <1>2, SelectedKafkaKeeps
  <1>3. CASE UNCHANGED vars
    BY <1>3, IdleKeeps
  <1>4. QED
    BY <1>1, <1>2, <1>3 DEF Next

-----------------------------------------------------------------------------
(* What the invariant says.                                                *)

LEMMA RabbitPromises ==
    ASSUME RabbitInv
    PROVE  Rabbit!NothingLostWithoutLosses
  BY DEF RabbitInv, CalmInv, Rabbit!NothingLostWithoutLosses, Rabbit!NothingLost

LEMMA KafkaPromises ==
    ASSUME KafkaInv
    PROVE  Kafka!NothingLost
  <1>1. KafkaTypes
    BY KafkaTypesAre DEF KafkaInv
  <1>2. ASSUME NEW b, Unread(b) PROVE Kafka!ToBeRead(b)
    <2>1. PICK p \in Partitions : \E i \in DOMAIN log[p] : i > position[p] /\ log[p][i].body = b
      BY <1>2 DEF Unread
    <2>2. PICK i \in DOMAIN log[p] : i > position[p] /\ log[p][i].body = b
      BY <2>1
    <2>3. i \in Nat /\ position[p] \in Nat
      BY <1>1 DEF KafkaTypes
    <2>4. committed[p] # NoOffset => committed[p] \in Nat /\ committed[p] <= position[p]
      BY <1>1 DEF KafkaTypes, KafkaInv, PlacesInv
    <2>5. IF committed[p] = NoOffset THEN i > position[p] ELSE i > committed[p]
      BY <2>2, <2>3, <2>4
    <2>6. QED
      BY <2>2, <2>5 DEF Kafka!ToBeRead
  <1>3. ASSUME NEW b, BeingHandled(b) PROVE \E h \in running : h.msg.body = b
    BY <1>3 DEF BeingHandled
  <1>4. QED
    BY <1>2, <1>3 DEF KafkaInv, SafeInv, Safe, Kafka!NothingLost

LEMMA BrokerPromises == BrokerInv => NoneLostNoneEarly
  <1> SUFFICES ASSUME BrokerInv PROVE NoneLostNoneEarly
    OBVIOUS
  <1>1. CASE brokerType = "rabbitmq"
    <2>1. RabbitInv
      BY <1>1 DEF BrokerInv
    <2>2. QED
      BY <1>1, <2>1, RabbitPromises DEF RabbitInv, NoneLostNoneEarly, TypeOK, AtLeastOnce
  <1>2. CASE brokerType = "kafka"
    <2>1. KafkaInv
      BY <1>2 DEF BrokerInv
    <2>2. QED
      BY <1>2, <2>1, KafkaPromises DEF KafkaInv, NoneLostNoneEarly, TypeOK, AtLeastOnce
  <1>3. QED
    BY <1>1, <1>2 DEF BrokerInv

\* At-least-once with either broker, however many handlers, channels, sessions,
\* crashes and rebalances interleave: a message is settled, dead-lettered, held by
\* the broker or in a handler's hands, unless a RabbitMQ channel was lost or Kafka's
\* group left it behind; and a message is dead-lettered only after DeliveryLimit
\* failures of its own.
THEOREM NothingLostNothingEarly == Spec => []NoneLostNoneEarly
  <1>1. BrokerInv /\ [Next]_vars => BrokerInv'
    BY BrokerStep
  <1>2. QED
    BY InitBroker, <1>1, BrokerPromises, PTL DEF Spec

\* A settlement settles its own delivery: as long as no RabbitMQ channel is lost a
\* delivery leaves the books only with its own handler, and no Kafka handler, not
\* even of an older session, takes the group back over committed offsets.
THEOREM SettlementsStayOwn == Spec => SettlesOwnDelivery
  <1>1. BrokerInv /\ [Next]_vars => BrokerInv'
    BY BrokerStep
  <1>2. BrokerInv /\ [Next]_vars => [Rabbit!SettlesOwn /\ Kafka!NeverBack]_vars
    BY BrokerStep
  <1>3. QED
    BY InitBroker, <1>1, <1>2, PTL DEF Spec, SettlesOwnDelivery

-----------------------------------------------------------------------------
(* EventIngestion: what the event API accepted is kept.                    *)

\* A connection that is down cost a fault, and so did each death: the acks that
\* end Node follow the loss of a connection.
DeathsAreFaults == deaths + (IF connected THEN 0 ELSE 1) <= faults

\* The handler of an event that is saved and not acknowledged left a row; only
\* list and broker hand events to handlers; a RabbitMQ handler's event is still
\* the broker's, or its loss is known.
EventKept(e) ==
    /\ held[e] = "saved" => stored[e] > 0
    /\ held[e] # "no" => queueMode \in {"redis", "rabbitmq"}
    /\ queueMode = "rabbitmq" /\ held[e] = "saving" =>
        inQueue[e] # "none" \/ stored[e] > 0 \/ e \in lost
    /\ request[e] = "new" \/ stored[e] > 0 \/ OnItsWay(e) \/ e \in lost

AnyStored == \E e \in Events : stored[e] > 0

FoundMember(s) == eval[s].pc = "done" /\ eval[s].should

\* As long as nothing failed and no two evaluations overlapped: one evaluation is
\* in progress at most, none finds a member without a stored event, the one in
\* progress agrees with every earlier one that found a member, and what it wrote
\* is what is assigned.
EvaluationsInTurn ==
    faults = 0 /\ ~overlapped =>
        \A s \in Slots :
            /\ eval[s].should => AnyStored
            /\ eval[s].pc = "confirm" => assigned = eval[s].should
            /\ FoundMember(s) => assigned
            /\ s \in InProgress =>
                \A t \in Slots : /\ t \in InProgress => t = s
                                 /\ FoundMember(t) => eval[s].should

IngestInv ==
    /\ IngestTypeOK
    /\ DeathsAreFaults
    /\ \A e \in Events : EventKept(e)
    /\ EvaluationsInTurn

Evaluations == [pc : Phases, should : BOOLEAN]

QueuePlaces == {"none", "waiting", "unacked", "read", "committed"}

LEMMA ScheduledType ==
    ASSUME IngestTypeOK, NEW s \in Slots
    PROVE  Scheduled(s) \in [Slots -> Evaluations]
  <1>1. [NoEvaluation EXCEPT !.pc = "timer"] \in Evaluations
    BY DEF NoEvaluation, Evaluations, Phases
  <1>2. QED
    BY <1>1 DEF IngestTypeOK, Scheduled, Evaluations

LEMMA TakenBackType ==
    ASSUME IngestTypeOK, NEW taken, TakenBack(taken)
    PROVE  inQueue' \in [Events -> QueuePlaces] /\ returns' \in [Events -> 0 .. RequeueLimit]
  BY IngestionAssumption DEF IngestTypeOK, TakenBack, QueuePlaces

\* What TypeOK says of everything but the counters of faults and deaths.
Shapes ==
    /\ stored \in [Events -> Nat]
    /\ eval \in [Slots -> Evaluations]
    /\ assigned \in BOOLEAN
    /\ count \in Nat
    /\ overlapped \in BOOLEAN
    /\ mode \in Modes
    /\ request \in [Events -> {"new", "sending", "answered"}]
    /\ inQueue \in [Events -> QueuePlaces]
    /\ returns \in [Events -> 0 .. RequeueLimit]
    /\ held \in [Events -> {"no", "saving", "saved"}]
    /\ connected \in BOOLEAN
    /\ lost \subseteq Events

LEMMA TypeParts ==
    IngestTypeOK <=> Shapes /\ deaths \in 0 .. MaxFaults[mode] + 1 /\ faults \in 0 .. MaxFaults[mode]
  BY DEF IngestTypeOK, Shapes, Evaluations, QueuePlaces

LEMMA DiesShapes ==
    ASSUME IngestTypeOK, NEW worker \in BOOLEAN, NEW api \in BOOLEAN, Dies(worker, api)
    PROVE  Shapes'
  <1>1. inQueue' \in [Events -> QueuePlaces] /\ returns' \in [Events -> 0 .. RequeueLimit]
    <2>1. CASE worker /\ queueMode # "kafka"
      BY <2>1, TakenBackType DEF Dies
    <2>2. CASE ~(worker /\ queueMode # "kafka")
      BY <2>2 DEF Dies, IngestTypeOK, QueuePlaces
    <2>3. QED
      BY <2>1, <2>2
  <1>2. eval' \in [Slots -> Evaluations]
    <2>1. NoEvaluation \in Evaluations
      BY DEF NoEvaluation, Evaluations, Phases
    <2>2. Forgotten(Slots) \in [Slots -> Evaluations]
      BY <2>1 DEF IngestTypeOK, Forgotten, Evaluations
    <2>3. QED
      BY <2>2 DEF Dies, IngestTypeOK, Evaluations
  <1>3. lost' \subseteq Events
    BY DEF Dies, IngestTypeOK, InHands, DroppedOf, Unacked
  <1>4. held' \in [Events -> {"no", "saving", "saved"}]
    BY DEF Dies, IngestTypeOK
  <1>5. request' \in [Events -> {"new", "sending", "answered"}]
    BY DEF Dies, IngestTypeOK
  <1>6. QED
    BY <1>1, <1>2, <1>3, <1>4, <1>5 DEF Dies, IngestTypeOK, Shapes

LEMMA AfterSendShapes ==
    ASSUME IngestTypeOK, NEW e \in Events, AfterSend(e),
           stored' \in [Events -> Nat], inQueue' \in [Events -> QueuePlaces], lost' \subseteq Events
    PROVE  Shapes'
  <1>1. eval' \in [Slots -> Evaluations]
    <2>1. <<e, "producer">> \in Slots
      BY DEF Slots, Callers
    <2>2. QED
      BY <2>1, ScheduledType DEF AfterSend, IngestTypeOK, Evaluations
  <1>2. QED
    BY <1>1 DEF AfterSend, IngestTypeOK, Shapes

LEMMA ProduceShapes ==
    ASSUME IngestTypeOK, NEW e \in Events,
           Send(e) \/ SendRefused(e) \/ SendFails(e) \/ BufferFull(e)
    PROVE  Shapes'
  <1>1. AfterSend(e)
    BY DEF Send, SendRefused, SendFails, BufferFull
  <1>2. stored' \in [Events -> Nat]
    BY DEF IngestTypeOK, Send, SendRefused, SendFails, BufferFull, StoredOnce
  <1>3. inQueue' \in [Events -> QueuePlaces]
    BY DEF IngestTypeOK, Send, SendRefused, SendFails, BufferFull, Enqueued, QueuePlaces
  <1>4. lost' \subseteq Events
    BY DEF IngestTypeOK, Send, SendRefused, SendFails, BufferFull
  <1>5. QED
    BY <1>1, <1>2, <1>3, <1>4, AfterSendShapes

LEMMA ConsumerShapes ==
    ASSUME IngestTypeOK, NEW e \in Events,
           \/ Take(e) \/ Save(e) \/ Ack(e) \/ EngineStores(e) \/ Consume(e) \/ AutoCommit(e)
           \/ SaveFails(e) \/ SaveFailsForNow(e)
    PROVE  Shapes'
  <1>1. UNCHANGED <<assigned, count, overlapped, mode, request, deaths>>
    BY DEF Take, Save, Ack, EngineStores, Consume, AutoCommit, SaveFails, SaveFailsForNow,
           Unchanged_
  <1>2. stored' \in [Events -> Nat]
    BY DEF IngestTypeOK, Take, Save, Ack, EngineStores, Consume, AutoCommit, SaveFails,
           SaveFailsForNow, StoredOnce
  <1>3. inQueue' \in [Events -> QueuePlaces] /\ returns' \in [Events -> 0 .. RequeueLimit]
    <2>1. CASE SaveFailsForNow(e)
      BY <2>1, TakenBackType DEF SaveFailsForNow
    <2>2. CASE ~SaveFailsForNow(e)
      BY <2>2 DEF IngestTypeOK, Take, Save, Ack, EngineStores, Consume, AutoCommit, SaveFails,
             QueuePlaces
    <2>3. QED
      BY <2>1, <2>2
  <1>4. eval' \in [Slots -> Evaluations]
    <2>1. <<e, "consumer">> \in Slots
      BY DEF Slots, Callers
    <2>2. CASE Consume(e)
      BY <2>1, <2>2, ScheduledType DEF Consume
    <2>3. CASE ~Consume(e)
      BY <2>3 DEF IngestTypeOK, Take, Save, Ack, EngineStores, AutoCommit, SaveFails,
             SaveFailsForNow, Evaluations
    <2>4. QED
      BY <2>2, <2>3
  <1>5. held' \in [Events -> {"no", "saving", "saved"}]
    BY DEF IngestTypeOK, Take, Save, Ack, EngineStores, Consume, AutoCommit, SaveFails,
           SaveFailsForNow
  <1>6. lost' \subseteq Events /\ connected' \in BOOLEAN
    BY DEF IngestTypeOK, Take, Save, Ack, EngineStores, Consume, AutoCommit, SaveFails,
           SaveFailsForNow, DroppedOf
  <1>7. QED
    BY <1>1, <1>2, <1>3, <1>4, <1>5, <1>6 DEF IngestTypeOK, Shapes

LEMMA EvaluationShapes ==
    ASSUME IngestTypeOK, NEW s \in Slots, UNCHANGED <<mode, request, inQueue, returns, held, connected, lost>>,
           Evaluate(s) \/ WriteAssignment(s) \/ Confirm(s) \/ Drop(s) \/ Misjudge(s)
    PROVE  Shapes'
  <1>1. eval' \in [Slots -> Evaluations]
    <2>1. PICK p \in Phases, b \in BOOLEAN : eval' = [eval EXCEPT ![s] = [pc |-> p, should |-> b]]
      <3>1. eval[s] \in Evaluations
        BY DEF IngestTypeOK, Evaluations
      <3>2. ASSUME NEW p \in Phases
            PROVE  [eval[s] EXCEPT !.pc = p] = [pc |-> p, should |-> eval[s].should]
        BY <3>1 DEF Evaluations
      <3>3. Meets(s) \in BOOLEAN /\ eval[s].should \in BOOLEAN
        BY <3>1 DEF Meets, Evaluations
      <3>4. {"write", "confirm", "done", "dropped"} \subseteq Phases
        BY DEF Phases
      <3>5. CASE Evaluate(s)
        BY <3>5, <3>3, <3>4 DEF Evaluate
      <3>6. CASE WriteAssignment(s)
        BY <3>6, <3>2, <3>3, <3>4 DEF WriteAssignment
      <3>7. CASE Confirm(s)
        BY <3>7, <3>2, <3>3, <3>4 DEF Confirm
      <3>8. CASE Drop(s)
        BY <3>8, <3>2, <3>3, <3>4 DEF Drop
      <3>9. CASE Misjudge(s)
        <4>1. CASE eval' = [eval EXCEPT ![s] = [pc |-> "write", should |-> FALSE]]
          BY <4>1, <3>4
        <4>2. CASE eval' = [eval EXCEPT ![s].pc = "done"]
          BY <4>2, <3>2, <3>3, <3>4
        <4>3. QED
          BY <4>1, <4>2, <3>9 DEF Misjudge
      <3>10. QED
        BY <3>5, <3>6, <3>7, <3>8, <3>9
    <2>2. QED
      BY <2>1 DEF IngestTypeOK, Evaluations
  <1>2. stored' = stored /\ assigned' \in BOOLEAN
    BY DEF IngestTypeOK, Evaluate, WriteAssignment, Confirm, Drop, Misjudge
  <1>3. count' \in Nat
    BY DEF IngestTypeOK, Evaluate, WriteAssignment, Confirm, Drop, Misjudge, Gain
  <1>4. overlapped' \in BOOLEAN
    BY DEF IngestTypeOK, Evaluate, WriteAssignment, Confirm, Drop, Misjudge, Overlapping
  <1>5. QED
    BY <1>1, <1>2, <1>3, <1>4 DEF IngestTypeOK, Shapes, QueuePlaces

\* No step makes more deaths than faults, and each fault is counted.
LEMMA DeathsStep ==
    ASSUME IngestTypeOK, DeathsAreFaults, [IngestNext]_ingestionVars
    PROVE  /\ DeathsAreFaults' /\ mode' = mode
           /\ faults' \in 0 .. MaxFaults[mode] /\ deaths' \in 0 .. MaxFaults[mode] + 1
  <1> DEFINE Goal == /\ DeathsAreFaults' /\ mode' = mode
                     /\ faults' \in 0 .. MaxFaults[mode] /\ deaths' \in Nat /\ deaths' <= faults'
  <1>m. MaxFaults[mode] \in Nat /\ faults \in 0 .. MaxFaults[mode] /\ deaths \in Nat /\ connected \in BOOLEAN
    BY IngestionAssumption DEF IngestTypeOK
  <1> SUFFICES Goal
    BY <1>m
  <1>1. CASE UNCHANGED <<mode, connected, deaths, faults>>
    BY <1>1, <1>m DEF IngestTypeOK, DeathsAreFaults
  <1>2. CASE Fault /\ UNCHANGED <<mode, connected, deaths>>
    BY <1>2, <1>m DEF IngestTypeOK, DeathsAreFaults, Fault
  <1>3. CASE LoseConnection
    BY <1>3, <1>m DEF IngestTypeOK, DeathsAreFaults, Fault, LoseConnection, Unchanged_
  <1>4. CASE Death
    <2>1. deaths' = deaths + 1 /\ connected' = TRUE /\ mode' = mode
      BY <1>4 DEF Death, Dies
    <2>2. QED
      BY <1>4, <2>1, <1>m DEF Death, DeathsAreFaults, Fault
  <1>5. ASSUME NEW e \in Events, AckThrows(e)  PROVE Goal
    BY <1>5, <1>m DEF IngestTypeOK, DeathsAreFaults, AckThrows, Dies
  <1>6. ASSUME NEW e \in Events, Answer(e) \/ Send(e) \/ SendRefused(e)  PROVE Goal
    BY <1>6, <1>1 DEF Answer, Send, SendRefused, AfterSend, DeathsAreFaults, IngestTypeOK
  <1>7. ASSUME NEW e \in Events, Take(e) \/ Save(e) \/ Ack(e) \/ EngineStores(e) \/ Consume(e) \/ AutoCommit(e)
        PROVE Goal
    <2>1. UNCHANGED <<mode, connected, deaths, faults>>
      BY <1>7 DEF Take, Save, Ack, EngineStores, Consume, AutoCommit, Unchanged_
    <2>2. QED
      BY <2>1, <1>1, <1>m DEF DeathsAreFaults, IngestTypeOK
  <1>8. ASSUME NEW e \in Events, SendFails(e) \/ BufferFull(e) \/ SaveFails(e) \/ SaveFailsForNow(e)
        PROVE Goal
    <2>1. Fault /\ UNCHANGED <<mode, connected, deaths>>
      BY <1>8 DEF SendFails, BufferFull, SaveFails, SaveFailsForNow, AfterSend, Unchanged_
    <2>2. QED
      BY <2>1, <1>m DEF IngestTypeOK, DeathsAreFaults, Fault
  <1>9. CASE Evaluating
    BY <1>9, <1>1, <1>m DEF Evaluating, ingestVars, DeathsAreFaults, IngestTypeOK
  <1>10. CASE EvaluationFails
    BY <1>10, <1>2, <1>m DEF EvaluationFails, DeathsAreFaults, IngestTypeOK, Fault
  <1>11. CASE UNCHANGED ingestionVars
    BY <1>11, <1>1, <1>m DEF ingestionVars, ingestVars, DeathsAreFaults, IngestTypeOK
  <1>12. QED
    BY <1>3, <1>4, <1>5, <1>6, <1>7, <1>8, <1>9, <1>10, <1>11 DEF IngestNext, Produce, Handle, Faults

LEMMA IngestTypeStep ==
    ASSUME IngestTypeOK, DeathsAreFaults, [IngestNext]_ingestionVars
    PROVE  IngestTypeOK' /\ DeathsAreFaults'
  <1> SUFFICES Shapes'
    BY DeathsStep, TypeParts DEF IngestTypeOK, Shapes, Evaluations, QueuePlaces
  <1>1. ASSUME NEW e \in Events, Answer(e)  PROVE Shapes'
    BY <1>1 DEF Answer, atomicVars, IngestTypeOK, Shapes, Evaluations, QueuePlaces
  <1>2. CASE Produce
    BY <1>2, ProduceShapes DEF Produce
  <1>3. ASSUME NEW e \in Events, AckThrows(e)  PROVE Shapes'
    BY <1>3, DiesShapes DEF AckThrows, Single
  <1>4. CASE Handle
    BY <1>4, <1>3, ConsumerShapes DEF Handle
  <1>5. CASE Evaluating
    BY <1>5, EvaluationShapes DEF Evaluating, EvaluationStep, ingestVars
  <1>6. ASSUME NEW e \in Events, SendFails(e) \/ BufferFull(e) \/ SaveFails(e) \/ SaveFailsForNow(e)
        PROVE Shapes'
    BY <1>6, ProduceShapes, ConsumerShapes
  <1>7. CASE LoseConnection
    <2>1. inQueue' \in [Events -> QueuePlaces] /\ returns' \in [Events -> 0 .. RequeueLimit]
      BY <1>7, TakenBackType DEF LoseConnection
    <2>2. lost' \subseteq Events
      BY <1>7 DEF LoseConnection, IngestTypeOK, DroppedOf, Unacked
    <2>3. QED
      BY <1>7, <2>1, <2>2 DEF LoseConnection, Unchanged_, IngestTypeOK, Shapes, Evaluations
  <1>8. CASE Death
    BY <1>8, DiesShapes DEF Death
  <1>9. CASE EvaluationFails
    BY <1>9, EvaluationShapes DEF EvaluationFails
  <1>10. CASE UNCHANGED ingestionVars
    BY <1>10 DEF ingestionVars, atomicVars, ingestVars, IngestTypeOK, Shapes, Evaluations, QueuePlaces
  <1>11. QED
    BY <1>1, <1>2, <1>4, <1>5, <1>6, <1>7, <1>8, <1>9, <1>10 DEF IngestNext, Faults

\* An event a step does nothing to but, perhaps, find lost.
LEMMA EventUntouched ==
    ASSUME NEW e \in Events, EventKept(e), mode' = mode, lost \subseteq lost',
           request'[e] = request[e], stored'[e] = stored[e], inQueue'[e] = inQueue[e],
           held'[e] = held[e]
    PROVE  EventKept(e)'
  BY DEF EventKept, OnItsWay, queueMode

\* An event the producer hands over or loses.
LEMMA ProduceKeeps ==
    ASSUME IngestTypeOK, NEW e \in Events, NEW f \in Events, EventKept(f),
           Send(e) \/ SendRefused(e) \/ SendFails(e) \/ BufferFull(e)
    PROVE  EventKept(f)'
  <1>1. AfterSend(e) /\ mode' = mode /\ held' = held
    BY DEF Send, SendRefused, SendFails, BufferFull, AfterSend
  <1>2. lost \subseteq lost'
    BY DEF Send, SendRefused, SendFails, BufferFull
  <1>3. CASE f = e
    <2>1. stored'[e] > 0 \/ inQueue'[e] # "none" \/ e \in lost'
      BY DEF Send, SendRefused, SendFails, BufferFull, StoredOnce, Enqueued, IngestTypeOK
    <2>2. stored'[e] \in Nat /\ stored'[e] >= stored[e] /\ stored[e] \in Nat
      BY DEF Send, SendRefused, SendFails, BufferFull, StoredOnce, IngestTypeOK
    <2>3. inQueue'[e] = inQueue[e] \/ inQueue'[e] = "waiting"
      BY DEF Send, SendRefused, SendFails, BufferFull, Enqueued, IngestTypeOK
    <2>4. QED
      BY <1>1, <1>2, <1>3, <2>1, <2>2, <2>3 DEF EventKept, OnItsWay, queueMode
  <1>4. CASE f # e
    <2>1. stored'[f] = stored[f] /\ inQueue'[f] = inQueue[f]
      BY <1>4 DEF Send, SendRefused, SendFails, BufferFull, StoredOnce, Enqueued, IngestTypeOK
    <2>2. request'[f] = request[f]
      BY <1>1, <1>4 DEF AfterSend, IngestTypeOK
    <2>3. QED
      BY <1>1, <1>2, <2>1, <2>2, EventUntouched
  <1>5. QED
    BY <1>3, <1>4

\* RabbitMQ takes its deliveries back: one it drops is stored or known as lost.
LEMMA TakenBackKeeps ==
    ASSUME IngestTypeOK, NEW taken, NEW e \in Events, TakenBack(taken), DroppedOf(taken) \subseteq lost'
    PROVE  /\ inQueue[e] # "none" => inQueue'[e] # "none" \/ stored[e] > 0 \/ e \in lost'
           /\ e \in taken => inQueue'[e] # "none" \/ stored[e] > 0 \/ e \in lost'
  <1>1. returns[e] < RequeueLimit \/ returns[e] = RequeueLimit
    <2>1. returns[e] \in 0 .. RequeueLimit
      BY DEF IngestTypeOK
    <2>2. RequeueLimit \in Nat
      BY IngestionAssumption
    <2>3. QED
      BY <2>1, <2>2
  <1>2. stored[e] = 0 \/ stored[e] > 0
    BY DEF IngestTypeOK
  <1>3. CASE e \in taken /\ returns[e] < RequeueLimit
    BY <1>3 DEF TakenBack
  <1>4. CASE e \in taken /\ returns[e] = RequeueLimit
    BY <1>2, <1>4 DEF DroppedOf
  <1>5. CASE e \notin taken
    BY <1>5 DEF TakenBack
  <1>6. QED
    BY <1>1, <1>3, <1>4, <1>5

\* An event a consumer takes, saves, settles or reads.
LEMMA ConsumersKeep ==
    ASSUME IngestTypeOK, NEW e \in Events, NEW f \in Events, EventKept(f),
           \/ Take(e) \/ Save(e) \/ Ack(e) \/ EngineStores(e) \/ Consume(e) \/ AutoCommit(e)
           \/ SaveFails(e) \/ SaveFailsForNow(e)
    PROVE  EventKept(f)'
  <1>1. mode' = mode /\ request' = request /\ lost \subseteq lost'
    BY DEF Take, Save, Ack, EngineStores, Consume, AutoCommit, SaveFails, SaveFailsForNow,
           Unchanged_
  <1>2. CASE f # e
    <2>1. held'[f] = held[f] /\ stored'[f] = stored[f]
      BY <1>2 DEF Take, Save, Ack, EngineStores, Consume, AutoCommit, SaveFails,
             SaveFailsForNow, StoredOnce, IngestTypeOK
    <2>2. inQueue'[f] = inQueue[f]
      BY <1>2 DEF Take, Save, Ack, EngineStores, Consume, AutoCommit, SaveFails,
             SaveFailsForNow, TakenBack, IngestTypeOK
    <2>3. QED
      BY <1>1, <2>1, <2>2, EventUntouched
  <1>3. CASE f = e /\ Take(e)
    <2>1. held'[e] = "saving" /\ stored' = stored
      BY <1>3 DEF Take, IngestTypeOK
    <2>2. queueMode \in {"redis", "rabbitmq"} /\ (queueMode = "rabbitmq" => inQueue'[e] = "unacked")
      BY <1>3 DEF Take, IngestTypeOK
    <2>3. QED
      BY <1>1, <1>3, <2>1, <2>2 DEF EventKept, OnItsWay, queueMode
  <1>4. CASE f = e /\ (Save(e) \/ EngineStores(e))
    <2>1. stored'[e] > 0
      BY <1>4 DEF Save, EngineStores, StoredOnce, IngestTypeOK
    <2>2. held'[e] = held[e] \/ held[e] = "saving"
      BY <1>4 DEF Save, EngineStores
    <2>3. QED
      BY <1>1, <1>4, <2>1, <2>2 DEF EventKept, queueMode
  <1>5. CASE f = e /\ Ack(e)
    <2>1. held[e] = "saved" /\ held'[e] = "no" /\ stored' = stored
      BY <1>5 DEF Ack, IngestTypeOK
    <2>2. QED
      BY <1>1, <1>5, <2>1 DEF EventKept
  <1>6. CASE f = e /\ (Consume(e) \/ AutoCommit(e))
    <2>1. inQueue'[e] # "none" /\ held' = held /\ stored' = stored
      BY <1>6 DEF Consume, AutoCommit, IngestTypeOK
    <2>2. QED
      BY <1>1, <1>6, <2>1 DEF EventKept, OnItsWay, queueMode
  <1>7. CASE f = e /\ SaveFails(e)
    <2>1. held'[e] = "no" /\ stored' = stored /\ (stored[e] = 0 => e \in lost') /\ stored[e] \in Nat
      BY <1>7 DEF SaveFails, IngestTypeOK
    <2>2. QED
      BY <1>1, <1>7, <2>1 DEF EventKept
  <1>8. CASE f = e /\ SaveFailsForNow(e)
    <2>1. held'[e] = "no" /\ stored' = stored /\ stored[e] \in Nat
      BY <1>8 DEF SaveFailsForNow, IngestTypeOK
    <2>2. inQueue'[e] # "none" \/ stored[e] > 0 \/ e \in lost'
      BY <1>8, TakenBackKeeps DEF SaveFailsForNow
    <2>3. QED
      BY <1>1, <1>8, <2>1, <2>2 DEF EventKept, OnItsWay
  <1>9. QED
    BY <1>2, <1>3, <1>4, <1>5, <1>6, <1>7, <1>8

LEMMA DeathKeeps ==
    ASSUME IngestTypeOK, NEW worker \in BOOLEAN, NEW api \in BOOLEAN, Dies(worker, api),
           NEW e \in Events, EventKept(e)
    PROVE  EventKept(e)'
  <1>1. stored' = stored /\ mode' = mode /\ lost \subseteq lost'
    BY DEF Dies
  <1>2. stored[e] \in Nat
    BY DEF IngestTypeOK
  <1>3. request[e] = "new" => request'[e] = "new"
    BY DEF Dies, IngestTypeOK
  <1>4. request[e] = "sending" => request'[e] = "sending" \/ e \in lost'
    BY DEF Dies, IngestTypeOK, InHands
  <1>5. inQueue[e] # "none" => inQueue'[e] # "none" \/ stored[e] > 0 \/ e \in lost'
    <2>1. CASE worker /\ queueMode = "kafka"
      <3>1. inQueue' = [f \in Events |-> IF inQueue[f] = "read" THEN "waiting" ELSE inQueue[f]]
        BY <2>1 DEF Dies
      <3>2. QED
        BY <3>1
    <2>2. CASE worker /\ queueMode # "kafka"
      BY <2>2, TakenBackKeeps DEF Dies
    <2>3. CASE ~worker
      BY <2>3 DEF Dies
    <2>4. QED
      BY <2>1, <2>2, <2>3
  <1>6. CASE worker
    <2>1. held'[e] = "no"
      BY <1>6 DEF Dies
    <2>2. held[e] = "saving" /\ queueMode = "redis" => e \in lost'
      BY <1>6 DEF Dies, InHands
    <2>3. QED
      BY <1>1, <1>2, <1>3, <1>4, <1>5, <2>1, <2>2 DEF EventKept, OnItsWay
  <1>7. CASE ~worker
    <2>1. held' = held /\ inQueue' = inQueue
      BY <1>7 DEF Dies
    <2>2. QED
      BY <1>1, <1>2, <1>3, <1>4, <2>1 DEF EventKept, OnItsWay, queueMode
  <1>8. QED
    BY <1>6, <1>7

LEMMA EventKeptStep ==
    ASSUME IngestTypeOK, [IngestNext]_ingestionVars, NEW f \in Events, EventKept(f)
    PROVE  EventKept(f)'
  <1>1. ASSUME NEW e \in Events, Answer(e)  PROVE EventKept(f)'
    <2>1. UNCHANGED <<mode, stored, inQueue, held, lost>> /\ request'[f] \in {request[f], "sending"}
      BY <1>1 DEF Answer, atomicVars, IngestTypeOK
    <2>2. QED
      BY <2>1 DEF EventKept, OnItsWay, queueMode
  <1>2. CASE Produce
    BY <1>2, ProduceKeeps DEF Produce
  <1>3. ASSUME NEW e \in Events, AckThrows(e)  PROVE EventKept(f)'
    BY <1>3, DeathKeeps DEF AckThrows, Single
  <1>4. CASE Handle
    BY <1>4, <1>3, ConsumersKeep DEF Handle
  <1>5. CASE UNCHANGED <<mode, stored, request, inQueue, held, lost>>
    BY <1>5, EventUntouched
  <1>6. CASE Evaluating
    <2>1. UNCHANGED stored
      BY <1>6 DEF Evaluating, EvaluationStep, Evaluate, WriteAssignment, Confirm
    <2>2. QED
      BY <1>6, <2>1, <1>5 DEF Evaluating, ingestVars
  <1>7. ASSUME NEW e \in Events, SendFails(e) \/ BufferFull(e) \/ SaveFails(e) \/ SaveFailsForNow(e)
        PROVE EventKept(f)'
    BY <1>7, ProduceKeeps, ConsumersKeep
  <1>8. CASE LoseConnection
    <2>1. stored' = stored /\ mode' = mode /\ lost \subseteq lost' /\ held' = held /\ request' = request
      BY <1>8 DEF LoseConnection, Unchanged_
    <2>2. inQueue[f] # "none" => inQueue'[f] # "none" \/ stored[f] > 0 \/ f \in lost'
      BY <1>8, TakenBackKeeps DEF LoseConnection
    <2>3. QED
      BY <2>1, <2>2 DEF EventKept, OnItsWay, queueMode
  <1>9. CASE Death
    BY <1>9, DeathKeeps DEF Death
  <1>10. CASE EvaluationFails
    <2>1. UNCHANGED stored
      BY <1>10 DEF EvaluationFails, Drop, Misjudge
    <2>2. QED
      BY <1>10, <2>1, <1>5 DEF EvaluationFails
  <1>11. CASE UNCHANGED ingestionVars
    BY <1>11, <1>5 DEF ingestionVars, atomicVars, ingestVars
  <1>12. QED
    BY <1>1, <1>2, <1>4, <1>6, <1>7, <1>8, <1>9, <1>10, <1>11 DEF IngestNext, Faults

\* Nothing that matters to the evaluations changed, or one was started over.
LEMMA TurnsKept ==
    ASSUME IngestTypeOK, EvaluationsInTurn, UNCHANGED <<assigned, overlapped>>,
           faults' = 0 => faults = 0, AnyStored => AnyStored',
           eval' = eval \/ \E s \in Slots : eval' = Scheduled(s)
    PROVE  EvaluationsInTurn'
  <1>1. SUFFICES ASSUME faults' = 0, ~overlapped', NEW s \in Slots
                 PROVE  /\ eval'[s].should => AnyStored'
                        /\ eval'[s].pc = "confirm" => assigned = eval'[s].should
                        /\ FoundMember(s)' => assigned
                        /\ (s \in InProgress)' =>
                            \A t \in Slots : /\ (t \in InProgress)' => t = s
                                             /\ FoundMember(t)' => eval'[s].should
    BY DEF EvaluationsInTurn
  <1>2. ASSUME NEW t \in Slots
        PROVE  eval'[t] = eval[t] \/ (eval'[t].pc = "timer" /\ eval'[t].should = FALSE)
    BY DEF Scheduled, NoEvaluation, IngestTypeOK
  <1>3. ASSUME NEW t \in Slots
        PROVE  /\ (t \in InProgress)' => eval'[t] = eval[t] /\ t \in InProgress
               /\ FoundMember(t)' => eval'[t] = eval[t] /\ FoundMember(t)
    BY <1>2 DEF InProgress, FoundMember
  <1>4. QED
    BY <1>1, <1>2, <1>3 DEF EvaluationsInTurn

LEMMA FaultsCount ==
    ASSUME IngestTypeOK, Fault  PROVE faults' # 0
  BY IngestionAssumption DEF IngestTypeOK, Fault

LEMMA TurnsEndWithFault ==
    ASSUME IngestTypeOK, faults' # 0  PROVE EvaluationsInTurn'
  BY DEF EvaluationsInTurn

\* One more row, and rows stay.
LEMMA RowsStay ==
    ASSUME IngestTypeOK, stored' = stored \/ \E e \in Events : StoredOnce(e)
    PROVE  AnyStored => AnyStored'
  BY DEF IngestTypeOK, StoredOnce, AnyStored

\* The evaluation itself.
LEMMA EvaluateInTurn ==
    ASSUME IngestTypeOK, EvaluationsInTurn, NEW s \in Slots, Evaluate(s), faults' = faults
    PROVE  EvaluationsInTurn'
  <1>1. SUFFICES ASSUME faults = 0, ~overlapped', NEW r \in Slots
                 PROVE  /\ eval'[r].should => AnyStored'
                        /\ eval'[r].pc = "confirm" => assigned' = eval'[r].should
                        /\ FoundMember(r)' => assigned'
                        /\ (r \in InProgress)' =>
                            \A t \in Slots : /\ (t \in InProgress)' => t = r
                                             /\ FoundMember(t)' => eval'[r].should
    BY DEF EvaluationsInTurn
  <1>2. ~overlapped /\ InProgress = {} /\ assigned' = assigned /\ stored' = stored
    BY <1>1 DEF Evaluate, Overlapping
  <1>3. eval'[s] = [pc |-> "write", should |-> AnyStored]
        /\ \A t \in Slots \ {s} : eval'[t] = eval[t]
    BY DEF Evaluate, Meets, AnyStored, IngestTypeOK
  <1>4. \A t \in Slots : eval[t].pc \notin {"write", "confirm"}
    BY <1>2 DEF InProgress
  <1>5. (r \in InProgress)' => r = s
    BY <1>3, <1>4 DEF InProgress
  <1>6. AnyStored' = AnyStored
    BY <1>2 DEF AnyStored
  <1>7. ASSUME NEW t \in Slots, FoundMember(t)'  PROVE FoundMember(t) /\ AnyStored
    BY <1>1, <1>2, <1>3, <1>7 DEF FoundMember, EvaluationsInTurn
  <1>8. ASSUME NEW t \in Slots, (t \in InProgress)'  PROVE t = s
    BY <1>3, <1>4, <1>8 DEF InProgress
  <1>9. QED
    BY <1>1, <1>2, <1>3, <1>4, <1>5, <1>6, <1>7, <1>8 DEF EvaluationsInTurn

LEMMA WriteInTurn ==
    ASSUME IngestTypeOK, EvaluationsInTurn, NEW s \in Slots, WriteAssignment(s), faults' = faults
    PROVE  EvaluationsInTurn'
  <1>1. SUFFICES ASSUME faults = 0, ~overlapped, NEW r \in Slots
                 PROVE  /\ eval'[r].should => AnyStored'
                        /\ eval'[r].pc = "confirm" => assigned' = eval'[r].should
                        /\ FoundMember(r)' => assigned'
                        /\ (r \in InProgress)' =>
                            \A t \in Slots : /\ (t \in InProgress)' => t = r
                                             /\ FoundMember(t)' => eval'[r].should
    BY DEF EvaluationsInTurn, WriteAssignment
  <1>2. eval'[s].pc = "confirm" /\ eval'[s].should = eval[s].should
        /\ \A t \in Slots \ {s} : eval'[t] = eval[t]
    BY DEF WriteAssignment, IngestTypeOK
  <1>3. s \in InProgress /\ assigned' = eval[s].should /\ AnyStored' = AnyStored
    BY DEF WriteAssignment, InProgress, AnyStored
  <1>4. \A t \in Slots : /\ t \in InProgress => t = s
                         /\ FoundMember(t) => eval[s].should
    BY <1>1, <1>3 DEF EvaluationsInTurn
  <1>5. ASSUME NEW t \in Slots, (t \in InProgress)'  PROVE t = s
    BY <1>2, <1>4, <1>5 DEF InProgress
  <1>6. ASSUME NEW t \in Slots, FoundMember(t)'  PROVE eval[s].should
    BY <1>2, <1>4, <1>6 DEF FoundMember
  <1>7. eval'[r].should => AnyStored
    BY <1>1, <1>2 DEF EvaluationsInTurn
  <1>8. eval'[r].pc = "confirm" => r = s
    BY <1>5 DEF InProgress
  <1>9. QED
    BY <1>2, <1>3, <1>5, <1>6, <1>7, <1>8

LEMMA ConfirmInTurn ==
    ASSUME IngestTypeOK, EvaluationsInTurn, NEW s \in Slots, Confirm(s), faults' = faults
    PROVE  EvaluationsInTurn'
  <1>1. SUFFICES ASSUME faults = 0, ~overlapped, NEW r \in Slots
                 PROVE  /\ eval'[r].should => AnyStored'
                        /\ eval'[r].pc = "confirm" => assigned' = eval'[r].should
                        /\ FoundMember(r)' => assigned'
                        /\ (r \in InProgress)' =>
                            \A t \in Slots : /\ (t \in InProgress)' => t = r
                                             /\ FoundMember(t)' => eval'[r].should
    BY DEF EvaluationsInTurn, Confirm
  <1>2. eval'[s].pc = "done" /\ eval'[s].should = eval[s].should
        /\ \A t \in Slots \ {s} : eval'[t] = eval[t]
    BY DEF Confirm, IngestTypeOK
  <1>3. s \in InProgress /\ assigned = eval[s].should /\ assigned' = assigned
        /\ AnyStored' = AnyStored
    BY <1>1 DEF Confirm, InProgress, AnyStored, EvaluationsInTurn
  <1>4. ASSUME NEW t \in Slots, (t \in InProgress)'  PROVE FALSE
    <2>1. t # s /\ t \in InProgress
      BY <1>2, <1>4 DEF InProgress
    <2>2. QED
      BY <1>1, <1>3, <2>1 DEF EvaluationsInTurn
  <1>5. eval'[r].should => AnyStored
    BY <1>1, <1>2 DEF EvaluationsInTurn
  <1>6. eval'[r].pc # "confirm"
    BY <1>4 DEF InProgress
  <1>7. FoundMember(r)' => assigned
    BY <1>1, <1>2, <1>3 DEF FoundMember, EvaluationsInTurn
  <1>8. QED
    BY <1>3, <1>4, <1>5, <1>6, <1>7

LEMMA TurnsStep ==
    ASSUME IngestTypeOK, DeathsAreFaults, EvaluationsInTurn, [IngestNext]_ingestionVars
    PROVE  EvaluationsInTurn'
  <1>1. ASSUME NEW e \in Events, Answer(e)  PROVE EvaluationsInTurn'
    <2>1. UNCHANGED <<assigned, overlapped, faults, stored, eval>>
      BY <1>1 DEF Answer, atomicVars
    <2>2. QED
      BY <2>1, TurnsKept, RowsStay
  <1>2. ASSUME NEW e \in Events, Send(e) \/ SendRefused(e)  PROVE EvaluationsInTurn'
    <2>1. UNCHANGED <<assigned, overlapped, faults>> /\ (stored' = stored \/ StoredOnce(e))
      BY <1>2 DEF Send, SendRefused, AfterSend
    <2>2. eval' = eval \/ eval' = Scheduled(<<e, "producer">>)
      BY <1>2 DEF Send, SendRefused, AfterSend
    <2>3. <<e, "producer">> \in Slots
      BY DEF Slots, Callers
    <2>4. QED
      BY <2>1, <2>2, <2>3, TurnsKept, RowsStay
  <1>3. ASSUME NEW e \in Events, AckThrows(e)  PROVE EvaluationsInTurn'
    <2>1. faults' # 0
      BY <1>3 DEF AckThrows, DeathsAreFaults, IngestTypeOK
    <2>2. QED
      BY <2>1, TurnsEndWithFault
  <1>4. ASSUME NEW e \in Events,
               Take(e) \/ Save(e) \/ Ack(e) \/ EngineStores(e) \/ Consume(e) \/ AutoCommit(e)
        PROVE EvaluationsInTurn'
    <2>1. UNCHANGED <<assigned, overlapped, faults>> /\ (stored' = stored \/ StoredOnce(e))
      BY <1>4 DEF Take, Save, Ack, EngineStores, Consume, AutoCommit, Unchanged_
    <2>2. eval' = eval \/ eval' = Scheduled(<<e, "consumer">>)
      BY <1>4 DEF Take, Save, Ack, EngineStores, Consume, AutoCommit
    <2>3. <<e, "consumer">> \in Slots
      BY DEF Slots, Callers
    <2>4. QED
      BY <2>1, <2>2, <2>3, TurnsKept, RowsStay
  <1>5. CASE Evaluating
    BY <1>5, EvaluateInTurn, WriteInTurn, ConfirmInTurn DEF Evaluating, EvaluationStep, ingestVars
  <1>6. CASE Faults
    <2>1. Fault
      BY <1>6 DEF Faults, SendFails, BufferFull, SaveFails, SaveFailsForNow, LoseConnection,
             Death, EvaluationFails
    <2>2. QED
      BY <2>1, FaultsCount, TurnsEndWithFault
  <1>7. CASE UNCHANGED ingestionVars
    <2>1. UNCHANGED <<assigned, overlapped, faults, stored, eval>>
      BY <1>7 DEF ingestionVars, atomicVars, ingestVars
    <2>2. QED
      BY <2>1, TurnsKept, RowsStay
  <1>8. QED
    BY <1>1, <1>2, <1>3, <1>4, <1>5, <1>6, <1>7 DEF IngestNext, Produce, Handle

LEMMA IngestInitially ==
    ASSUME IngestInit  PROVE IngestInv
  <1>1. mode \in Modes /\ MaxFaults[mode] \in Nat /\ RequeueLimit \in Nat
    BY IngestionAssumption DEF IngestInit
  <1>2. eval = [s \in Slots |-> NoEvaluation] /\ NoEvaluation \in [pc : Phases, should : BOOLEAN]
    BY DEF IngestInit, AtomicInit, NoEvaluation, Phases
  <1>3. IngestTypeOK
    <2>1. stored \in [Events -> Nat] /\ returns \in [Events -> 0 .. RequeueLimit]
      BY <1>1 DEF IngestInit, AtomicInit
    <2>2. eval \in [Slots -> Evaluations]
      BY <1>2 DEF Evaluations
    <2>3. Shapes
      BY <1>1, <2>1, <2>2 DEF IngestInit, AtomicInit, Shapes, QueuePlaces
    <2>4. deaths \in 0 .. MaxFaults[mode] + 1 /\ faults \in 0 .. MaxFaults[mode]
      BY <1>1 DEF IngestInit
    <2>5. QED
      BY <2>3, <2>4, TypeParts
  <1>4. DeathsAreFaults /\ \A e \in Events : EventKept(e)
    BY DEF IngestInit, AtomicInit, DeathsAreFaults, EventKept
  <1>5. EvaluationsInTurn
    BY <1>2 DEF EvaluationsInTurn, NoEvaluation, FoundMember, InProgress
  <1>6. QED
    BY <1>3, <1>4, <1>5 DEF IngestInv

LEMMA IngestInvariant == IngestSpec => []IngestInv
  <1>1. IngestInv /\ [IngestNext]_ingestionVars => IngestInv'
    BY IngestTypeStep, EventKeptStep, TurnsStep DEF IngestInv
  <1>2. QED
    BY <1>1, IngestInitially, PTL DEF IngestSpec

\* Whatever is accepted is kept, in any order of saves, settlements, redeliveries,
\* lost connections and deaths: the event is stored, on its way, or was lost where
\* the code is known to lose events; and the contact an evaluation found in the
\* segment stays there while evaluations take turns and no query fails.
THEOREM AcceptedEventsAreKept == IngestSpec => []AcceptedIsKept
  <1>1. IngestInv => AcceptedIsKept
    BY DEF IngestInv, AcceptedIsKept, NothingElseLost, EventKept, EvaluationSticks,
           EvaluationsInTurn, FoundMember
  <1>2. QED
    BY <1>1, IngestInvariant, PTL

-----------------------------------------------------------------------------
(* The inductive invariant: the journeys an event starts.                  *)

RowStates == {"none", "on", "off"}
RowCopies == UNION {[X -> {"on", "off"}] : X \in SUBSET JourneyIds}
EditPhases == {"free", "look", "fill", "save", "cache", "invalidate", "start"}
EditOps == {"none", "create", "open", "update", "toggle", "remove", "duplicate", "fire", "list"}
DispatchPhases == {"boot", "warm", "idle", "list", "refill", "match", "done"}

Edits == [op : EditOps, ids : SUBSET JourneyIds, pc : EditPhases, copies : RowCopies]

Dispatches ==
    [pc : DispatchPhases, event : TriggerEvents \cup {NoEvent}, list : RowCopies,
     started : SUBSET JourneyIds, moved : SUBSET JourneyIds, failed : BOOLEAN]

TriggerTypes ==
    /\ journeys \in [JourneyIds -> RowStates]
    /\ wired \in [JourneyIds -> Triggers]
    /\ cached \in [JourneyIds -> RowStates]
    /\ listed \in SUBSET JourneyIds
    /\ excused \in SUBSET JourneyIds
    /\ edit \in [Editors -> Edits]
    /\ dispatch \in Dispatches

Holding == dispatch.pc \in {"warm", "refill"}
Touched == UNION {edit[r].ids : r \in Editors}

\* What a request holds: one journey, or all for a listing.
EditShape(e) ==
    /\ e.pc = "free" => e.ids = {}
    /\ e.pc # "free" /\ e.op # "list" => \E j \in JourneyIds : e.ids = {j}
    /\ e.pc \in {"save", "cache", "invalidate"} => e.op # "list"
    /\ e.pc \in {"fill", "save", "cache"} => DOMAIN e.copies \subseteq e.ids
    /\ e.pc \in {"fill", "save", "cache"} /\ e.op # "list" => DOMAIN e.copies = e.ids

\* What a request knows of a journey it holds.
Knows(e, j) ==
    /\ e.pc = "fill" => IF j \in DOMAIN e.copies THEN e.copies[j] = journeys[j]
                                                 ELSE journeys[j] = "none"
    /\ e.pc = "cache" => e.copies[j] = journeys[j]
    /\ e.pc = "invalidate" => journeys[j] = "none"

\* The cache says nothing else than the row, and an index in use lists what is
\* active, once the worker has warmed it.
Settled(j) ==
    /\ cached[j] # "none" => cached[j] = journeys[j]
    /\ dispatch.pc # "boot" /\ listed # {} /\ journeys[j] = "on" =>
        j \in listed \/ (dispatch.pc = "warm" /\ j \in DOMAIN dispatch.list)

\* Which journeys an event starts, of those nobody has worked on since.
IsMeant(j) == journeys[j] = "on" /\ Matches(dispatch.event, wired[j])

Dispatched(j) ==
    /\ dispatch.pc = "refill" => (j \in Active(dispatch.list) <=> journeys[j] = "on")
    /\ dispatch.pc = "match" =>
        /\ j \in DOMAIN dispatch.list => journeys[j] = "on" /\ j \notin dispatch.started
        /\ j \in dispatch.started => IsMeant(j)
        /\ IsMeant(j) => j \in dispatch.started \cup DOMAIN dispatch.list
    /\ dispatch.pc = "done" /\ ~dispatch.failed =>
        (j \in dispatch.started <=> IsMeant(j) /\ IsDispatchable(dispatch.event))

\* A journey whose entry can be trusted is in one pair of hands, and what these
\* write is what they know.
Trusted(j) ==
    /\ \A r, q \in Editors : j \in edit[r].ids /\ j \in edit[q].ids => r = q
    /\ Holding /\ j \in DOMAIN dispatch.list =>
        j \notin Touched /\ dispatch.list[j] = journeys[j]
    /\ \A r \in Editors : j \in edit[r].ids => Knows(edit[r], j)
    /\ (\A r \in Editors : j \in edit[r].ids => edit[r].pc \notin {"cache", "invalidate"}) =>
        Settled(j)
    /\ j \notin dispatch.moved => Dispatched(j)

TriggersInv ==
    /\ TriggerTypes
    /\ \A r \in Editors : EditShape(edit[r])
    /\ dispatch.pc \in {"boot", "warm", "idle", "list", "refill"} => dispatch.started = {}
    /\ dispatch.pc \in {"list", "refill", "match"} => IsDispatchable(dispatch.event)
    /\ dispatch.pc \in {"refill", "match"} => Touched \subseteq dispatch.moved
    /\ \A j \in JourneyIds \ excused : Trusted(j)

-----------------------------------------------------------------------------
LEMMA NoRowCopies == Vacant.copies \in RowCopies /\ DOMAIN Vacant.copies = {}
  <1>1. [j \in {} |-> "none"] \in [{} -> {"on", "off"}]
    OBVIOUS
  <1>2. {} \in SUBSET JourneyIds
    OBVIOUS
  <1>3. [j \in {} |-> "none"] \in RowCopies
    BY <1>1, <1>2 DEF RowCopies
  <1>4. QED
    BY <1>3 DEF Vacant

LEMMA CopiesFacts ==
    ASSUME NEW c \in RowCopies
    PROVE  /\ DOMAIN c \subseteq JourneyIds
           /\ \A j \in DOMAIN c : c[j] \in {"on", "off"}
           /\ Active(c) \subseteq DOMAIN c
  BY DEF RowCopies, Active

LEMMA CopiesMade ==
    ASSUME NEW X \in SUBSET JourneyIds, NEW c \in [X -> {"on", "off"}]
    PROVE  c \in RowCopies
  BY DEF RowCopies

LEMMA RowsAre ==
    ASSUME TriggerTypes, NEW X \in SUBSET Stored
    PROVE  /\ Rows(X) \in RowCopies /\ DOMAIN Rows(X) = X
           /\ \A j \in X : Rows(X)[j] = journeys[j]
  <1>1. X \in SUBSET JourneyIds /\ Rows(X) \in [X -> {"on", "off"}]
    BY DEF Rows, Stored, TriggerTypes, RowStates
  <1>2. QED
    BY <1>1, CopiesMade DEF Rows

LEMMA ActiveAreStored ==
    ASSUME TriggerTypes
    PROVE  /\ Active(journeys) \in SUBSET Stored
           /\ \A j \in JourneyIds : j \in Active(journeys) <=> journeys[j] = "on"
  BY DEF Active, Stored, TriggerTypes

LEMMA TriggersInitially == TriggersInit => TriggersInv
  <1> SUFFICES ASSUME TriggersInit  PROVE TriggersInv
    OBVIOUS
  <1>1. Vacant \in Edits
    BY NoRowCopies DEF Vacant, Edits, EditPhases, EditOps
  <1>2. Booting \in Dispatches
    BY NoRowCopies DEF Booting, Dispatches, DispatchPhases
  <1>3. TriggerTypes
    BY <1>1, <1>2 DEF TriggersInit, TriggerTypes, RowStates
  <1>4. Touched = {} /\ \A r \in Editors : edit[r] = Vacant
    BY DEF TriggersInit, Touched, Vacant
  <1>5. \A r \in Editors : EditShape(edit[r])
    BY <1>4 DEF EditShape, Vacant
  <1>6. dispatch.pc = "boot" /\ dispatch.started = {}
    BY DEF TriggersInit, Booting
  <1>7. \A j \in JourneyIds : cached[j] # "none" => cached[j] = journeys[j]
    BY DEF TriggersInit
  <1>8. \A j \in JourneyIds : Trusted(j)
    BY <1>4, <1>6, <1>7 DEF Trusted, Holding, Knows, Settled, Dispatched, Vacant
  <1>9. QED
    BY <1>3, <1>4, <1>5, <1>6, <1>8 DEF TriggersInv

\* A written entry is what was to be written, or cannot be trusted; the others
\* stay as they were, and those that a first index leaves out are known.
LEMMA EntriesWritten ==
    ASSUME TriggerTypes, NEW c \in RowCopies, SetEach(c)
    PROVE  /\ cached' \in [JourneyIds -> RowStates]
           /\ listed' \in SUBSET JourneyIds
           /\ excused' \in SUBSET JourneyIds /\ excused \subseteq excused'
           /\ \A j \in JourneyIds \ excused' :
                /\ j \in DOMAIN c => cached'[j] = c[j] /\ j \in listed'
                /\ j \notin DOMAIN c => cached'[j] = cached[j] /\ (j \in listed => j \in listed')
                                        /\ (listed = {} => journeys[j] = "none")
  <1>1. DOMAIN c \subseteq JourneyIds /\ \A j \in DOMAIN c : c[j] \in {"on", "off"}
    BY CopiesFacts
  <1>2. Overwritten(c) \in [JourneyIds -> RowStates]
    BY <1>1 DEF Overwritten, TriggerTypes, RowStates
  <1>3. \A j \in JourneyIds : Overwritten(c)[j] = IF j \in DOMAIN c THEN c[j] ELSE cached[j]
    BY DEF Overwritten
  <1>4. LeftOut(DOMAIN c) \subseteq JourneyIds
        /\ (listed = {} => \A j \in JourneyIds \ DOMAIN c :
                journeys[j] # "none" => j \in LeftOut(DOMAIN c))
    BY DEF LeftOut, Stored
  <1>5. CASE /\ cached' = Overwritten(c)
             /\ listed' = listed \cup DOMAIN c
             /\ excused' = excused \cup LeftOut(DOMAIN c)
    BY <1>1, <1>2, <1>3, <1>4, <1>5 DEF TriggerTypes
  <1>6. CASE /\ excused' = excused \cup DOMAIN c \cup LeftOut(DOMAIN c)
             /\ UNCHANGED cached /\ listed' = listed \cup DOMAIN c
    BY <1>1, <1>4, <1>6 DEF TriggerTypes
  <1>7. CASE /\ excused' = excused \cup DOMAIN c \cup LeftOut(DOMAIN c)
             /\ cached' = Overwritten(c) /\ UNCHANGED listed
    BY <1>1, <1>2, <1>3, <1>4, <1>7 DEF TriggerTypes
  <1>8. QED
    BY <1>5, <1>6, <1>7 DEF SetEach

\* A request moves while the rows and the trigger processor stay: what it lets go
\* of is settled, and what it keeps it knows.
LEMMA RequestMoves ==
    ASSUME TriggersInv, NEW r \in Editors, NEW e \in Edits, EditShape(e),
           e.ids \subseteq edit[r].ids, e.pc \notin {"cache", "invalidate"},
           edit' = [edit EXCEPT ![r] = e], UNCHANGED <<journeys, wired, dispatch>>,
           cached' \in [JourneyIds -> RowStates], listed' \in SUBSET JourneyIds,
           excused' \in SUBSET JourneyIds, excused \subseteq excused',
           \A j \in JourneyIds \ excused' :
                /\ j \in e.ids => Knows(e, j)
                /\ j \in edit[r].ids => Settled(j)'
                /\ j \notin edit[r].ids => (Settled(j) => Settled(j)')
    PROVE  TriggersInv'
  <1>1. \A q \in Editors : edit'[q] = IF q = r THEN e ELSE edit[q]
    BY DEF TriggersInv, TriggerTypes
  <1>2. TriggerTypes'
    BY DEF TriggersInv, TriggerTypes
  <1>3. \A q \in Editors : EditShape(edit'[q])
    BY <1>1 DEF TriggersInv
  <1>4. Touched' \subseteq Touched
    BY <1>1 DEF Touched
  <1>5. ASSUME NEW j \in JourneyIds, j \notin excused'  PROVE Trusted(j)'
    <2>1. Trusted(j)
      BY <1>5 DEF TriggersInv
    <2>2. \A q, p \in Editors : j \in edit'[q].ids /\ j \in edit'[p].ids => q = p
      BY <1>1, <2>1 DEF Trusted
    <2>3. Holding /\ j \in DOMAIN dispatch.list => j \notin Touched' /\ dispatch.list[j] = journeys[j]
      BY <1>4, <2>1 DEF Trusted
    <2>4. \A q \in Editors : j \in edit'[q].ids => Knows(edit'[q], j)
      BY <1>1, <1>5, <2>1 DEF Trusted
    <2>5. (\A q \in Editors : j \in edit'[q].ids => edit'[q].pc \notin {"cache", "invalidate"}) =>
            Settled(j)'
      <3>1. CASE j \in edit[r].ids
        BY <1>5, <3>1
      <3>2. CASE j \notin edit[r].ids
        BY <1>1, <1>5, <2>1, <3>2 DEF Trusted
      <3>3. QED
        BY <3>1, <3>2
    <2>6. Dispatched(j)' <=> Dispatched(j)
      BY DEF Dispatched, IsMeant
    <2>7. \A q \in Editors : Knows(edit[q], j)' <=> Knows(edit'[q], j)
      BY DEF Knows
    <2>8. QED
      BY <2>1, <2>2, <2>3, <2>4, <2>5, <2>6, <2>7 DEF Trusted, Holding
  <1>6. \A q \in Editors : EditShape(edit[q])'
    BY <1>3 DEF EditShape
  <1>7. QED
    BY <1>2, <1>4, <1>5, <1>6 DEF TriggersInv

\* The trigger processor moves while rows and requests stay.
LEMMA DispatchMoves ==
    ASSUME TriggersInv, UNCHANGED <<journeys, wired, edit>>,
           cached' \in [JourneyIds -> RowStates], listed' \in SUBSET JourneyIds,
           excused' \in SUBSET JourneyIds, excused \subseteq excused',
           dispatch' \in Dispatches,
           dispatch'.pc \in {"boot", "warm", "idle", "list", "refill"} => dispatch'.started = {},
           dispatch'.pc \in {"list", "refill", "match"} => IsDispatchable(dispatch'.event),
           dispatch'.pc \in {"refill", "match"} => Touched \subseteq dispatch'.moved,
           \A j \in JourneyIds \ excused' :
                /\ dispatch'.pc \in {"warm", "refill"} /\ j \in DOMAIN dispatch'.list =>
                        j \notin Touched /\ dispatch'.list[j] = journeys[j]
                /\ Settled(j) => Settled(j)'
                /\ j \notin dispatch'.moved => Dispatched(j)'
    PROVE  TriggersInv'
  <1>1. TriggerTypes'
    BY DEF TriggersInv, TriggerTypes
  <1>2. Touched' = Touched /\ \A r \in Editors : EditShape(edit[r])'
    BY DEF TriggersInv, EditShape, Touched
  <1>3. ASSUME NEW j \in JourneyIds, j \notin excused'  PROVE Trusted(j)'
    <2>1. Trusted(j)
      BY <1>3 DEF TriggersInv
    <2>2. \A q \in Editors : Knows(edit[q], j)' <=> Knows(edit[q], j)
      BY DEF Knows
    <2>3. QED
      BY <1>2, <1>3, <2>1, <2>2 DEF Trusted, Holding
  <1>4. QED
    BY <1>1, <1>2, <1>3 DEF TriggersInv

LEMMA VacantIs ==
    /\ Vacant \in Edits /\ EditShape(Vacant) /\ Vacant.ids = {} /\ Vacant.pc = "free"
    /\ DOMAIN Vacant.copies = {}
  BY NoRowCopies DEF Vacant, Edits, EditPhases, EditOps, EditShape

LEMMA HeldByRequests ==
    Held = Touched \cup (IF Holding THEN DOMAIN dispatch.list ELSE {})
  BY DEF Held, Touched, Holding

\* A request that holds a journey but is not about to write has it settled.
LEMMA HeldSettled ==
    ASSUME TriggersInv, NEW r \in Editors, NEW j \in JourneyIds \ excused,
           j \in edit[r].ids, edit[r].pc \notin {"cache", "invalidate"}
    PROVE  Settled(j)
  <1>1. Trusted(j)
    BY DEF TriggersInv
  <1>2. \A q \in Editors : j \in edit[q].ids => q = r
    BY <1>1 DEF Trusted
  <1>3. QED
    BY <1>1, <1>2 DEF Trusted

\* It ends without having written anything.
LEMMA EditEndsMoves ==
    ASSUME TriggersInv, NEW r \in Editors, edit[r].pc \notin {"cache", "invalidate"},
           EditEnds(r),
           UNCHANGED <<journeys, wired, dispatch, cached, listed, excused>>
    PROVE  TriggersInv'
  <1>1. \A j \in JourneyIds : Settled(j)' <=> Settled(j)
    BY DEF Settled
  <1>2. \A j \in JourneyIds \ excused : j \in edit[r].ids => Settled(j)
    BY HeldSettled
  <1>3. UNCHANGED <<journeys, wired, dispatch>> /\ excused \subseteq excused'
    OBVIOUS
  <1>4. cached' \in [JourneyIds -> RowStates] /\ listed' \in SUBSET JourneyIds
        /\ excused' \in SUBSET JourneyIds
    BY DEF TriggersInv, TriggerTypes
  <1>5. QED
    BY <1>1, <1>2, <1>3, <1>4, VacantIs, RequestMoves DEF EditEnds

LEMMA BeginMoves ==
    ASSUME TriggersInv, NEW r \in Editors, NEW op \in EditOps, NEW ids \in SUBSET JourneyIds,
           NEW pc \in {"look", "save"}, NEW copies \in RowCopies, EditBegins(r, op, ids, pc, copies),
           op # "list" => \E j \in JourneyIds : ids = {j},
           pc = "save" => op # "list" /\ DOMAIN copies = ids
    PROVE  TriggersInv'
  <1> DEFINE e == [op |-> op, ids |-> ids, pc |-> pc, copies |-> copies]
  <1>1. e \in Edits /\ EditShape(e)
    BY DEF Edits, EditPhases, EditShape
  <1>2. /\ edit' = [edit EXCEPT ![r] = e] /\ edit[r].pc = "free" /\ edit[r].ids = {}
        /\ excused' = excused \cup (ids \cap Held)
        /\ UNCHANGED <<journeys, wired, cached, listed>>
    BY DEF EditBegins, TriggersInv, EditShape
  <1>3. /\ dispatch' \in Dispatches /\ dispatch'.pc = dispatch.pc
        /\ dispatch'.list = dispatch.list /\ dispatch'.started = dispatch.started
        /\ dispatch'.event = dispatch.event /\ dispatch'.failed = dispatch.failed
        /\ dispatch'.moved = IF dispatch.pc \in {"refill", "match"} THEN dispatch.moved \cup ids
                             ELSE dispatch.moved
    BY DEF EditBegins, TriggersInv, TriggerTypes, Dispatches
  <1>4. \A q \in Editors : edit'[q] = IF q = r THEN e ELSE edit[q]
    BY <1>2 DEF TriggersInv, TriggerTypes
  <1>5. TriggerTypes'
    BY <1>1, <1>2, <1>3 DEF TriggersInv, TriggerTypes
  <1>6. \A q \in Editors : EditShape(edit[q])'
    BY <1>1, <1>4 DEF TriggersInv, EditShape
  <1>7. Touched' = Touched \cup ids
    BY <1>2, <1>4 DEF Touched
  <1>8. ASSUME NEW j \in JourneyIds, j \notin excused'  PROVE Trusted(j)'
    <2>1. Trusted(j) /\ j \notin excused
      BY <1>2, <1>8 DEF TriggersInv
    <2>2. j \in ids => j \notin Touched /\ ~(Holding /\ j \in DOMAIN dispatch.list)
      <3>1. Touched \subseteq Held /\ (Holding => DOMAIN dispatch.list \subseteq Held)
        BY HeldByRequests
      <3>2. j \in ids => j \notin Held
        BY <1>2, <1>8
      <3>3. QED
        BY <3>1, <3>2
    <2>3. \A q, p \in Editors : j \in edit'[q].ids /\ j \in edit'[p].ids => q = p
      BY <1>4, <2>1, <2>2 DEF Trusted, Touched
    <2>4. Holding /\ j \in DOMAIN dispatch.list => j \notin Touched' /\ dispatch.list[j] = journeys[j]
      BY <1>7, <2>1, <2>2 DEF Trusted
    <2>5. \A q \in Editors : j \in edit'[q].ids => Knows(edit'[q], j)
      BY <1>4, <2>1 DEF Trusted, Knows
    <2>6. Settled(j)' <=> Settled(j)
      BY <1>2, <1>3 DEF Settled
    <2>7. (\A q \in Editors : j \in edit'[q].ids => edit'[q].pc \notin {"cache", "invalidate"}) =>
            Settled(j)'
      BY <1>2, <1>4, <2>1, <2>6 DEF Trusted
    <2>8. j \notin dispatch'.moved => Dispatched(j)'
      <3>1. IsMeant(j)' <=> IsMeant(j)
        BY <1>2, <1>3 DEF IsMeant
      <3>2. Dispatched(j)' <=> Dispatched(j)
        BY <1>2, <1>3, <3>1 DEF Dispatched
      <3>3. j \notin dispatch'.moved => j \notin dispatch.moved
        BY <1>3
      <3>4. QED
        BY <2>1, <3>2, <3>3 DEF Trusted
    <2>9. \A q \in Editors : Knows(edit[q], j)' <=> Knows(edit'[q], j)
      BY <1>2 DEF Knows
    <2>10. QED
      BY <1>2, <1>3, <2>3, <2>4, <2>5, <2>7, <2>8, <2>9 DEF Trusted, Holding
  <1>9. QED
    BY <1>3, <1>5, <1>6, <1>7, <1>8 DEF TriggersInv

\* Where a look-up or a fill goes on.
LEMMA GoesOnIs ==
    ASSUME TriggersInv, NEW r \in Editors, edit[r].pc \in {"look", "fill"},
           NEW c \in RowCopies, GoesOn(r, c), DOMAIN c \subseteq edit[r].ids,
           edit[r].op # "list" => DOMAIN c = edit[r].ids
    PROVE  \E e \in Edits : /\ edit' = [edit EXCEPT ![r] = e]
                            /\ EditShape(e) /\ e.ids \subseteq edit[r].ids
                            /\ e.pc \in {"free", "save", "start"}
  <1>1. edit[r] \in Edits /\ edit \in [Editors -> Edits] /\ EditShape(edit[r])
    BY DEF TriggersInv, TriggerTypes
  <1>2. CASE EditEnds(r)
    BY <1>2, VacantIs DEF EditEnds
  <1>3. CASE /\ edit[r].op \in {"update", "toggle", "remove", "duplicate"}
             /\ edit' = [edit EXCEPT ![r].pc = "save", ![r].copies = c]
    <2> DEFINE e == [edit[r] EXCEPT !.pc = "save", !.copies = c]
    <2>1. e \in Edits /\ e.pc = "save" /\ e.ids = edit[r].ids /\ e.op = edit[r].op /\ e.copies = c
      BY <1>1 DEF Edits, EditPhases
    <2>2. edit' = [edit EXCEPT ![r] = e]
      BY <1>1, <1>3
    <2>3. EditShape(e)
      BY <1>1, <1>3, <2>1 DEF EditShape
    <2>4. QED
      BY <2>1, <2>2, <2>3
  <1>4. CASE /\ edit[r].op = "fire"
             /\ edit' = [edit EXCEPT ![r].pc = "start", ![r].copies = c]
    <2> DEFINE e == [edit[r] EXCEPT !.pc = "start", !.copies = c]
    <2>1. e \in Edits /\ e.pc = "start" /\ e.ids = edit[r].ids /\ e.op = edit[r].op
      BY <1>1 DEF Edits, EditPhases
    <2>2. edit' = [edit EXCEPT ![r] = e]
      BY <1>1, <1>4
    <2>3. EditShape(e)
      BY <1>1, <1>4, <2>1 DEF EditShape
    <2>4. QED
      BY <2>1, <2>2, <2>3
  <1>5. QED
    BY <1>2, <1>3, <1>4 DEF GoesOn

LEMMA LookUpMoves ==
    ASSUME TriggersInv, NEW r \in Editors, LookUp(r)
    PROVE  TriggersInv'
  <1>1. edit[r] \in Edits /\ edit \in [Editors -> Edits] /\ EditShape(edit[r]) /\ edit[r].pc = "look"
    BY DEF TriggersInv, TriggerTypes, LookUp
  <1> DEFINE ids == edit[r].ids
             hit == IF edit[r].op = "list" THEN AllCached ELSE \A j \in ids : cached[j] # "none"
  <1>2. UNCHANGED <<journeys, wired, dispatch, cached, listed, excused>>
    BY DEF LookUp
  <1>3. cached' \in [JourneyIds -> RowStates] /\ listed' \in SUBSET JourneyIds
        /\ excused' \in SUBSET JourneyIds /\ excused \subseteq excused'
    BY <1>2 DEF TriggersInv, TriggerTypes
  <1>4. \A j \in JourneyIds : Settled(j)' <=> Settled(j)
    BY <1>2 DEF Settled
  <1>5. \A j \in JourneyIds \ excused : j \in ids => Settled(j)
    BY <1>1, HeldSettled
  <1>6. ASSUME NEW e \in Edits, edit' = [edit EXCEPT ![r] = e], EditShape(e), e.ids \subseteq ids,
               e.pc \notin {"cache", "invalidate"}, \A j \in e.ids : Knows(e, j)
        PROVE  TriggersInv'
    BY <1>2, <1>3, <1>4, <1>5, <1>6, RequestMoves
  <1>7. CASE ~hit /\ ids \cap Stored = {}
    BY <1>1, <1>2, <1>7, EditEndsMoves DEF LookUp
  <1>8. CASE ~hit /\ ids \cap Stored # {}
    <2>1. ids \cap Stored \in SUBSET Stored
      OBVIOUS
    <2>2. TriggerTypes
      BY DEF TriggersInv
    <2> DEFINE c == Rows(ids \cap Stored)
               e == [edit[r] EXCEPT !.pc = "fill", !.copies = c]
    <2>3. c \in RowCopies /\ DOMAIN c = ids \cap Stored /\ \A j \in ids \cap Stored : c[j] = journeys[j]
      BY <2>1, <2>2, RowsAre
    <2>4. edit' = [edit EXCEPT ![r].pc = "fill", ![r].copies = c]
      BY <1>8 DEF LookUp
    <2> HIDE DEF c
    <2>5. e \in Edits /\ e.pc = "fill" /\ e.ids = ids /\ e.op = edit[r].op /\ e.copies = c
      BY <1>1, <2>3 DEF Edits, EditPhases
    <2>6. edit' = [edit EXCEPT ![r] = e]
      BY <1>1, <2>4
    <2>7. e.op # "list" => DOMAIN c = ids
      BY <1>1, <1>8, <2>3, <2>5 DEF EditShape
    <2>8. EditShape(e)
      BY <1>1, <2>3, <2>5, <2>7 DEF EditShape
    <2>9. \A j \in e.ids : Knows(e, j)
      BY <1>1, <2>3, <2>5 DEF Knows, Stored, Edits
    <2>10. QED
      BY <1>6, <2>5, <2>6, <2>8, <2>9
  <1>9. CASE hit
    <2> DEFINE c == [j \in ids |-> cached[j]]
    <2>1. GoesOn(r, c)
      BY <1>9 DEF LookUp
    <2>2. CASE edit[r].op = "list"
      <3>1. EditEnds(r)
        BY <2>1, <2>2 DEF GoesOn
      <3>2. QED
        BY <1>1, <1>2, <3>1, EditEndsMoves
    <2>3. CASE edit[r].op # "list"
      <3>1. c \in [ids -> {"on", "off"}] /\ ids \in SUBSET JourneyIds
        BY <1>1, <1>9, <2>3 DEF TriggersInv, TriggerTypes, RowStates, Edits
      <3>2. c \in RowCopies /\ DOMAIN c = ids
        BY <3>1, CopiesMade
      <3> HIDE DEF c
      <3>3. PICK e \in Edits : /\ edit' = [edit EXCEPT ![r] = e]
                            /\ EditShape(e) /\ e.ids \subseteq edit[r].ids
                            /\ e.pc \in {"free", "save", "start"}
        BY <1>1, <2>1, <3>2, GoesOnIs
      <3>4. \A j \in e.ids : Knows(e, j)
        BY <3>3 DEF Knows
      <3>5. QED
        BY <1>6, <3>3, <3>4
    <2>4. QED
      BY <2>2, <2>3
  <1>10. QED
    BY <1>7, <1>8, <1>9

\* What SetEach leaves of a journey it was not to write.
LEMMA OthersSettled ==
    ASSUME TriggerTypes, NEW c \in RowCopies, SetEach(c), UNCHANGED journeys,
           dispatch'.pc = dispatch.pc, dispatch'.list = dispatch.list,
           NEW j \in JourneyIds \ excused', Settled(j)
    PROVE  j \notin DOMAIN c => Settled(j)'
  BY EntriesWritten DEF Settled

\* What it leaves of one that was copied from the row.
LEMMA WrittenSettled ==
    ASSUME TriggerTypes, NEW c \in RowCopies, SetEach(c), UNCHANGED journeys,
           NEW j \in JourneyIds \ excused', j \in DOMAIN c, c[j] = journeys[j]
    PROVE  Settled(j)'
  BY EntriesWritten DEF Settled

LEMMA FillMoves ==
    ASSUME TriggersInv, NEW r \in Editors, Fill(r)
    PROVE  TriggersInv'
  <1> DEFINE c == edit[r].copies
  <1>1. edit[r] \in Edits /\ edit \in [Editors -> Edits] /\ EditShape(edit[r]) /\ edit[r].pc = "fill"
    BY DEF TriggersInv, TriggerTypes, Fill
  <1>2. c \in RowCopies /\ DOMAIN c \subseteq edit[r].ids
        /\ (edit[r].op # "list" => DOMAIN c = edit[r].ids)
    BY <1>1 DEF Edits, EditShape
  <1>3. SetEach(c) /\ GoesOn(r, c) /\ UNCHANGED <<journeys, wired, dispatch>> /\ TriggerTypes
    BY DEF Fill, TriggersInv
  <1> HIDE DEF c
  <1>4. PICK e \in Edits : /\ edit' = [edit EXCEPT ![r] = e]
                           /\ EditShape(e) /\ e.ids \subseteq edit[r].ids
                           /\ e.pc \in {"free", "save", "start"}
    BY <1>1, <1>2, <1>3, GoesOnIs
  <1>5. ASSUME NEW j \in JourneyIds, j \notin excused'
        PROVE  /\ j \in e.ids => Knows(e, j)
               /\ j \in edit[r].ids => Settled(j)'
               /\ j \notin edit[r].ids => (Settled(j) => Settled(j)')
    <2>1. j \notin excused
      BY <1>2, <1>3, <1>5, EntriesWritten
    <2>2. j \in e.ids => Knows(e, j)
      BY <1>4 DEF Knows
    <2>3. Settled(j) /\ j \notin DOMAIN c => Settled(j)'
      BY <1>2, <1>3, <1>5, OthersSettled
    <2>4. CASE j \in DOMAIN c
      <3>1. c[j] = journeys[j]
        BY <1>1, <1>2, <2>1, <2>4 DEF TriggersInv, Trusted, Knows, c
      <3>2. QED
        BY <1>2, <1>3, <1>5, <2>2, <2>4, <3>1, WrittenSettled
    <2>5. CASE j \notin DOMAIN c
      BY <1>1, <2>1, <2>2, <2>3, <2>5, HeldSettled
    <2>6. QED
      BY <2>4, <2>5
  <1>6. /\ cached' \in [JourneyIds -> RowStates] /\ listed' \in SUBSET JourneyIds
        /\ excused' \in SUBSET JourneyIds /\ excused \subseteq excused'
    BY <1>2, <1>3, EntriesWritten
  <1>7. QED
    BY <1>3, <1>4, <1>5, <1>6, RequestMoves

LEMMA CacheMoves ==
    ASSUME TriggersInv, NEW r \in Editors, CacheJourney(r)
    PROVE  TriggersInv'
  <1> DEFINE c == edit[r].copies
  <1>1. edit[r] \in Edits /\ EditShape(edit[r]) /\ edit[r].pc = "cache"
    BY DEF TriggersInv, TriggerTypes, CacheJourney
  <1>2. c \in RowCopies /\ DOMAIN c = edit[r].ids
    BY <1>1 DEF Edits, EditShape
  <1>3. SetEach(c) /\ EditEnds(r) /\ UNCHANGED <<journeys, wired, dispatch>> /\ TriggerTypes
    BY DEF CacheJourney, TriggersInv
  <1> HIDE DEF c
  <1>4. ASSUME NEW j \in JourneyIds, j \notin excused'
        PROVE  /\ j \in edit[r].ids => Settled(j)'
               /\ j \notin edit[r].ids => (Settled(j) => Settled(j)')
    <2>1. j \notin excused
      BY <1>2, <1>3, <1>4, EntriesWritten
    <2>2. ASSUME j \in edit[r].ids  PROVE c[j] = journeys[j]
      BY <1>1, <1>2, <2>1, <2>2 DEF TriggersInv, Trusted, Knows, c
    <2>3. QED
      BY <1>2, <1>3, <1>4, <2>2, WrittenSettled, OthersSettled
  <1>5. /\ cached' \in [JourneyIds -> RowStates] /\ listed' \in SUBSET JourneyIds
        /\ excused' \in SUBSET JourneyIds /\ excused \subseteq excused'
    BY <1>2, <1>3, EntriesWritten
  <1>6. QED
    BY <1>3, <1>4, <1>5, VacantIs, RequestMoves DEF EditEnds

LEMMA InvalidateMoves ==
    ASSUME TriggersInv, NEW r \in Editors, InvalidateJourney(r)
    PROVE  TriggersInv'
  <1> DEFINE ids == edit[r].ids
  <1>1. edit[r] \in Edits /\ edit[r].pc = "invalidate" /\ TriggerTypes
    BY DEF TriggersInv, TriggerTypes, InvalidateJourney
  <1>2. EditEnds(r) /\ UNCHANGED <<journeys, wired, dispatch>> /\ ids \subseteq JourneyIds
    BY <1>1 DEF InvalidateJourney, Edits
  <1>3. /\ cached' \in [JourneyIds -> RowStates] /\ listed' \in SUBSET JourneyIds
        /\ excused' \in SUBSET JourneyIds /\ excused \subseteq excused'
        /\ listed' \subseteq listed
        /\ \A j \in JourneyIds \ excused' :
            /\ j \in ids => cached'[j] = "none"
            /\ j \notin ids => cached'[j] = cached[j] /\ (j \in listed => j \in listed')
    BY <1>1, <1>2 DEF InvalidateJourney, TriggerTypes, RowStates
  <1>4. ASSUME NEW j \in JourneyIds, j \notin excused'
        PROVE  /\ j \in ids => Settled(j)'
               /\ j \notin ids => (Settled(j) => Settled(j)')
    <2>1. j \in ids => journeys[j] = "none"
      BY <1>1, <1>3, <1>4 DEF TriggersInv, Trusted, Knows
    <2>2. QED
      BY <1>2, <1>3, <1>4, <2>1 DEF Settled
  <1>5. QED
    BY <1>2, <1>3, <1>4, VacantIs, RequestMoves DEF EditEnds

\* One row is written by the request that holds it, or one is made that nobody
\* holds; what the request holds then it knows, and what it lets go of is settled.
LEMMA SaveMoves ==
    ASSUME TriggersInv, NEW r \in Editors, NEW e \in Edits, EditShape(e), NEW k \in JourneyIds,
           NEW v \in RowStates, dispatch.pc # "done",
           edit' = [edit EXCEPT ![r] = e], journeys' = [journeys EXCEPT ![k] = v],
           UNCHANGED <<wired, cached, listed, dispatch, excused>>,
           edit[r].pc = "save",
           \/ k \in edit[r].ids /\ e.ids = edit[r].ids /\ e.pc \in {"cache", "invalidate"}
              /\ (\A j \in e.ids : j = k)
              /\ (e.pc = "cache" => e.copies[k] = v) /\ (e.pc = "invalidate" => v = "none")
           \/ k \notin Held /\ journeys[k] = "none" /\ v = "off" /\ e = Vacant
    PROVE  TriggersInv'
  <1>1. /\ \A q \in Editors : edit'[q] = IF q = r THEN e ELSE edit[q]
        /\ \A j \in JourneyIds : journeys'[j] = IF j = k THEN v ELSE journeys[j]
    BY DEF TriggersInv, TriggerTypes
  <1>2. TriggerTypes'
    BY DEF TriggersInv, TriggerTypes
  <1>3. \A q \in Editors : EditShape(edit[q])'
    BY <1>1 DEF TriggersInv, EditShape
  <1>4. e.ids \subseteq edit[r].ids
    BY VacantIs
  <1>5. Touched' \subseteq Touched
    BY <1>1, <1>4 DEF Touched
  <1>6. ASSUME NEW j \in JourneyIds, j \notin excused'  PROVE Trusted(j)'
    <2>1. Trusted(j) /\ j \notin excused
      BY <1>6 DEF TriggersInv
    <2>2. \A q, p \in Editors : j \in edit'[q].ids /\ j \in edit'[p].ids => q = p
      BY <1>1, <1>4, <2>1 DEF Trusted
    <2>3. j = k => ~(Holding /\ j \in DOMAIN dispatch.list)
      <3>1. k \in Touched \/ k \notin Held
        BY DEF Touched
      <3>2. QED
        BY <2>1, <3>1, HeldByRequests DEF Trusted
    <2>4. Holding /\ j \in DOMAIN dispatch.list =>
            j \notin Touched' /\ dispatch.list[j] = journeys'[j]
      BY <1>1, <1>5, <2>1, <2>3 DEF Trusted
    <2>5. ASSUME NEW q \in Editors, j \in edit'[q].ids  PROVE Knows(edit[q], j)'
      <3>1. CASE q = r
        BY <1>1, <2>5, <3>1, VacantIs DEF Knows
      <3>2. CASE q # r
        <4>1. j # k
          BY <1>1, <2>1, <2>5, <3>2, HeldByRequests DEF Trusted, Touched
        <4>2. QED
          BY <1>1, <2>1, <2>5, <3>2, <4>1 DEF Trusted, Knows
      <3>3. QED
        BY <3>1, <3>2
    <2>6. ASSUME \A q \in Editors : j \in edit'[q].ids => edit'[q].pc \notin {"cache", "invalidate"}
          PROVE  Settled(j)'
      <3>1. CASE j = k
        <4>1. k \notin Held /\ journeys[k] = "none" /\ v = "off"
          BY <1>1, <2>6, <3>1
        <4>2. Settled(k)
          BY <2>1, <3>1, <4>1, HeldByRequests DEF Trusted, Touched
        <4>3. QED
          BY <1>1, <3>1, <4>1, <4>2 DEF Settled, TriggersInv, TriggerTypes
      <3>2. CASE j # k
        <4>1. Settled(j)
          <5>1. CASE j \in edit[r].ids
            BY <2>1, <5>1, HeldSettled
          <5>2. CASE j \notin edit[r].ids
            BY <1>1, <2>1, <2>6, <5>2 DEF Trusted
          <5>3. QED
            BY <5>1, <5>2
        <4>2. QED
          BY <1>1, <3>2, <4>1 DEF Settled
      <3>3. QED
        BY <3>1, <3>2
    <2>7. j \notin dispatch.moved => Dispatched(j)'
      <3>1. CASE j # k
        BY <1>1, <2>1, <3>1 DEF Trusted, Dispatched, IsMeant
      <3>2. CASE j = k /\ k \in edit[r].ids
        <4>1. k \in Touched
          BY <3>2 DEF Touched
        <4>2. QED
          BY <3>2, <4>1 DEF TriggersInv, Dispatched
      <3>3. CASE j = k /\ journeys[k] = "none" /\ v = "off"
        BY <1>1, <2>1, <3>3 DEF Trusted, Dispatched, IsMeant
      <3>4. QED
        BY <3>1, <3>2, <3>3
    <2>8. QED
      BY <2>2, <2>4, <2>5, <2>6, <2>7 DEF Trusted, Holding
  <1>7. QED
    BY <1>2, <1>3, <1>5, <1>6 DEF TriggersInv

LEMMA SaveJourneyMoves ==
    ASSUME TriggersInv, dispatch.pc # "done", NEW r \in Editors, SaveJourney(r)
    PROVE  TriggersInv'
  <1> DEFINE j == CHOOSE k \in edit[r].ids : TRUE
             copy == edit[r].copies[j]
             saved == IF edit[r].op = "toggle" THEN Toggled(copy) ELSE copy
  <1>1. edit[r] \in Edits /\ edit \in [Editors -> Edits] /\ EditShape(edit[r])
        /\ edit[r].pc = "save" /\ journeys \in [JourneyIds -> RowStates]
    BY DEF TriggersInv, TriggerTypes, SaveJourney
  <1>2. PICK i \in JourneyIds : edit[r].ids = {i}
    BY <1>1 DEF EditShape
  <1>3. j = i /\ DOMAIN edit[r].copies = {i}
    BY <1>1, <1>2 DEF EditShape
  <1>4. copy \in {"on", "off"} /\ edit[r].copies \in RowCopies
    BY <1>1, <1>3, CopiesFacts DEF Edits
  <1>5. saved \in {"on", "off"}
    BY <1>4 DEF Toggled
  <1>6. UNCHANGED <<wired, cached, listed, dispatch, excused>>
    BY DEF SaveJourney
  <1> HIDE DEF saved, j
  <1>7. CASE /\ journeys' = [journeys EXCEPT ![j] = saved]
             /\ edit' = [edit EXCEPT ![r].pc = "cache", ![r].copies[j] = saved]
             /\ edit[r].op \in {"create", "update", "toggle"}
    <2> DEFINE c == [edit[r].copies EXCEPT ![j] = saved]
               e == [edit[r] EXCEPT !.pc = "cache", !.copies = c]
    <2>1. edit[r].copies \in [{i} -> {"on", "off"}]
      BY <1>3, <1>4 DEF RowCopies
    <2>2. c \in [{i} -> {"on", "off"}] /\ c[i] = saved
      BY <1>3, <1>5, <2>1
    <2>3. c \in RowCopies /\ DOMAIN c = {i}
      <3>1. {i} \in SUBSET JourneyIds
        OBVIOUS
      <3>2. QED
        BY <2>2, <3>1, CopiesMade
    <2>4. edit' = [edit EXCEPT ![r] = e]
      BY <1>1, <1>7
    <2> HIDE DEF c
    <2>5. e \in Edits /\ e.pc = "cache" /\ e.ids = {i} /\ e.op = edit[r].op /\ e.copies = c
      BY <1>1, <1>2, <2>3 DEF Edits, EditPhases
    <2>6. EditShape(e)
      BY <1>7, <2>3, <2>5 DEF EditShape
    <2>7. journeys' = [journeys EXCEPT ![i] = saved] /\ saved \in RowStates /\ i \in edit[r].ids
      BY <1>2, <1>3, <1>5, <1>7 DEF RowStates
    <2> HIDE DEF e
    <2>8. QED
      BY <1>1, <1>2, <1>6, <2>2, <2>4, <2>5, <2>6, <2>7, SaveMoves
  <1>8. CASE /\ journeys' = [journeys EXCEPT ![j] = "none"]
             /\ edit' = [edit EXCEPT ![r].pc = "invalidate"]
             /\ edit[r].op = "remove"
    <2> DEFINE e == [edit[r] EXCEPT !.pc = "invalidate"]
    <2>1. edit' = [edit EXCEPT ![r] = e]
      BY <1>1, <1>8
    <2>2. e \in Edits /\ e.pc = "invalidate" /\ e.ids = {i} /\ e.op = edit[r].op
      BY <1>1, <1>2 DEF Edits, EditPhases
    <2>3. EditShape(e)
      BY <1>8, <2>2 DEF EditShape
    <2>4. journeys' = [journeys EXCEPT ![i] = "none"] /\ "none" \in RowStates /\ i \in edit[r].ids
      BY <1>2, <1>3, <1>8 DEF RowStates
    <2> HIDE DEF e
    <2>5. QED
      BY <1>1, <1>2, <1>6, <2>1, <2>2, <2>3, <2>4, SaveMoves
  <1>9. CASE /\ \E k \in JourneyIds \ (Stored \cup Held) :
                    journeys' = [journeys EXCEPT ![k] = "off"]
             /\ EditEnds(r)
    <2>1. PICK k \in JourneyIds \ (Stored \cup Held) : journeys' = [journeys EXCEPT ![k] = "off"]
      BY <1>9
    <2>2. journeys[k] = "none" /\ "off" \in RowStates
      BY DEF Stored, RowStates
    <2>3. QED
      BY <1>1, <1>6, <1>9, <2>1, <2>2, VacantIs, SaveMoves DEF EditEnds
  <1>10. QED
    BY <1>7, <1>8, <1>9 DEF SaveJourney, saved, j

LEMMA EditStepMoves ==
    ASSUME TriggersInv, dispatch.pc # "done", NEW r \in Editors, EditStep(r)
    PROVE  TriggersInv'
  <1>1. CASE CreateJourney(r)
    <2>1. PICK j \in JourneyIds \ Stored, onOff \in {"on", "off"} :
            EditBegins(r, "create", {j}, "save", [k \in {j} |-> onOff])
      BY <1>1 DEF CreateJourney
    <2>2. [k \in {j} |-> onOff] \in [{j} -> {"on", "off"}] /\ {j} \in SUBSET JourneyIds
      OBVIOUS
    <2>3. [k \in {j} |-> onOff] \in RowCopies /\ DOMAIN [k \in {j} |-> onOff] = {j}
      BY <2>2, CopiesMade
    <2>4. "create" \in EditOps
      BY DEF EditOps
    <2>5. QED
      BY <2>1, <2>2, <2>3, <2>4, BeginMoves
  <1>2. CASE EditJourney(r)
    <2>1. PICK j \in JourneyIds, op \in {"open", "update", "toggle", "remove", "duplicate", "fire"} :
            EditBegins(r, op, {j}, "look", Vacant.copies)
      BY <1>2 DEF EditJourney
    <2>2. op \in EditOps /\ {j} \in SUBSET JourneyIds
      BY DEF EditOps
    <2>3. QED
      BY <2>1, <2>2, NoRowCopies, BeginMoves
  <1>3. CASE ListJourneys(r)
    <2>1. "list" \in EditOps /\ JourneyIds \in SUBSET JourneyIds
      BY DEF EditOps
    <2>2. QED
      BY <1>3, <2>1, NoRowCopies, BeginMoves DEF ListJourneys
  <1>4. CASE NoId(r) \/ StartNamed(r)
    BY <1>4, EditEndsMoves DEF NoId, StartNamed
  <1>5. QED
    BY <1>1, <1>2, <1>3, <1>4, LookUpMoves, FillMoves, SaveJourneyMoves, CacheMoves, InvalidateMoves
       DEF EditStep

LEMMA RedisMoves ==
    ASSUME TriggersInv, RedisLoses
    PROVE  TriggersInv'
  <1>1. UNCHANGED <<journeys, wired, edit, dispatch, excused>> /\ TriggerTypes
    BY DEF RedisLoses, TriggersInv
  <1>2. /\ cached' \in [JourneyIds -> RowStates] /\ listed' \in SUBSET JourneyIds
        /\ \A j \in JourneyIds : cached'[j] \in {cached[j], "none"}
        /\ listed' \in {listed, {}}
    BY <1>1 DEF RedisLoses, TriggerTypes, RowStates
  <1>3. \A j \in JourneyIds : Settled(j) => Settled(j)'
    BY <1>1, <1>2 DEF Settled
  <1>4. \A j \in JourneyIds : Dispatched(j)' <=> Dispatched(j)
    BY <1>1 DEF Dispatched, IsMeant
  <1>5. /\ dispatch' \in Dispatches /\ excused' \in SUBSET JourneyIds /\ excused \subseteq excused'
        /\ dispatch'.pc \in {"boot", "warm", "idle", "list", "refill"} => dispatch'.started = {}
        /\ dispatch'.pc \in {"list", "refill", "match"} => IsDispatchable(dispatch'.event)
        /\ dispatch'.pc \in {"refill", "match"} => Touched \subseteq dispatch'.moved
    BY <1>1 DEF TriggersInv, TriggerTypes
  <1>6. \A j \in JourneyIds \ excused' :
          /\ dispatch'.pc \in {"warm", "refill"} /\ j \in DOMAIN dispatch'.list =>
                  j \notin Touched /\ dispatch'.list[j] = journeys[j]
          /\ j \notin dispatch'.moved => Dispatched(j)'
    BY <1>1, <1>4 DEF TriggersInv, Trusted, Holding
  <1>7. QED
    BY <1>1, <1>2, <1>3, <1>5, <1>6, DispatchMoves

-----------------------------------------------------------------------------
(* The trigger processor.                                                  *)

LEMMA DispatchIs ==
    ASSUME TriggersInv
    PROVE  /\ dispatch \in Dispatches /\ TriggerTypes
           /\ Vacant.copies \in RowCopies /\ DOMAIN Vacant.copies = {} /\ Active(Vacant.copies) = {}
           /\ Booting \in Dispatches /\ Booting.started = {} /\ Booting.moved = {}
           /\ DOMAIN Booting.list = {} /\ Booting.failed = FALSE
  <1>1. Booting \in Dispatches
    BY NoRowCopies DEF Booting, Dispatches, DispatchPhases
  <1>2. QED
    BY <1>1, NoRowCopies DEF TriggersInv, TriggerTypes, Booting, Active

\* The copies the processor holds are as good as the rows when it caches them.
LEMMA ListSettled ==
    ASSUME TriggersInv, Holding, SetEach(dispatch.list), UNCHANGED journeys,
           dispatch'.pc \notin {"boot", "warm"}, NEW j \in JourneyIds \ excused', Settled(j)
    PROVE  Settled(j)'
  <1>1. TriggerTypes /\ dispatch.list \in RowCopies /\ excused \subseteq excused'
    BY EntriesWritten, DispatchIs DEF Dispatches
  <1>2. Trusted(j)
    BY <1>1 DEF TriggersInv
  <1>3. CASE j \in DOMAIN dispatch.list
    <2>1. dispatch.list[j] = journeys[j]
      BY <1>2, <1>3 DEF Trusted
    <2>2. QED
      BY <1>1, <1>3, <2>1, WrittenSettled
  <1>4. CASE j \notin DOMAIN dispatch.list
    BY <1>1, <1>4, EntriesWritten DEF Settled, Holding
  <1>5. QED
    BY <1>3, <1>4

LEMMA WarmMoves ==
    ASSUME TriggersInv, Warm \/ Warmed
    PROVE  TriggersInv'
  <1>1. dispatch \in Dispatches /\ TriggerTypes
    BY DispatchIs
  <1>2. CASE Warm
    <2> DEFINE X == Active(journeys)
    <2>1. X \in SUBSET Stored /\ \A j \in JourneyIds : j \in X <=> journeys[j] = "on"
      BY <1>1, ActiveAreStored
    <2>2. Rows(X) \in RowCopies /\ DOMAIN Rows(X) = X /\ \A j \in X : Rows(X)[j] = journeys[j]
      BY <1>1, <2>1, RowsAre
    <2>3. /\ dispatch' = [dispatch EXCEPT !.pc = "warm", !.list = Rows(X)]
          /\ excused' = excused \cup (X \cap Held) /\ dispatch.pc = "boot"
          /\ UNCHANGED <<journeys, wired, cached, listed, edit>>
      BY <1>2 DEF Warm, ReadsRows
    <2>4. /\ dispatch' \in Dispatches /\ dispatch'.pc = "warm" /\ dispatch'.list = Rows(X)
          /\ dispatch'.started = {} /\ dispatch.pc # "warm"
      BY <1>1, <2>2, <2>3 DEF Dispatches, DispatchPhases, TriggersInv
    <2>5. X \in SUBSET JourneyIds
      BY <2>1 DEF Stored
    <2>6. /\ cached' \in [JourneyIds -> RowStates] /\ listed' \in SUBSET JourneyIds
          /\ excused' \in SUBSET JourneyIds /\ excused \subseteq excused'
      BY <1>1, <2>3, <2>5 DEF TriggerTypes
    <2> HIDE DEF X
    <2>7. ASSUME NEW j \in JourneyIds \ excused'
          PROVE  /\ j \in DOMAIN dispatch'.list => j \notin Touched /\ dispatch'.list[j] = journeys[j]
                 /\ Settled(j) => Settled(j)'
                 /\ Dispatched(j)'
      <3>1. j \in X => j \notin Touched
        BY <2>3, <2>7, HeldByRequests
      <3>2. QED
        BY <2>1, <2>2, <2>3, <2>4, <3>1 DEF Settled, Dispatched
    <2>8. QED
      BY <2>3, <2>4, <2>6, <2>7, DispatchMoves
  <1>3. CASE Warmed
    <2>1. /\ dispatch.pc = "warm" /\ Holding /\ SetEach(dispatch.list)
          /\ dispatch' = [dispatch EXCEPT !.pc = "idle"]
          /\ UNCHANGED <<journeys, wired, edit>>
      BY <1>3 DEF Warmed, Holding
    <2>2. dispatch' \in Dispatches /\ dispatch'.pc = "idle" /\ dispatch'.started = {}
          /\ dispatch.list \in RowCopies
      BY <1>1, <2>1 DEF Dispatches, DispatchPhases, TriggersInv
    <2>3. /\ cached' \in [JourneyIds -> RowStates] /\ listed' \in SUBSET JourneyIds
          /\ excused' \in SUBSET JourneyIds /\ excused \subseteq excused'
      BY <1>1, <2>1, <2>2, EntriesWritten
    <2>4. \A j \in JourneyIds \ excused' : Settled(j) => Settled(j)'
      BY <2>1, <2>2, ListSettled
    <2>5. \A j \in JourneyIds : Dispatched(j)'
      BY <2>2 DEF Dispatched
    <2>6. QED
      BY <2>1, <2>2, <2>3, <2>4, <2>5, DispatchMoves
  <1>4. QED
    BY <1>2, <1>3

\* Steps that leave the cache alone.
LEMMA QuietMoves ==
    ASSUME TriggersInv, UNCHANGED <<journeys, wired, cached, listed, edit>>,
           excused' \in SUBSET JourneyIds, excused \subseteq excused',
           dispatch' \in Dispatches, dispatch.pc \notin {"boot", "warm"},
           dispatch'.pc \in {"list", "refill", "match", "done"},
           dispatch'.pc \in {"list", "refill"} => dispatch'.started = {},
           dispatch'.pc # "done" => IsDispatchable(dispatch'.event),
           dispatch'.pc \in {"refill", "match"} => Touched \subseteq dispatch'.moved,
           dispatch'.pc = "refill" =>
                \A j \in DOMAIN dispatch'.list \ excused' :
                    j \notin Touched /\ dispatch'.list[j] = journeys[j],
           \A j \in JourneyIds \ (excused' \cup dispatch'.moved) : Dispatched(j)'
    PROVE  TriggersInv'
  <1>1. \A j \in JourneyIds : Settled(j) => Settled(j)'
    BY DEF Settled
  <1>2. cached' \in [JourneyIds -> RowStates] /\ listed' \in SUBSET JourneyIds
    BY DEF TriggersInv, TriggerTypes
  <1>3. QED
    BY <1>1, <1>2, DispatchMoves

LEMMA ArrivalMoves ==
    ASSUME TriggersInv, NEW e \in TriggerEvents, EventArrives(e)
    PROVE  TriggersInv'
  <1>1. /\ dispatch' = [Booting EXCEPT !.pc = IF IsDispatchable(e) THEN "list" ELSE "done",
                                       !.event = e]
        /\ dispatch.pc = "idle" /\ UNCHANGED <<journeys, wired, cached, listed, edit, excused>>
    BY DEF EventArrives
  <1>2. /\ dispatch' \in Dispatches /\ dispatch'.started = {} /\ dispatch'.event = e
        /\ dispatch'.pc = IF IsDispatchable(e) THEN "list" ELSE "done"
    BY <1>1, DispatchIs DEF Dispatches, DispatchPhases
  <1>3. \A j \in JourneyIds : Dispatched(j)'
    BY <1>2 DEF Dispatched
  <1>4. excused' \in SUBSET JourneyIds /\ excused \subseteq excused'
    BY <1>1 DEF TriggersInv, TriggerTypes
  <1>5. QED
    BY <1>1, <1>2, <1>3, <1>4, QuietMoves

LEMMA FindActiveMoves ==
    ASSUME TriggersInv, FindActive
    PROVE  TriggersInv'
  <1> DEFINE inRedis == [j \in {k \in listed : cached[k] = "on"} |-> "on"]
  <1>1. dispatch \in Dispatches /\ TriggerTypes /\ dispatch.pc = "list" /\ dispatch.started = {}
        /\ IsDispatchable(dispatch.event)
    BY DispatchIs DEF FindActive, TriggersInv
  <1>2. UNCHANGED <<journeys, wired, cached, listed, edit>>
    BY DEF FindActive
  <1>3. Touched \in SUBSET JourneyIds
    BY DEF Touched, TriggersInv, TriggerTypes, Edits
  <1>4. CASE /\ AllCached
             /\ dispatch' = [dispatch EXCEPT !.pc = "match", !.list = inRedis, !.moved = Touched]
             /\ UNCHANGED excused
    <2> DEFINE X == {k \in listed : cached[k] = "on"}
    <2>1. X \in SUBSET JourneyIds /\ inRedis \in [X -> {"on", "off"}] /\ DOMAIN inRedis = X
      BY <1>1 DEF TriggerTypes
    <2>2. inRedis \in RowCopies
      BY <2>1, CopiesMade
    <2> HIDE DEF inRedis
    <2>3. /\ dispatch' \in Dispatches /\ dispatch'.pc = "match" /\ DOMAIN dispatch'.list = X
          /\ dispatch'.moved = Touched /\ dispatch'.started = {}
          /\ dispatch'.event = dispatch.event
      BY <1>1, <1>3, <1>4, <2>1, <2>2 DEF Dispatches, DispatchPhases
    <2>4. ASSUME NEW j \in JourneyIds \ (excused \cup Touched)
          PROVE  Dispatched(j)'
      <3>1. Settled(j)
        BY <2>4 DEF TriggersInv, Trusted, Touched
      <3>2. j \in X <=> journeys[j] = "on"
        BY <1>1, <1>4, <3>1 DEF Settled, AllCached
      <3>3. QED
        BY <1>2, <2>3, <3>2 DEF Dispatched, IsMeant
    <2>5. QED
      BY <1>1, <1>2, <1>4, <2>3, <2>4, QuietMoves DEF TriggerTypes
  <1>5. ASSUME NEW X \in SUBSET Stored, Active(journeys) \subseteq X,
               dispatch' = [dispatch EXCEPT !.pc = "refill", !.moved = Touched, !.list = Rows(X)],
               excused' = excused \cup Touched
        PROVE  TriggersInv'
    <2>1. Rows(X) \in RowCopies /\ DOMAIN Rows(X) = X /\ \A j \in X : Rows(X)[j] = journeys[j]
      BY <1>1, RowsAre
    <2>2. /\ dispatch' \in Dispatches /\ dispatch'.pc = "refill" /\ dispatch'.list = Rows(X)
          /\ dispatch'.moved = Touched /\ dispatch'.started = {}
          /\ dispatch'.event = dispatch.event
      BY <1>1, <1>3, <1>5, <2>1 DEF Dispatches, DispatchPhases
    <2>3. ASSUME NEW j \in JourneyIds  PROVE j \in Active(Rows(X)) <=> journeys[j] = "on"
      BY <1>1, <1>5, <2>1, ActiveAreStored DEF Active
    <2>4. \A j \in JourneyIds : Dispatched(j)'
      BY <1>2, <2>2, <2>3 DEF Dispatched, Active
    <2>5. excused' \in SUBSET JourneyIds /\ excused \subseteq excused'
      BY <1>1, <1>3, <1>5 DEF TriggerTypes
    <2>6. QED
      BY <1>1, <1>2, <1>5, <2>1, <2>2, <2>4, <2>5, QuietMoves
  <1>6. Active(journeys) \in SUBSET Stored
    BY <1>1, ActiveAreStored
  <1>7. QED
    BY <1>4, <1>5, <1>6 DEF FindActive, Touched

LEMMA RefillMoves ==
    ASSUME TriggersInv, Refill
    PROVE  TriggersInv'
  <1> DEFINE X == Active(dispatch.list)
             c == [j \in X |-> "on"]
  <1>1. dispatch \in Dispatches /\ TriggerTypes /\ dispatch.pc = "refill" /\ dispatch.started = {}
        /\ IsDispatchable(dispatch.event) /\ Touched \subseteq dispatch.moved
        /\ dispatch.list \in RowCopies /\ Holding
    BY DispatchIs DEF Refill, TriggersInv, Dispatches, Holding
  <1>2. UNCHANGED <<journeys, wired, edit>>
        /\ dispatch' = [dispatch EXCEPT !.pc = "match", !.list = c]
    BY DEF Refill
  <1>3. X \in SUBSET JourneyIds
    BY <1>1, CopiesFacts
  <1>4. c \in RowCopies /\ DOMAIN c = X
    BY <1>3, CopiesMade
  <1> HIDE DEF X, c
  <1>5. /\ dispatch' \in Dispatches /\ dispatch'.pc = "match" /\ dispatch'.list = c
        /\ dispatch'.moved = dispatch.moved /\ dispatch'.started = {}
        /\ dispatch'.event = dispatch.event
    BY <1>1, <1>2, <1>4 DEF Dispatches, DispatchPhases
  <1>6. ASSUME NEW j \in JourneyIds \ excused, j \notin dispatch.moved
        PROVE  Dispatched(j)'
    <2>1. j \in X <=> journeys[j] = "on"
      BY <1>1, <1>6 DEF TriggersInv, Trusted, Dispatched, X
    <2>2. QED
      BY <1>2, <1>4, <1>5, <2>1 DEF Dispatched, IsMeant
  <1>7. CASE UNCHANGED <<cached, listed, excused>>
    BY <1>1, <1>2, <1>5, <1>6, <1>7, QuietMoves DEF TriggerTypes
  <1>8. CASE SetEach(dispatch.list)
    <2>1. /\ cached' \in [JourneyIds -> RowStates] /\ listed' \in SUBSET JourneyIds
          /\ excused' \in SUBSET JourneyIds /\ excused \subseteq excused'
      BY <1>1, <1>8, EntriesWritten
    <2>2. \A j \in JourneyIds \ excused' : Settled(j) => Settled(j)'
      BY <1>1, <1>2, <1>5, <1>8, ListSettled
    <2>3. QED
      BY <1>1, <1>2, <1>5, <1>6, <2>1, <2>2, DispatchMoves
  <1>9. QED
    BY <1>7, <1>8 DEF Refill

LEMMA MatchMoves ==
    ASSUME TriggersInv, (\E j \in JourneyIds : MatchNext(j)) \/ Analysed
    PROVE  TriggersInv'
  <1>1. dispatch \in Dispatches /\ TriggerTypes /\ dispatch.pc = "match"
        /\ IsDispatchable(dispatch.event) /\ Touched \subseteq dispatch.moved
        /\ dispatch.list \in RowCopies
    BY DispatchIs DEF MatchNext, Analysed, TriggersInv, Dispatches
  <1>2. UNCHANGED <<journeys, wired, cached, listed, edit, excused>>
    BY DEF MatchNext, Analysed
  <1>3. \A k \in JourneyIds \ excused : k \notin dispatch.moved => Dispatched(k)
    BY DEF TriggersInv, Trusted
  <1>4. ASSUME NEW j \in JourneyIds, j \in DOMAIN dispatch.list,
               dispatch' = [dispatch EXCEPT !.list = [k \in DOMAIN dispatch.list \ {j} |-> dispatch.list[k]],
                        !.started = IF Matches(dispatch.event, wired[j]) THEN @ \cup {j} ELSE @]
        PROVE  TriggersInv'
    <2> DEFINE X == DOMAIN dispatch.list \ {j}
               rest == [k \in X |-> dispatch.list[k]]
    <2>1. X \in SUBSET JourneyIds /\ rest \in [X -> {"on", "off"}] /\ DOMAIN rest = X
      BY <1>1, CopiesFacts
    <2>2. rest \in RowCopies
      BY <2>1, CopiesMade
    <2>3. dispatch' = [dispatch EXCEPT !.list = rest,
                        !.started = IF Matches(dispatch.event, wired[j]) THEN @ \cup {j} ELSE @]
      BY <1>4
    <2> HIDE DEF rest
    <2>4. /\ dispatch' \in Dispatches /\ dispatch'.pc = "match" /\ DOMAIN dispatch'.list = X
          /\ dispatch'.moved = dispatch.moved /\ dispatch'.event = dispatch.event
          /\ dispatch'.started = IF Matches(dispatch.event, wired[j])
                                 THEN dispatch.started \cup {j} ELSE dispatch.started
      BY <1>1, <2>1, <2>2, <2>3 DEF Dispatches
    <2>5. ASSUME NEW k \in JourneyIds \ excused, k \notin dispatch.moved
          PROVE  Dispatched(k)'
      <3>1. Dispatched(k)
        BY <1>3, <2>5
      <3>2. IsMeant(k)' <=> IsMeant(k)
        BY <1>2, <2>4 DEF IsMeant
      <3>3. QED
        BY <1>1, <1>2, <1>4, <2>4, <3>1, <3>2 DEF Dispatched, IsMeant
    <2>6. QED
      BY <1>1, <1>2, <2>4, <2>5, QuietMoves DEF TriggerTypes
  <1>5. ASSUME dispatch' = [dispatch EXCEPT !.pc = "done", !.failed = TRUE]
        PROVE  TriggersInv'
    <2>1. dispatch' \in Dispatches /\ dispatch'.pc = "done" /\ dispatch'.failed
      BY <1>1, <1>5 DEF Dispatches, DispatchPhases
    <2>2. \A k \in JourneyIds : Dispatched(k)'
      BY <2>1 DEF Dispatched
    <2>3. QED
      BY <1>1, <1>2, <2>1, <2>2, QuietMoves DEF TriggerTypes
  <1>6. CASE Analysed
    <2>1. dispatch' = [dispatch EXCEPT !.pc = "done"] /\ DOMAIN dispatch.list = {}
      BY <1>6, NoRowCopies DEF Analysed
    <2>2. /\ dispatch' \in Dispatches /\ dispatch'.pc = "done" /\ dispatch'.moved = dispatch.moved
          /\ dispatch'.started = dispatch.started /\ dispatch'.event = dispatch.event
      BY <1>1, <2>1 DEF Dispatches, DispatchPhases
    <2>3. ASSUME NEW k \in JourneyIds \ excused, k \notin dispatch.moved
          PROVE  Dispatched(k)'
      BY <1>1, <1>2, <1>3, <2>1, <2>2, <2>3 DEF Dispatched, IsMeant
    <2>4. QED
      BY <1>1, <1>2, <2>2, <2>3, QuietMoves DEF TriggerTypes
  <1>7. QED
    BY <1>4, <1>5, <1>6 DEF MatchNext

LEMMA TriggersStep ==
    ASSUME TriggersInv, [TriggerStep]_triggerVars
    PROVE  TriggersInv'
  <1>1. CASE UNCHANGED triggerVars
    BY <1>1 DEF triggerVars, TriggersInv, TriggerTypes, EditShape, Touched, Trusted, Holding,
           Knows, Settled, Dispatched, IsMeant
  <1>2. CASE TriggerStep
    BY <1>2, EditStepMoves, RedisMoves, WarmMoves, ArrivalMoves, FindActiveMoves, RefillMoves,
       MatchMoves DEF TriggerStep, DispatchStep
  <1>3. QED
    BY <1>1, <1>2

LEMMA FieldThere ==
    ASSUME NEW f, NEW k, \A i \in DOMAIN f : f[i] # Undefined
    PROVE  /\ Field(f, k) # Undefined <=> k \in DOMAIN f
           /\ k \in DOMAIN f => Field(f, k) = f[k]
           /\ k \notin DOMAIN f => Field(f, k) = Undefined
  BY DEF Field

LEMMA WhatIsSaid ==
    ASSUME NEW n
    PROVE  /\ Says(n)[1] = "contactcreated" <=> n \in {"contact.created", "contact_created"}
           /\ Says(n)[1] = "contactupdated" <=> n \in {"contact.updated", "contact_updated"}
           /\ Says(n)[1] = "segment" <=> n \in {"segment_entered", "segment_exited"}
           /\ Says(n)[1] = "label" <=> n \in {"label_added", "contact.label.added",
                                              "label_removed", "contact.label.removed"}
           /\ Says(n)[1] = "pipelinestagechanged" <=> n = "pipeline.stage_changed"
           /\ Says(n)[1] = "customattribute" <=>
                n \in {"contact.custom_attribute.changed", "custom_attribute_changed"}
           /\ Says(n)[1] = "webhook" <=> n = "webhook.journey_trigger"
           /\ Says(n)[1] \in {"contactcreated", "contactupdated", "segment", "label",
                              "pipelinestagechanged", "customattribute", "webhook", "event"}
  <1>1. CASE n \in {"contact.created", "contact_created"}
    <2>1. Says(n)[1] = "contactcreated"
      BY <1>1 DEF Says
    <2>2. QED
      BY <1>1, <2>1
  <1>2. CASE n \in {"contact.updated", "contact_updated"}
    <2>1. Says(n)[1] = "contactupdated"
      BY <1>2 DEF Says
    <2>2. QED
      BY <1>2, <2>1
  <1>3. CASE n \in {"segment_entered", "segment_exited"}
    <2>1. Says(n)[1] = "segment"
      BY <1>3 DEF Says
    <2>2. QED
      BY <1>3, <2>1
  <1>4. CASE n \in {"label_added", "contact.label.added", "label_removed", "contact.label.removed"}
    <2>1. Says(n)[1] = "label"
      BY <1>4 DEF Says
    <2>2. QED
      BY <1>4, <2>1
  <1>5. CASE n = "pipeline.stage_changed"
    <2>1. Says(n)[1] = "pipelinestagechanged"
      BY <1>5 DEF Says
    <2>2. QED
      BY <1>5, <2>1
  <1>6. CASE n \in {"contact.custom_attribute.changed", "custom_attribute_changed"}
    <2>1. Says(n)[1] = "customattribute"
      BY <1>6 DEF Says
    <2>2. QED
      BY <1>6, <2>1
  <1>7. CASE n = "webhook.journey_trigger"
    <2>1. Says(n)[1] = "webhook"
      BY <1>7 DEF Says
    <2>2. QED
      BY <1>7, <2>1
  <1>8. CASE n \notin {"contact.created", "contact_created", "contact.updated", "contact_updated",
                       "segment_entered", "segment_exited", "label_added", "contact.label.added",
                       "label_removed", "contact.label.removed", "pipeline.stage_changed",
                       "contact.custom_attribute.changed", "custom_attribute_changed",
                       "webhook.journey_trigger"}
    <2>1. Says(n)[1] = "event"
      BY <1>8 DEF Says
    <2>2. QED
      BY <1>8, <2>1
  <1>9. QED
    BY <1>1, <1>2, <1>3, <1>4, <1>5, <1>6, <1>7, <1>8

\* The action an event about a segment or a label says.
LEMMA ActionSaid ==
    ASSUME NEW n
    PROVE  /\ n = "segment_entered" => Says(n)[2] = "entered"
           /\ n = "segment_exited" => Says(n)[2] = "exited"
           /\ n \in {"label_added", "contact.label.added"} => Says(n)[2] = "applied"
           /\ n \in {"label_removed", "contact.label.removed"} => Says(n)[2] = "removed"
  BY DEF Says

LEMMA EventIsWanted ==
    ASSUME NEW t \in Triggers, NEW e \in TriggerEvents, t.type = "event"
    PROVE  EventMatches(e, t) <=> Wants(e, t)
  <1>1. DOMAIN t.filters \subseteq {"eventName"} /\ \A k \in DOMAIN t.filters : t.filters[k] # Undefined
    BY TriggersAssumption DEF Filters
  <1>2. Needed(t.type) = {"eventName"}
    BY DEF Needed, Filters
  <1>3. QED
    BY <1>1, <1>2, FieldThere DEF EventMatches, Wants

LEMMA ContactIsWanted ==
    ASSUME NEW t \in Triggers, NEW e \in TriggerEvents
    PROVE  /\ t.type = "contactcreated" => (ContactCreatedMatches(e, t) <=> Wants(e, t))
           /\ t.type = "contactupdated" => (ContactUpdatedMatches(e, t) <=> Wants(e, t))
           /\ t.type = "webhook" => (WebhookMatches(e) <=> Wants(e, t))
  <1> SUFFICES ASSUME t.type \in {"contactcreated", "contactupdated", "webhook"}
               PROVE  /\ t.type = "contactcreated" => (ContactCreatedMatches(e, t) <=> Wants(e, t))
                      /\ t.type = "contactupdated" => (ContactUpdatedMatches(e, t) <=> Wants(e, t))
                      /\ t.type = "webhook" => (WebhookMatches(e) <=> Wants(e, t))
    OBVIOUS
  <1>1. Filters(t.type) = {} /\ Needed(t.type) = {}
    BY DEF Needed, Filters
  <1>2. DOMAIN t.filters = {} /\ (t.type = "webhook" => t.op = "any")
    BY <1>1, TriggersAssumption
  <1>3. Wants(e, t) <=> Says(e.name)[1] = t.type
                        /\ (t.op # "any" => ContactFieldMatches(e.value, t.op, t.operand))
    BY <1>1, <1>2 DEF Wants
  <1>4. QED
    BY <1>2, <1>3, WhatIsSaid DEF ContactCreatedMatches, ContactUpdatedMatches, WebhookMatches

LEMMA SegmentIsWanted ==
    ASSUME NEW t \in Triggers, NEW e \in TriggerEvents, t.type = "segment"
    PROVE  SegmentMatches(e, t) <=> Wants(e, t)
  <1>1. /\ DOMAIN t.filters \subseteq {"segmentId"}
        /\ \A k \in DOMAIN t.filters : t.filters[k] # Undefined
        /\ t.op = "any" /\ t.action \in {"", "entered", "exited"}
    BY TriggersAssumption DEF Filters
  <1>2. Needed(t.type) = {"segmentId"}
    BY DEF Needed, Filters
  <1> DEFINE k == "segmentId"
  <1>3. Wants(e, t) <=>
            /\ e.name \in {"segment_entered", "segment_exited"}
            /\ Says(e.name)[2] = IF t.action # "" THEN t.action ELSE "entered"
            /\ k \in DOMAIN t.filters
            /\ Field(e.payload, k) = t.filters[k]
    <2>1. t.type \in {Says(e.name)[1], "event"} <=> e.name \in {"segment_entered", "segment_exited"}
      BY WhatIsSaid
    <2>2. Needed(t.type) \subseteq DOMAIN t.filters <=> k \in DOMAIN t.filters
      BY <1>2
    <2>3. k \in DOMAIN t.filters =>
            ((\A q \in DOMAIN t.filters \ {"labelName"} :
                 \/ q = "eventName" /\ e.name = t.filters[q]
                 \/ q # "eventName" /\ Field(e.payload, q) = t.filters[q]
                 \/ q = "labelId" /\ Field(e.payload, "labelName") \in
                                         {t.filters[q], Field(t.filters, "labelName")})
              <=> Field(e.payload, k) = t.filters[k])
      BY <1>1
    <2> HIDE DEF k
    <2>4. QED
      BY <1>1, <2>1, <2>2, <2>3, Zenon DEF Wants
  <1>4. e.name \in {"segment_entered", "segment_exited"} =>
            ((t.action # "exited") = (e.name = "segment_entered") <=>
             Says(e.name)[2] = IF t.action # "" THEN t.action ELSE "entered")
    BY <1>1, ActionSaid
  <1>5. Field(t.filters, k) # Undefined <=> k \in DOMAIN t.filters
    BY <1>1, FieldThere
  <1>6. QED
    BY <1>3, <1>4, <1>5 DEF SegmentMatches

LEMMA LabelIsWanted ==
    ASSUME NEW t \in Triggers, NEW e \in TriggerEvents, t.type = "label", ~Unnamed(e)
    PROVE  LabelMatches(e, t) <=> Wants(e, t)
  <1>1. /\ DOMAIN t.filters \subseteq {"labelId", "labelName"}
        /\ \A k \in DOMAIN t.filters : t.filters[k] # Undefined
        /\ t.op = "any" /\ t.action \in {"", "applied", "removed"}
    BY TriggersAssumption DEF Filters
  <1>2. Needed(t.type) = {"labelId"}
    BY DEF Needed, Filters
  <1> DEFINE said == Says(e.name)[2]
             labels == {"label_added", "contact.label.added",
                        "label_removed", "contact.label.removed"}
             id == Field(e.payload, "labelId")
             name == Field(e.payload, "labelName")
             saved == Field(t.filters, "labelName")
             same == id = t.filters["labelId"] \/ name \in {t.filters["labelId"], saved}
             action == said = IF t.action # "" THEN t.action ELSE "applied"
  <1>3. Wants(e, t) <=> e.name \in labels /\ action /\ "labelId" \in DOMAIN t.filters /\ same
    <2>1. t.type \in {Says(e.name)[1], "event"} <=> e.name \in labels
      BY WhatIsSaid
    <2>2. (t.type \in {"segment", "label"} =>
            Says(e.name)[2] = IF t.action # "" THEN t.action
                              ELSE IF t.type = "label" THEN "applied" ELSE "entered")
          <=> action
      OBVIOUS
    <2>3. Needed(t.type) \subseteq DOMAIN t.filters <=> "labelId" \in DOMAIN t.filters
      BY <1>2
    <2>4. "labelId" \in DOMAIN t.filters =>
            ((\A k \in DOMAIN t.filters \ {"labelName"} :
                \/ k = "eventName" /\ e.name = t.filters[k]
                \/ k # "eventName" /\ Field(e.payload, k) = t.filters[k]
                \/ k = "labelId" /\ Field(e.payload, "labelName") \in
                                        {t.filters[k], Field(t.filters, "labelName")})
             <=> same)
      BY <1>1
    <2> HIDE DEF labels, action, same
    <2>5. QED
      BY <1>1, <2>1, <2>2, <2>3, <2>4 DEF Wants
  <1>4. e.name \in labels =>
            ((t.action # "removed") = (e.name \in {"label_added", "contact.label.added"})
                <=> action)
    <2>1. CASE e.name \in {"label_added", "contact.label.added"}
      <3>1. said = "applied"
        BY <2>1, ActionSaid
      <3> HIDE DEF said
      <3>2. QED
        BY <1>1, <2>1, <3>1
    <2>2. CASE e.name \in {"label_removed", "contact.label.removed"}
      <3>1. said = "removed"
        BY <2>2, ActionSaid
      <3> HIDE DEF said
      <3>2. e.name \notin {"label_added", "contact.label.added"}
        BY <2>2
      <3>3. action <=> t.action = "removed"
        BY <1>1, <3>1
      <3> HIDE DEF action
      <3>4. QED
        BY <3>2, <3>3
    <2>3. QED
      BY <2>1, <2>2
  <1>5. e.name \in labels => id # Undefined /\ id = e.payload["labelId"]
    BY WhatIsSaid, PayloadsAssumption, FieldThere DEF Unnamed
  <1>6. Field(t.filters, "labelId") # Undefined <=> "labelId" \in DOMAIN t.filters
    BY <1>1, FieldThere
  <1>7. LabelMatches(e, t) <=>
            /\ e.name \in labels
            /\ "labelId" \in DOMAIN t.filters
            /\ same
            /\ (t.action # "removed") = (e.name \in {"label_added", "contact.label.added"})
    BY <1>5, <1>6 DEF LabelMatches
  <1> HIDE DEF same, labels, action
  <1>8. QED
    BY <1>3, <1>4, <1>7

LEMMA CustomAttributeIsWanted ==
    ASSUME NEW t \in Triggers, NEW e \in TriggerEvents, t.type = "customattribute"
    PROVE  CustomAttributeMatches(e, t) <=> Wants(e, t)
  <1>1. /\ DOMAIN t.filters \subseteq {"attributeName", "attributeValue"}
        /\ \A k \in DOMAIN t.filters : t.filters[k] # Undefined
        /\ t.op = "any"
    BY TriggersAssumption DEF Filters
  <1>2. Needed(t.type) = {"attributeName"}
    BY DEF Needed, Filters
  <1>3. Wants(e, t) <=>
            /\ e.name \in {"contact.custom_attribute.changed", "custom_attribute_changed"}
            /\ "attributeName" \in DOMAIN t.filters
            /\ Field(e.payload, "attributeName") = t.filters["attributeName"]
            /\ "attributeValue" \in DOMAIN t.filters =>
                Field(e.payload, "attributeValue") = t.filters["attributeValue"]
    BY <1>1, <1>2, WhatIsSaid DEF Wants
  <1>4. Field(t.filters, "attributeName") # Undefined <=> "attributeName" \in DOMAIN t.filters
    BY <1>1, FieldThere
  <1>5. Field(t.filters, "attributeValue") \in {Undefined, Field(e.payload, "attributeValue")} <=>
            ("attributeValue" \in DOMAIN t.filters =>
                Field(e.payload, "attributeValue") = t.filters["attributeValue"])
    BY <1>1, FieldThere
  <1>6. QED
    BY <1>3, <1>4, <1>5 DEF CustomAttributeMatches

LEMMA PipelineIsWanted ==
    ASSUME NEW t \in Triggers, NEW e \in TriggerEvents, t.type = "pipelinestagechanged"
    PROVE  PipelineMatches(e, t) <=> Wants(e, t)
  <1> DEFINE fields == {"pipeline_id", "from_stage_id", "to_stage_id"}
  <1>1. /\ DOMAIN t.filters \subseteq fields
        /\ \A k \in DOMAIN t.filters : t.filters[k] # Undefined
        /\ t.op = "any"
    BY TriggersAssumption DEF Filters
  <1>2. Needed(t.type) = {}
    BY DEF Needed, Filters
  <1>3. Wants(e, t) <=>
            /\ e.name = "pipeline.stage_changed"
            /\ \A k \in DOMAIN t.filters : Field(e.payload, k) = t.filters[k]
    BY <1>1, <1>2, WhatIsSaid DEF Wants
  <1>4. ASSUME NEW k \in fields
        PROVE  Field(t.filters, k) \in {Undefined, Field(e.payload, k)} <=>
                (k \in DOMAIN t.filters => Field(e.payload, k) = t.filters[k])
    BY <1>1, FieldThere
  <1> HIDE DEF fields
  <1>5. PipelineMatches(e, t) <=>
            /\ e.name = "pipeline.stage_changed"
            /\ \A k \in fields : Field(t.filters, k) \in {Undefined, Field(e.payload, k)}
    BY DEF PipelineMatches, fields
  <1>6. QED
    BY <1>1, <1>3, <1>4, <1>5

\* The handlers match exactly what a trigger is meant for.
LEMMA MatchesWhatIsWanted ==
    ASSUME NEW t \in Triggers, NEW e \in TriggerEvents, ~Unnamed(e)
    PROVE  Matches(e, t) <=> Wants(e, t)
  <1> DEFINE known == {"contactcreated", "contactupdated", "segment", "label",
                       "pipelinestagechanged", "customattribute", "webhook", "event"}
  <1>1. CASE t.type \in {"contactcreated", "contactupdated", "webhook"}
    BY <1>1, ContactIsWanted DEF Matches
  <1>2. CASE t.type = "event"
    BY <1>2, EventIsWanted DEF Matches
  <1>3. CASE t.type = "segment"
    BY <1>3, SegmentIsWanted DEF Matches
  <1>4. CASE t.type = "label"
    BY <1>4, LabelIsWanted DEF Matches
  <1>5. CASE t.type = "customattribute"
    BY <1>5, CustomAttributeIsWanted DEF Matches
  <1>6. CASE t.type = "pipelinestagechanged"
    BY <1>6, PipelineIsWanted DEF Matches
  <1>7. CASE t.type \notin known
    <2>1. ~Matches(e, t)
      BY <1>7 DEF Matches
    <2>2. ~Wants(e, t)
      BY <1>7, WhatIsSaid DEF Wants
    <2>3. QED
      BY <2>1, <2>2
  <1>8. QED
    BY <1>1, <1>2, <1>3, <1>4, <1>5, <1>6, <1>7

LEMMA TriggersInvSuffices == TriggersInv => EveryActiveJourneyStarts
  <1> SUFFICES ASSUME TriggersInv, dispatch.pc = "done", ~dispatch.failed,
                      ~Unnamed(dispatch.event),
                      NEW j \in JourneyIds \ (excused \cup dispatch.moved)
               PROVE  j \in dispatch.started <=>
                        /\ journeys[j] = "on"
                        /\ IsDispatchable(dispatch.event)
                        /\ Wants(dispatch.event, wired[j])
    BY DEF EveryActiveJourneyStarts
  <1>1. j \in dispatch.started <=> IsMeant(j) /\ IsDispatchable(dispatch.event)
    BY DEF TriggersInv, Trusted, Dispatched
  <1>2. wired[j] \in Triggers /\ dispatch.event \in TriggerEvents \cup {NoEvent}
    BY DEF TriggersInv, TriggerTypes, Dispatches
  <1>3. CASE dispatch.event = NoEvent
    <2>1. NoEvent.contact = FALSE
      BY DEF NoEvent
    <2>2. ~IsDispatchable(NoEvent)
      BY <2>1 DEF IsDispatchable
    <2>3. QED
      BY <1>1, <1>3, <2>2
  <1>4. CASE dispatch.event \in TriggerEvents
    BY <1>1, <1>2, <1>4, MatchesWhatIsWanted DEF IsMeant
  <1>5. QED
    BY <1>2, <1>3, <1>4

\* However many journeys, editors, triggers and events there are, and whatever
\* fails: the journeys an analysed event has started (JourneyTriggerProcessor over
\* findActive) are exactly the active ones whose trigger is meant for it, but for
\* those whose cache entry is known to be untrustworthy or that were worked on
\* meanwhile.
THEOREM ActiveJourneysStart == TriggersSpec => []EveryActiveJourneyStarts
  <1>1. TriggersInit => TriggersInv
    BY TriggersInitially
  <1>2. TriggersInv /\ [TriggerStep]_triggerVars => TriggersInv'
    BY TriggersStep
  <1>3. TriggersInv => EveryActiveJourneyStarts
    BY TriggersInvSuffices
  <1>4. QED
    BY <1>1, <1>2, <1>3, PTL DEF TriggersSpec

-----------------------------------------------------------------------------
(* The caches of a link and of a segment, and their inductive invariant.   *)

(* What an entry may be, a value of the entity and the history mark.         *)
CacheValues == Contents \cup Segments

CacheEntries == {None} \cup [copy : CacheValues, outdated : BOOLEAN]

(* What an entry is worth beside the row v: nothing is said of one that is   *)
(* outdated, and a spent one agrees with whatever the row becomes.           *)
Spent(e) == e = None \/ e.outdated

Agrees(e, v) == Spent(e) \/ e.copy = v

LinkOnly ==
    {"keep", "reload", "save", "remove", "find", "dropCode", "dropId", "insert",
     "setId", "keepId", "setCode", "keepCode"}

SegmentOnly ==
    {"update", "compute", "reread", "cache", "drop", "check", "clean", "erase",
     "insertSegment", "members", "all", "index", "clear"}

Operations ==
    {"none", "click", "change", "delete", "create", "read", "edit", "recompute",
     "compute", "list", "clear"}

JobPhases ==
    {"idle", "ask", "redis", "load", "put", "announce"} \cup LinkOnly \cup SegmentOnly

JobRecords ==
    [op : Operations, at : Instances \cup {"nowhere"}, key : Keys, pc : JobPhases,
     copy : {None} \cup CacheValues, pass : {1, 2}]

LookingUp == {"ask", "redis", "load", "put", "keep", "reload"}

(* The awaits at which a request carries a value.                            *)
Carriers ==
    {"put", "keep", "save", "remove", "setId", "keepId", "setCode", "keepCode",
     "update", "cache"}

Creating == {"insert", "insertSegment"}

(* What a request may be at each await.                                      *)
JobOk(j) ==
    /\ j.pc = "idle" => j = Idle
    /\ j.pc # "idle" => j.at \in Instances
    /\ kind = "link" => j.pc \notin SegmentOnly
    /\ kind = "segment" => j.pc \notin LinkOnly /\ j.key = "id"
    /\ j.pc \in Carriers => j.copy # None
    /\ j.pc \in LookingUp =>
          \/ kind = "link" /\ j.op \in {"click", "change", "delete"}
          \/ kind = "segment" /\ j.op \in {"read", "edit", "recompute"}
    /\ j.pc \in Creating => j.op = "create"

(* A request that still removes or replaces the entry under the key k.       *)
WillRefresh(j, k) ==
    \/ j.pc \in {"find", "dropCode"}
    \/ k = "id" /\ j.pc \in {"dropId", "drop", "reread", "cache"}

NothingCached ==
    /\ \A k \in Keys : redis[k] = None
    /\ \A i \in Instances, k \in Keys : memory[i][k] = None

CacheTypes ==
    /\ kind \in {"link", "segment"}
    /\ row \in {None} \cup CacheValues
    /\ redis \in [Keys -> CacheEntries]
    /\ memory \in [Instances -> [Keys -> CacheEntries]]
    /\ gap \in BOOLEAN
    /\ job \in [Requests -> JobRecords]
    /\ started \in Nat

(* A segment is cached under its id and in Redis only.                       *)
SegmentShape ==
    kind = "segment" =>
        /\ row \in {None} \cup Segments
        /\ redis["code"] = None
        /\ \A i \in Instances, k \in Keys : memory[i][k] = None

JobsOk == \A r \in Requests : JobOk(job[r])

(* Creations come first, one at most; until the row is there nothing is      *)
(* cached and nobody carries a value.                                        *)
CreationInv ==
    /\ started = 0 => NothingCached /\ \A r \in Requests : job[r] = Idle
    /\ \A q, r \in Requests : job[q].op = "create" /\ job[r].op = "create" => q = r
    /\ \A r \in Requests : job[r].pc \in Creating =>
          row = None /\ NothingCached /\ \A q \in Requests : job[q].copy = None

RedisFollows ==
    /\ \A k \in Keys :
          Agrees(redis[k], row) \/ \E r \in Requests : WillRefresh(job[r], k)
    /\ kind = "segment" /\ row = None => \A k \in Keys : Agrees(redis[k], None)

MemoryFollows ==
    \A i \in Instances, k \in Keys :
        \/ Agrees(memory[i][k], row)
        \/ \E r \in Requests : job[r].at = i /\ WillRefresh(job[r], k)

ErasureInv == Doomed => \A k \in Keys : Spent(redis[k])

IndexFollows ==
    kind = "segment" /\ row # None /\ index # {} =>
        \/ "this" \in index
        \/ gap
        \/ \E r \in Requests : job[r].op = "create" /\ job[r].pc \in {"cache", "announce"}

CacheInv ==
    /\ CacheTypes
    /\ SegmentShape
    /\ JobsOk
    /\ CreationInv
    /\ RedisFollows
    /\ MemoryFollows
    /\ ErasureInv
    /\ IndexFollows

-----------------------------------------------------------------------------
LEMMA MarkAgrees ==
    ASSUME NEW e \in CacheEntries, NEW v
    PROVE  /\ Mark(e, v) \in CacheEntries
           /\ Agrees(Mark(e, v), v)
           /\ Spent(e) => Spent(Mark(e, v))
           /\ v \notin CacheValues => Spent(Mark(e, v))
           /\ e = None => Mark(e, v) = None
  <1>1. CASE e = None
    BY <1>1 DEF Mark, CacheEntries, Agrees, Spent
  <1>2. CASE e # None
    <2>1. e \in [copy : CacheValues, outdated : BOOLEAN]
      BY <1>2 DEF CacheEntries
    <2> DEFINE m == [e EXCEPT !.outdated = @ \/ e.copy # v]
    <2>2. Mark(e, v) = m
      BY <1>2 DEF Mark
    <2>3. m \in [copy : CacheValues, outdated : BOOLEAN] /\ m.copy = e.copy
      BY <2>1
    <2>4. m.outdated <=> e.outdated \/ e.copy # v
      BY <2>1
    <2> HIDE DEF m
    <2>5. QED
      BY <1>2, <2>1, <2>2, <2>3, <2>4 DEF CacheEntries, Agrees, Spent
  <1>3. QED
    BY <1>1, <1>2

LEMMA EntryAgrees ==
    ASSUME NEW v \in CacheValues
    PROVE  /\ Entry(v) \in CacheEntries
           /\ Agrees(Entry(v), row)
           /\ Doomed => Spent(Entry(v))
  <1>1. Entry(v) \in [copy : CacheValues, outdated : BOOLEAN] /\ Entry(v).copy = v
    BY DEF Entry
  <1>2. Entry(v).outdated <=> v # row \/ Doomed
    BY DEF Entry
  <1>3. QED
    BY <1>1, <1>2 DEF CacheEntries, Agrees, Spent

LEMMA MarkAllAgrees ==
    ASSUME NEW f \in [Keys -> CacheEntries], NEW v
    PROVE  /\ MarkAll(f, v) \in [Keys -> CacheEntries]
           /\ \A k \in Keys :
                /\ Agrees(MarkAll(f, v)[k], v)
                /\ Spent(f[k]) => Spent(MarkAll(f, v)[k])
                /\ v \notin CacheValues => Spent(MarkAll(f, v)[k])
                /\ f[k] = None => MarkAll(f, v)[k] = None
  BY MarkAgrees DEF MarkAll

LEMMA Placeholders ==
    /\ None \notin CacheValues
    /\ NewLink \in Contents /\ NewSegment \in Segments
    /\ Idle \in JobRecords
  BY ValuesAssumption
     DEF CacheValues, NewLink, NewSegment, Segments, Definitions, Idle, JobRecords, Keys,
         Operations, JobPhases

-----------------------------------------------------------------------------
LEMMA PhaseNames ==
    /\ {"idle", "ask", "redis", "load", "put", "announce"} \subseteq JobPhases
    /\ LinkOnly \subseteq JobPhases /\ SegmentOnly \subseteq JobPhases
    /\ "redis" \in JobPhases /\ "load" \in JobPhases /\ "put" \in JobPhases
    /\ "announce" \in JobPhases /\ "ask" \in JobPhases
    /\ "keep" \in JobPhases /\ "reload" \in JobPhases
    /\ "save" \in JobPhases /\ "remove" \in JobPhases /\ "find" \in JobPhases
    /\ "dropCode" \in JobPhases /\ "dropId" \in JobPhases /\ "insert" \in JobPhases
    /\ "setId" \in JobPhases /\ "keepId" \in JobPhases /\ "setCode" \in JobPhases
    /\ "keepCode" \in JobPhases /\ "insertSegment" \in JobPhases
    /\ "update" \in JobPhases /\ "compute" \in JobPhases /\ "reread" \in JobPhases
    /\ "cache" \in JobPhases /\ "drop" \in JobPhases /\ "check" \in JobPhases
    /\ "clean" \in JobPhases /\ "erase" \in JobPhases /\ "members" \in JobPhases
    /\ "all" \in JobPhases /\ "index" \in JobPhases /\ "clear" \in JobPhases
  BY DEF JobPhases, LinkOnly, SegmentOnly

(* Only one request has moved.                                               *)
Turned(r) ==
    /\ job' \in [Requests -> JobRecords]
    /\ \A q \in Requests \ {r} : job'[q] = job[q]

Alike(j, l) ==
    j.op = l.op /\ j.at = l.at /\ j.key = l.key /\ j.copy = l.copy /\ j.pass = l.pass

LEMMA GotoTurns ==
    ASSUME CacheTypes, NEW r \in Requests, NEW pc \in JobPhases, Goto(r, pc)
    PROVE  Turned(r) /\ job'[r].pc = pc /\ Alike(job'[r], job[r])
  <1> DEFINE n == [job[r] EXCEPT !.pc = pc]
  <1>1. job[r] \in JobRecords /\ job \in [Requests -> JobRecords]
    BY DEF CacheTypes
  <1>2. n \in JobRecords /\ n.pc = pc /\ Alike(n, job[r])
    BY <1>1 DEF JobRecords, Alike
  <1>3. job' = [job EXCEPT ![r] = n]
    BY <1>1 DEF Goto
  <1> HIDE DEF n
  <1>4. QED
    BY <1>1, <1>2, <1>3 DEF Turned

LEMMA CarryTurns ==
    ASSUME CacheTypes, NEW r \in Requests, NEW pc \in JobPhases,
           NEW v \in {None} \cup CacheValues,
           job' = [job EXCEPT ![r].pc = pc, ![r].copy = v]
    PROVE  /\ Turned(r)
           /\ job'[r].pc = pc /\ job'[r].copy = v
           /\ job'[r].op = job[r].op /\ job'[r].at = job[r].at /\ job'[r].key = job[r].key
  <1> DEFINE n == [job[r] EXCEPT !.pc = pc, !.copy = v]
  <1>1. job[r] \in JobRecords /\ job \in [Requests -> JobRecords]
    BY DEF CacheTypes
  <1>2. /\ n \in JobRecords /\ n.pc = pc /\ n.copy = v
        /\ n.op = job[r].op /\ n.at = job[r].at /\ n.key = job[r].key
    BY <1>1 DEF JobRecords
  <1>3. job' = [job EXCEPT ![r] = n]
    BY <1>1
  <1> HIDE DEF n
  <1>4. QED
    BY <1>1, <1>2, <1>3 DEF Turned

LEMMA FinishTurns ==
    ASSUME CacheTypes, NEW r \in Requests, Finish(r)
    PROVE  Turned(r) /\ job'[r] = Idle
  BY Placeholders DEF CacheTypes, Finish, Turned

LEMMA IdleIsOk ==
    JobOk(Idle) /\ Idle.pc = "idle" /\ Idle.op = "none" /\ Idle.copy = None
  BY DEF JobOk, Idle, SegmentOnly, LinkOnly, Carriers, LookingUp, Creating

(* A look-up that has ended goes on with its operation.                      *)
LEMMA FoundTurns ==
    ASSUME CacheInv, NEW r \in Requests, job[r].pc \in LookingUp,
           NEW v \in CacheValues, Found(r, v)
    PROVE  /\ Turned(r) /\ JobOk(job'[r])
           /\ job'[r].op \in {"none", job[r].op}
           /\ job'[r].pc \in {"idle", "save", "remove", "update", "compute"}
  <1>1. CacheTypes /\ JobOk(job[r])
    BY DEF CacheInv, JobsOk
  <1>2. CASE After(job[r].op) = "found"
    <2>1. Finish(r)
      BY <1>2 DEF Found
    <2>2. QED
      BY <1>1, <2>1, FinishTurns, IdleIsOk
  <1>3. CASE After(job[r].op) # "found"
    <2>1. \/ kind = "link" /\ After(job[r].op) \in {"save", "remove"}
          \/ kind = "segment" /\ After(job[r].op) \in {"update", "compute"}
      BY <1>1, <1>3 DEF JobOk, After
    <2>2. job' = [job EXCEPT ![r].pc = After(job[r].op), ![r].copy = v]
      BY <1>3 DEF Found
    <2> DEFINE p == After(job[r].op)
    <2>3. p \in {"save", "remove", "update", "compute"} /\ p \in JobPhases
      BY <2>1, PhaseNames
    <2>4. job' = [job EXCEPT ![r].pc = p, ![r].copy = v]
      BY <2>2
    <2> HIDE DEF p
    <2>5. /\ Turned(r)
          /\ job'[r].pc = p /\ job'[r].copy = v
          /\ job'[r].op = job[r].op /\ job'[r].at = job[r].at /\ job'[r].key = job[r].key
      BY <1>1, <2>3, <2>4, CarryTurns
    <2>6. JobOk(job'[r])
      BY <1>1, <2>1, <2>3, <2>5, Placeholders
         DEF JobOk, p, LookingUp, Carriers, Creating, SegmentOnly, LinkOnly
    <2>7. QED
      BY <2>3, <2>5, <2>6
  <1>4. QED
    BY <1>2, <1>3

-----------------------------------------------------------------------------
(* A step of one request that leaves the row alone, and what it owes.        *)
Bare ==
    row = None /\ NothingCached /\ \A q \in Requests : job[q].copy = None

StillLists(j) == j.op = "create" /\ j.pc \in {"cache", "announce"}

RedisKept(r) ==
    \A k \in Keys :
        \/ Agrees(redis'[k], row)
        \/ redis'[k] = redis[k] /\ (WillRefresh(job[r], k) => WillRefresh(job'[r], k))

MemoryKept(r) ==
    \A i \in Instances, k \in Keys :
        \/ Agrees(memory'[i][k], row)
        \/ /\ memory'[i][k] = memory[i][k]
           /\ job[r].at = i /\ WillRefresh(job[r], k)
                => job'[r].at = i /\ WillRefresh(job'[r], k)

IndexKept(r) ==
    kind = "segment" /\ row # None /\ index' # {} =>
        \/ "this" \in index'
        \/ gap'
        \/ index' = index /\ gap' = gap /\ (StillLists(job[r]) => StillLists(job'[r]))

CachesTyped ==
    /\ redis' \in [Keys -> CacheEntries]
    /\ memory' \in [Instances -> [Keys -> CacheEntries]]
    /\ gap' \in BOOLEAN

Gentle(r) ==
    /\ UNCHANGED <<kind, row, started>>
    /\ CachesTyped
    /\ kind = "segment" =>
          redis'["code"] = None /\ \A i \in Instances, k \in Keys : memory'[i][k] = None
    /\ job[r].pc # "idle"
    /\ Turned(r)
    /\ JobOk(job'[r])
    /\ job'[r].op \in {"none", job[r].op}
    /\ job'[r].pc \notin Creating
    /\ Bare => job'[r].copy = None /\ NothingCached'
    /\ RedisKept(r)
    /\ MemoryKept(r)
    /\ Doomed \/ job'[r].pc = "erase" => \A k \in Keys : Spent(redis'[k])
    /\ IndexKept(r)

LEMMA JobsStayOk ==
    ASSUME CacheInv, NEW r \in Requests, Turned(r), JobOk(job'[r]), kind' = kind
    PROVE  JobsOk'
  <1>1. ASSUME NEW q \in Requests  PROVE JobOk(job'[q])
    <2>1. CASE q = r
      BY <2>1
    <2>2. CASE q # r
      BY <2>2 DEF Turned, CacheInv, JobsOk
    <2>3. QED
      BY <2>1, <2>2
  <1>2. \A q \in Requests : JobOk(job'[q]) <=> JobOk(job[q])'
    BY DEF JobOk, Idle
  <1>3. QED
    BY <1>1, <1>2 DEF JobsOk

LEMMA GentleKeeps ==
    ASSUME CacheInv, NEW r \in Requests, Gentle(r)
    PROVE  CacheInv'
  <1>1. kind' = kind /\ row' = row /\ started' = started /\ Turned(r)
    BY DEF Gentle
  <1>2. /\ job \in [Requests -> JobRecords] /\ job' \in [Requests -> JobRecords]
        /\ \A q \in Requests \ {r} : job'[q] = job[q]
    BY <1>1 DEF CacheInv, CacheTypes, Turned
  <1>3. CacheTypes' /\ SegmentShape'
    BY <1>1, <1>2 DEF CacheInv, CacheTypes, SegmentShape, Gentle, CachesTyped
  <1>4. JobsOk'
    BY <1>1, JobsStayOk DEF Gentle
  <1>5. CreationInv'
    <2>1. started # 0
      BY DEF Gentle, CacheInv, CreationInv, Idle
    <2>2. \A q \in Requests : job'[q].op = "create" => job[q].op = "create"
      BY <1>2 DEF Gentle
    <2>3. ASSUME NEW q \in Requests, job'[q].pc \in Creating
          PROVE  row' = None /\ NothingCached' /\ \A s \in Requests : job'[s].copy = None
      <3>1. q # r /\ job'[q] = job[q]
        BY <1>2, <2>3 DEF Gentle
      <3>2. Bare
        BY <2>3, <3>1 DEF CacheInv, CreationInv, Bare
      <3>3. job'[r].copy = None /\ NothingCached'
        BY <3>2 DEF Gentle
      <3>4. QED
        BY <1>1, <1>2, <3>2, <3>3 DEF Bare
    <2>4. QED
      BY <1>1, <2>1, <2>2, <2>3 DEF CacheInv, CreationInv
  <1>6. RedisFollows'
    <2>1. ASSUME NEW k \in Keys
          PROVE  Agrees(redis'[k], row) \/ \E q \in Requests : WillRefresh(job'[q], k)
      <3>1. CASE Agrees(redis'[k], row)
        BY <3>1
      <3>2. CASE redis'[k] = redis[k] /\ (WillRefresh(job[r], k) => WillRefresh(job'[r], k))
        BY <1>2, <3>2 DEF CacheInv, RedisFollows
      <3>3. QED
        BY <3>1, <3>2 DEF Gentle, RedisKept
    <2>2. kind = "segment" /\ row = None => \A k \in Keys : Agrees(redis'[k], None)
      BY DEF Gentle, RedisKept, CacheInv, RedisFollows
    <2>3. QED
      BY <1>1, <2>1, <2>2 DEF RedisFollows, Agrees, Spent, WillRefresh
  <1>7. MemoryFollows'
    <2>1. ASSUME NEW i \in Instances, NEW k \in Keys
          PROVE  \/ Agrees(memory'[i][k], row)
                 \/ \E q \in Requests : job'[q].at = i /\ WillRefresh(job'[q], k)
      <3>1. CASE Agrees(memory'[i][k], row)
        BY <3>1
      <3>2. CASE /\ memory'[i][k] = memory[i][k]
                 /\ job[r].at = i /\ WillRefresh(job[r], k)
                      => job'[r].at = i /\ WillRefresh(job'[r], k)
        BY <1>2, <3>2 DEF CacheInv, MemoryFollows
      <3>3. QED
        BY <3>1, <3>2 DEF Gentle, MemoryKept
    <2>2. QED
      BY <1>1, <2>1 DEF MemoryFollows, Agrees, Spent, WillRefresh
  <1>8. ErasureInv'
    <2>1. Doomed' => Doomed \/ job'[r].pc = "erase"
      BY <1>2 DEF Doomed, At
    <2>2. QED
      BY <2>1 DEF Gentle, ErasureInv, Spent
  <1>9. IndexFollows'
    <2>1. SUFFICES ASSUME kind = "segment", row # None, index' # {}, "this" \notin index', ~gap'
                   PROVE  \E q \in Requests : StillLists(job'[q])
      BY <1>1 DEF IndexFollows, StillLists
    <2>2. index' = index /\ gap' = gap /\ (StillLists(job[r]) => StillLists(job'[r]))
      BY <2>1 DEF Gentle, IndexKept
    <2>3. PICK q \in Requests : StillLists(job[q])
      BY <2>1, <2>2 DEF CacheInv, IndexFollows, StillLists
    <2>4. QED
      BY <1>2, <2>2, <2>3
  <1>10. QED
    BY <1>3, <1>4, <1>5, <1>6, <1>7, <1>8, <1>9 DEF CacheInv

-----------------------------------------------------------------------------
(* The steps of a look-up.                                                   *)
LEMMA CachesSame ==
    ASSUME CacheInv, UNCHANGED <<redis, memory, index, gap>>
    PROVE  /\ CachesTyped
           /\ kind = "segment" =>
                redis'["code"] = None /\ \A i \in Instances, k \in Keys : memory'[i][k] = None
           /\ Bare => NothingCached'
  BY DEF CacheInv, CacheTypes, SegmentShape, CachesTyped, Bare, NothingCached

(* A request that moves on without touching a cache.                         *)
LEMMA QuietlyKeeps ==
    ASSUME CacheInv, NEW r \in Requests,
           UNCHANGED <<kind, row, redis, memory, index, gap, started>>,
           job[r].pc # "idle", Turned(r), JobOk(job'[r]),
           job'[r].op \in {"none", job[r].op},
           job'[r].pc \notin Creating \cup {"erase"},
           Bare => job'[r].copy = None,
           ~StillLists(job[r]),
           \A k \in Keys :
              WillRefresh(job[r], k)
                 => WillRefresh(job'[r], k) /\ job'[r].at = job[r].at
    PROVE  CacheInv'
  <1>1. RedisKept(r) /\ MemoryKept(r) /\ IndexKept(r)
    BY DEF RedisKept, MemoryKept, IndexKept
  <1>2. Doomed => \A k \in Keys : Spent(redis'[k])
    BY DEF CacheInv, ErasureInv
  <1>3. Gentle(r)
    BY <1>1, <1>2, CachesSame DEF Gentle
  <1>4. QED
    BY <1>3, GentleKeeps

LEMMA AskMemoryKeeps ==
    ASSUME CacheInv, NEW r \in Requests, AskMemory(r)
    PROVE  CacheInv'
  <1>1. CacheTypes /\ JobOk(job[r]) /\ job[r] \in JobRecords
    BY DEF CacheInv, CacheTypes, JobsOk
  <1>2. job[r].pc = "ask" /\ UNCHANGED <<kind, row, redis, memory, index, gap, started>>
    BY DEF AskMemory, At
  <1>3. job[r].at \in Instances /\ job[r].key \in Keys
    BY <1>1, <1>2 DEF JobOk, JobRecords
  <1>4. ~StillLists(job[r]) /\ \A k \in Keys : ~WillRefresh(job[r], k)
    BY <1>2 DEF StillLists, WillRefresh
  <1>5. CASE HeldBy(r) # None
    <2>1. HeldBy(r) = memory[job[r].at][job[r].key] /\ HeldBy(r) \in CacheEntries
      BY <1>1, <1>3, <1>5 DEF HeldBy, CacheTypes
    <2>2. HeldBy(r).copy \in CacheValues
      BY <1>5, <2>1 DEF CacheEntries
    <2>3. Found(r, HeldBy(r).copy)
      BY <1>5 DEF AskMemory
    <2>4. /\ Turned(r) /\ JobOk(job'[r])
          /\ job'[r].op \in {"none", job[r].op}
          /\ job'[r].pc \in {"idle", "save", "remove", "update", "compute"}
      BY <1>2, <2>2, <2>3, FoundTurns DEF LookingUp
    <2>5. ~Bare
      BY <1>3, <1>5, <2>1 DEF Bare, NothingCached
    <2>6. QED
      BY <1>2, <1>4, <2>4, <2>5, QuietlyKeeps DEF Creating
  <1>6. CASE HeldBy(r) = None
    <2>1. Goto(r, "redis")
      BY <1>6 DEF AskMemory
    <2>2. Turned(r) /\ job'[r].pc = "redis" /\ Alike(job'[r], job[r])
      BY <1>1, <2>1, GotoTurns, PhaseNames
    <2>3. JobOk(job'[r])
      BY <1>1, <1>2, <2>2
         DEF JobOk, Alike, SegmentOnly, LinkOnly, Carriers, LookingUp, Creating
    <2>4. QED
      BY <1>2, <1>4, <2>2, <2>3, QuietlyKeeps DEF Creating, Bare, Alike
  <1>7. QED
    BY <1>5, <1>6

LEMMA AskRedisKeeps ==
    ASSUME CacheInv, NEW r \in Requests, AskRedis(r)
    PROVE  CacheInv'
  <1>1. CacheTypes /\ JobOk(job[r]) /\ job[r] \in JobRecords
    BY DEF CacheInv, CacheTypes, JobsOk
  <1>2. job[r].pc = "redis" /\ UNCHANGED <<kind, row, redis, memory, index, gap, started>>
    BY DEF AskRedis, At
  <1>3. job[r].at \in Instances /\ job[r].key \in Keys
    BY <1>1, <1>2 DEF JobOk, JobRecords
  <1>4. ~StillLists(job[r]) /\ \A k \in Keys : ~WillRefresh(job[r], k)
    BY <1>2 DEF StillLists, WillRefresh
  <1> DEFINE entry == redis[job[r].key]
  <1>5. entry \in CacheEntries
    BY <1>1, <1>3 DEF CacheTypes
  <1>6. entry # None => entry.copy \in CacheValues /\ ~Bare
    BY <1>3, <1>5 DEF CacheEntries, Bare, NothingCached
  <1>7. \/ entry = None /\ Goto(r, "load")
        \/ /\ entry # None /\ HasMemory
           /\ job' = [job EXCEPT ![r].pc = "keep", ![r].copy = entry.copy]
        \/ entry # None /\ Found(r, entry.copy)
        \/ job[r].key = "id" /\ Goto(r, "load")
        \/ job[r].key # "id" /\ Goto(r, "reload")
    BY DEF AskRedis
  <1> HIDE DEF entry
  <1>8. CASE Goto(r, "load")
    <2>1. Turned(r) /\ job'[r].pc = "load" /\ Alike(job'[r], job[r])
      BY <1>1, <1>8, GotoTurns, PhaseNames
    <2>2. JobOk(job'[r])
      BY <1>1, <1>2, <2>1
         DEF JobOk, Alike, SegmentOnly, LinkOnly, Carriers, LookingUp, Creating
    <2>3. QED
      BY <1>2, <1>4, <2>1, <2>2, QuietlyKeeps DEF Creating, Bare, Alike
  <1>9. CASE /\ entry # None /\ HasMemory
             /\ job' = [job EXCEPT ![r].pc = "keep", ![r].copy = entry.copy]
    <2>1. /\ Turned(r)
          /\ job'[r].pc = "keep" /\ job'[r].copy = entry.copy
          /\ job'[r].op = job[r].op /\ job'[r].at = job[r].at /\ job'[r].key = job[r].key
      BY <1>1, <1>6, <1>9, CarryTurns, PhaseNames
    <2>2. JobOk(job'[r])
      BY <1>1, <1>2, <1>6, <1>9, <2>1, Placeholders
         DEF JobOk, HasMemory, SegmentOnly, LinkOnly, Carriers, LookingUp, Creating
    <2>3. QED
      BY <1>2, <1>4, <1>6, <1>9, <2>1, <2>2, QuietlyKeeps DEF Creating
  <1>10. CASE entry # None /\ Found(r, entry.copy)
    <2>1. /\ Turned(r) /\ JobOk(job'[r])
          /\ job'[r].op \in {"none", job[r].op}
          /\ job'[r].pc \in {"idle", "save", "remove", "update", "compute"}
      BY <1>2, <1>6, <1>10, FoundTurns DEF LookingUp
    <2>2. QED
      BY <1>2, <1>4, <1>6, <1>10, <2>1, QuietlyKeeps DEF Creating
  <1>11. CASE job[r].key # "id" /\ Goto(r, "reload")
    <2>1. Turned(r) /\ job'[r].pc = "reload" /\ Alike(job'[r], job[r])
      BY <1>1, <1>11, GotoTurns, PhaseNames
    <2>2. JobOk(job'[r])
      BY <1>1, <1>2, <1>11, <2>1
         DEF JobOk, Alike, SegmentOnly, LinkOnly, Carriers, LookingUp, Creating
    <2>3. QED
      BY <1>2, <1>4, <2>1, <2>2, QuietlyKeeps DEF Creating, Bare, Alike
  <1>12. QED
    BY <1>7, <1>8, <1>9, <1>10, <1>11

LEMMA LoadKeeps ==
    ASSUME CacheInv, NEW r \in Requests, Load(r)
    PROVE  CacheInv'
  <1>1. CacheTypes /\ JobOk(job[r])
    BY DEF CacheInv, JobsOk
  <1>2. job[r].pc = "load" /\ UNCHANGED <<kind, row, redis, memory, index, gap, started>>
    BY DEF Load, At
  <1>3. ~StillLists(job[r]) /\ \A k \in Keys : ~WillRefresh(job[r], k)
    BY <1>2 DEF StillLists, WillRefresh
  <1>4. CASE row = None
    <2>1. Turned(r) /\ job'[r] = Idle
      BY <1>1, <1>4, FinishTurns DEF Load
    <2>2. QED
      BY <1>2, <1>3, <2>1, IdleIsOk, QuietlyKeeps DEF Creating
  <1>5. CASE row # None
    <2>1. row \in CacheValues /\ ~Bare
      BY <1>1, <1>5 DEF CacheTypes, Bare
    <2>2. /\ Turned(r)
          /\ job'[r].pc = "put" /\ job'[r].copy = row
          /\ job'[r].op = job[r].op /\ job'[r].at = job[r].at /\ job'[r].key = job[r].key
      BY <1>1, <1>5, <2>1, CarryTurns, PhaseNames DEF Load
    <2>3. JobOk(job'[r])
      BY <1>1, <1>2, <1>5, <2>2
         DEF JobOk, SegmentOnly, LinkOnly, Carriers, LookingUp, Creating
    <2>4. QED
      BY <1>2, <1>3, <2>1, <2>2, <2>3, QuietlyKeeps DEF Creating
  <1>6. QED
    BY <1>4, <1>5

LEMMA ReloadKeeps ==
    ASSUME CacheInv, NEW r \in Requests, Reload(r)
    PROVE  CacheInv'
  <1>1. CacheTypes /\ JobOk(job[r])
    BY DEF CacheInv, JobsOk
  <1>2. job[r].pc = "reload" /\ UNCHANGED <<kind, row, redis, memory, index, gap, started>>
    BY DEF Reload, At
  <1>3. ~StillLists(job[r]) /\ \A k \in Keys : ~WillRefresh(job[r], k)
    BY <1>2 DEF StillLists, WillRefresh
  <1>4. CASE row = None
    <2>1. Turned(r) /\ job'[r] = Idle
      BY <1>1, <1>4, FinishTurns DEF Reload
    <2>2. QED
      BY <1>2, <1>3, <2>1, IdleIsOk, QuietlyKeeps DEF Creating
  <1>5. CASE row # None
    <2>1. row \in CacheValues /\ ~Bare /\ Found(r, row)
      BY <1>1, <1>5 DEF CacheTypes, Bare, Reload
    <2>2. /\ Turned(r) /\ JobOk(job'[r])
          /\ job'[r].op \in {"none", job[r].op}
          /\ job'[r].pc \in {"idle", "save", "remove", "update", "compute"}
      BY <1>2, <2>1, FoundTurns DEF LookingUp
    <2>3. QED
      BY <1>2, <1>3, <2>1, <2>2, QuietlyKeeps DEF Creating
  <1>6. QED
    BY <1>4, <1>5

(* A value is written under a key of Redis, as one that agrees with the row  *)
(* or is marked.                                                             *)
LEMMA WrittenToRedis ==
    ASSUME CacheInv, NEW key \in Keys, NEW v \in CacheValues,
           kind = "segment" => key = "id",
           redis' = [redis EXCEPT ![key] = Entry(v)], UNCHANGED <<memory, index, gap>>
    PROVE  /\ CachesTyped
           /\ kind = "segment" =>
                redis'["code"] = None /\ \A i \in Instances, k \in Keys : memory'[i][k] = None
           /\ \A k \in Keys : Agrees(redis'[k], row) \/ redis'[k] = redis[k]
           /\ Agrees(redis'[key], row)
           /\ Doomed => \A k \in Keys : Spent(redis'[k])
  <1>1. /\ Entry(v) \in CacheEntries /\ Agrees(Entry(v), row)
        /\ Doomed => Spent(Entry(v))
    BY EntryAgrees
  <1>2. /\ redis' \in [Keys -> CacheEntries] /\ redis'[key] = Entry(v)
        /\ \A k \in Keys \ {key} : redis'[k] = redis[k]
    BY <1>1 DEF CacheInv, CacheTypes
  <1>3. CachesTyped
    BY <1>2 DEF CacheInv, CacheTypes, CachesTyped
  <1>4. kind = "segment" =>
          redis'["code"] = None /\ \A i \in Instances, k \in Keys : memory'[i][k] = None
    BY <1>2 DEF CacheInv, SegmentShape, Keys
  <1>5. Doomed => \A k \in Keys : Spent(redis'[k])
    BY <1>1, <1>2 DEF CacheInv, ErasureInv
  <1>6. QED
    BY <1>1, <1>2, <1>3, <1>4, <1>5

LEMMA WrittenToMemory ==
    ASSUME CacheInv, NEW i \in Instances, NEW key \in Keys, NEW v \in CacheValues,
           kind = "link",
           memory' = [memory EXCEPT ![i][key] = Entry(v)], UNCHANGED <<redis, gap>>
    PROVE  /\ CachesTyped
           /\ \A j \in Instances, k \in Keys :
                 \/ Agrees(memory'[j][k], row)
                 \/ memory'[j][k] = memory[j][k]
           /\ Doomed => \A k \in Keys : Spent(redis'[k])
  <1>1. Entry(v) \in CacheEntries /\ Agrees(Entry(v), row)
    BY EntryAgrees
  <1>2. memory' \in [Instances -> [Keys -> CacheEntries]] /\ memory'[i][key] = Entry(v)
    BY <1>1 DEF CacheInv, CacheTypes
  <1>3. \A j \in Instances, k \in Keys : j # i \/ k # key => memory'[j][k] = memory[j][k]
    BY DEF CacheInv, CacheTypes
  <1>4. CachesTyped
    BY <1>2 DEF CacheInv, CacheTypes, CachesTyped
  <1>5. QED
    BY <1>1, <1>2, <1>3, <1>4 DEF CacheInv, ErasureInv

LEMMA PutKeeps ==
    ASSUME CacheInv, NEW r \in Requests, Put(r)
    PROVE  CacheInv'
  <1>1. CacheTypes /\ JobOk(job[r]) /\ job[r] \in JobRecords
    BY DEF CacheInv, CacheTypes, JobsOk
  <1>2. job[r].pc = "put" /\ UNCHANGED <<kind, row, memory, index, gap, started>>
    BY DEF Put, At
  <1>3. /\ job[r].copy \in CacheValues /\ ~Bare
        /\ job[r].at \in Instances /\ job[r].key \in Keys
        /\ kind = "segment" => job[r].key = "id"
    BY <1>1, <1>2 DEF JobOk, JobRecords, Carriers, Bare
  <1>4. ~StillLists(job[r]) /\ \A k \in Keys : ~WillRefresh(job[r], k)
    BY <1>2 DEF StillLists, WillRefresh
  <1>5. \/ HasMemory /\ Goto(r, "keep")
        \/ Found(r, job[r].copy)
        \/ job[r].key = "code" /\ Goto(r, "reload")
    BY DEF Put
  <1>6. /\ Turned(r) /\ JobOk(job'[r])
        /\ job'[r].op \in {"none", job[r].op}
        /\ job'[r].pc \in {"idle", "save", "remove", "update", "compute", "keep", "reload"}
    <2>1. ASSUME NEW pc \in {"keep", "reload"}, kind = "link", Goto(r, pc)
          PROVE  /\ Turned(r) /\ JobOk(job'[r])
                 /\ job'[r].op \in {"none", job[r].op} /\ job'[r].pc = pc
      <3>1. Turned(r) /\ job'[r].pc = pc /\ Alike(job'[r], job[r])
        BY <1>1, <2>1, GotoTurns, PhaseNames
      <3>2. JobOk(job'[r])
        BY <1>1, <1>2, <2>1, <3>1
           DEF JobOk, Alike, SegmentOnly, LinkOnly, Carriers, LookingUp, Creating
      <3>3. QED
        BY <3>1, <3>2 DEF Alike
    <2>2. CASE HasMemory /\ Goto(r, "keep")
      BY <2>1, <2>2 DEF HasMemory
    <2>3. CASE job[r].key = "code" /\ Goto(r, "reload")
      BY <1>1, <1>3, <2>1, <2>3 DEF CacheTypes
    <2>4. CASE Found(r, job[r].copy)
      BY <1>2, <1>3, <2>4, FoundTurns DEF LookingUp
    <2>5. QED
      BY <1>5, <2>2, <2>3, <2>4
  <1>7. CASE redis' = [redis EXCEPT ![job[r].key] = Entry(job[r].copy)]
    <2>1. /\ CachesTyped
          /\ kind = "segment" =>
                redis'["code"] = None /\ \A i \in Instances, k \in Keys : memory'[i][k] = None
          /\ \A k \in Keys : Agrees(redis'[k], row) \/ redis'[k] = redis[k]
          /\ Doomed => \A k \in Keys : Spent(redis'[k])
      BY <1>2, <1>3, <1>7, WrittenToRedis
    <2>2. RedisKept(r) /\ MemoryKept(r) /\ IndexKept(r)
      BY <1>2, <1>4, <2>1 DEF RedisKept, MemoryKept, IndexKept
    <2>3. Gentle(r)
      BY <1>2, <1>3, <1>6, <2>1, <2>2 DEF Gentle, Creating
    <2>4. QED
      BY <2>3, GentleKeeps
  <1>8. CASE UNCHANGED redis
    BY <1>2, <1>3, <1>4, <1>6, <1>8, QuietlyKeeps DEF Creating
  <1>9. QED
    BY <1>7, <1>8 DEF Put

LEMMA KeepKeeps ==
    ASSUME CacheInv, NEW r \in Requests, Keep(r)
    PROVE  CacheInv'
  <1>1. CacheTypes /\ JobOk(job[r]) /\ job[r] \in JobRecords
    BY DEF CacheInv, CacheTypes, JobsOk
  <1>2. job[r].pc = "keep" /\ UNCHANGED <<kind, row, redis, index, gap, started>>
    BY DEF Keep, At
  <1>3. /\ job[r].copy \in CacheValues /\ ~Bare /\ kind = "link"
        /\ job[r].at \in Instances /\ job[r].key \in Keys
    BY <1>1, <1>2 DEF JobOk, JobRecords, Carriers, Bare, LinkOnly, CacheTypes
  <1>4. \A k \in Keys : ~WillRefresh(job[r], k)
    BY <1>2 DEF WillRefresh
  <1>5. /\ Turned(r) /\ JobOk(job'[r])
        /\ job'[r].op \in {"none", job[r].op}
        /\ job'[r].pc \in {"idle", "save", "remove", "update", "compute"}
    BY <1>2, <1>3, FoundTurns DEF Keep, LookingUp
  <1>6. /\ CachesTyped
        /\ \A j \in Instances, k \in Keys :
              Agrees(memory'[j][k], row) \/ memory'[j][k] = memory[j][k]
        /\ Doomed => \A k \in Keys : Spent(redis'[k])
    BY <1>2, <1>3, WrittenToMemory DEF Keep
  <1>7. RedisKept(r) /\ MemoryKept(r) /\ IndexKept(r)
    BY <1>2, <1>3, <1>4, <1>6 DEF RedisKept, MemoryKept, IndexKept
  <1>8. Gentle(r)
    BY <1>2, <1>3, <1>5, <1>6, <1>7 DEF Gentle, Creating
  <1>9. QED
    BY <1>8, GentleKeeps

-----------------------------------------------------------------------------
(* Short links: the steps after which the row is another one.                *)
LEMMA LinkRowKeeps ==
    ASSUME CacheInv, NEW r \in Requests, job[r].pc \in {"save", "remove"},
           row' \in {None} \cup Contents,
           Elsewhere(job[r].at, row'),
           job' = [job EXCEPT ![r].pc = "find", ![r].copy = None],
           UNCHANGED <<kind, redis, index, gap, started>>
    PROVE  CacheInv'
  <1>1. CacheTypes /\ JobOk(job[r]) /\ job[r] \in JobRecords
    BY DEF CacheInv, CacheTypes, JobsOk
  <1>2. kind = "link" /\ job[r].at \in Instances /\ job[r].copy # None
    BY <1>1 DEF JobOk, CacheTypes, LinkOnly, Carriers
  <1>3. /\ Turned(r)
        /\ job'[r].pc = "find" /\ job'[r].copy = None
        /\ job'[r].op = job[r].op /\ job'[r].at = job[r].at /\ job'[r].key = job[r].key
    BY <1>1, CarryTurns, PhaseNames
  <1>4. JobOk(job'[r])
    BY <1>1, <1>2, <1>3 DEF JobOk, SegmentOnly, LinkOnly, Carriers, LookingUp, Creating
  <1>5. JobsOk'
    BY <1>3, <1>4, JobsStayOk
  <1>6. /\ memory' \in [Instances -> [Keys -> CacheEntries]]
        /\ \A i \in Instances, k \in Keys : i # job[r].at => Agrees(memory'[i][k], row')
    BY <1>1, MarkAllAgrees DEF Elsewhere, CacheTypes
  <1>7. CacheTypes' /\ SegmentShape'
    BY <1>1, <1>2, <1>3, <1>6 DEF CacheTypes, SegmentShape, CacheValues, Turned
  <1>8. CreationInv'
    <2>1. started # 0
      BY <1>2 DEF CacheInv, CreationInv, Idle
    <2>2. \A q \in Requests : job[q].pc \notin Creating
      BY <1>2 DEF CacheInv, CreationInv
    <2>3. \A q \in Requests : job'[q].pc \notin Creating /\ job'[q].op = job[q].op
      BY <1>3, <2>2 DEF Turned, Creating
    <2>4. QED
      <3>1. \A p, q \in Requests : job'[p].op = "create" /\ job'[q].op = "create" => p = q
        BY <2>3 DEF CacheInv, CreationInv
      <3>2. QED
        BY <2>1, <2>3, <3>1 DEF CreationInv
  <1>9. \A k \in Keys : WillRefresh(job[r], k)'
    BY <1>3 DEF WillRefresh
  <1>10. RedisFollows'
    BY <1>2, <1>9 DEF RedisFollows
  <1>11. MemoryFollows'
    <2>1. ASSUME NEW i \in Instances, NEW k \in Keys
          PROVE  \/ Agrees(memory[i][k], row)'
                 \/ job'[r].at = i /\ WillRefresh(job[r], k)'
      <3>1. CASE i = job[r].at
        BY <1>3, <1>9, <3>1
      <3>2. CASE i # job[r].at
        BY <1>6, <3>2 DEF Agrees, Spent
      <3>3. QED
        BY <3>1, <3>2
    <2>2. QED
      BY <2>1 DEF MemoryFollows
  <1>12. ErasureInv' /\ IndexFollows'
    <2>1. ~Doomed'
      BY <1>2, <1>5 DEF JobsOk, JobOk, SegmentOnly, Doomed, At
    <2>2. QED
      BY <1>2, <2>1 DEF ErasureInv, IndexFollows
  <1>13. QED
    BY <1>5, <1>7, <1>8, <1>10, <1>11, <1>12 DEF CacheInv

(* The row of a new entity appears while nothing is cached.                  *)
LEMMA NewRowKeeps ==
    ASSUME CacheInv, NEW r \in Requests, job[r].pc \in Creating,
           NEW pc \in {"setId", "cache"}, NEW v \in CacheValues,
           pc = "setId" <=> kind = "link", kind = "segment" => v \in Segments,
           row' = v,
           job' = [job EXCEPT ![r].pc = pc, ![r].copy = v],
           UNCHANGED <<kind, redis, memory, index, gap, started>>
    PROVE  CacheInv'
  <1>1. CacheTypes /\ JobOk(job[r]) /\ job[r] \in JobRecords
    BY DEF CacheInv, CacheTypes, JobsOk
  <1>2. job[r].pc # "idle" /\ job[r].at \in Instances /\ job[r].op = "create"
    BY <1>1 DEF JobOk, Creating
  <1>0. pc \in JobPhases /\ v \in {None} \cup CacheValues
    BY PhaseNames
  <1>3. /\ Turned(r)
        /\ job'[r].pc = pc /\ job'[r].copy = v
        /\ job'[r].op = job[r].op /\ job'[r].at = job[r].at /\ job'[r].key = job[r].key
    BY <1>0, <1>1, CarryTurns
  <1>4. JobOk(job'[r])
    BY <1>1, <1>2, <1>3, Placeholders
       DEF JobOk, CacheTypes, SegmentOnly, LinkOnly, Carriers, LookingUp, Creating
  <1>5. JobsOk'
    BY <1>3, <1>4, JobsStayOk
  <1>6. NothingCached
    BY DEF CacheInv, CreationInv
  <1>7. CacheTypes' /\ SegmentShape'
    BY <1>1, <1>3 DEF CacheInv, CacheTypes, SegmentShape, Turned
  <1>8. CreationInv'
    <2>1. started # 0
      BY <1>2 DEF CacheInv, CreationInv, Idle
    <2>2. \A q \in Requests : job'[q].op = job[q].op
      BY <1>3 DEF Turned
    <2>3. ASSUME NEW q \in Requests  PROVE job'[q].pc \notin Creating
      <3>1. CASE q = r
        BY <1>3, <3>1 DEF Creating
      <3>2. CASE q # r
        <4>1. job[q].op # "create"
          BY <1>2, <3>2 DEF CacheInv, CreationInv
        <4>2. QED
          BY <1>3, <3>2, <4>1 DEF Turned, CacheInv, JobsOk, JobOk
      <3>3. QED
        BY <3>1, <3>2
    <2>4. \A q, s \in Requests : job'[q].op = "create" /\ job'[s].op = "create" => q = s
      BY <2>2 DEF CacheInv, CreationInv
    <2>5. QED
      BY <2>1, <2>3, <2>4 DEF CreationInv
  <1>9. RedisFollows' /\ MemoryFollows'
    BY <1>6, Placeholders DEF NothingCached, RedisFollows, MemoryFollows, Agrees, Spent
  <1>10. ErasureInv'
    BY <1>6 DEF NothingCached, ErasureInv, Spent
  <1>11. IndexFollows'
    BY <1>2, <1>3 DEF IndexFollows
  <1>12. QED
    BY <1>5, <1>7, <1>8, <1>9, <1>10, <1>11 DEF CacheInv

-----------------------------------------------------------------------------
(* A process ends: its memory and its requests with it.                      *)
LEMMA ProcessDiesKeeps ==
    ASSUME CacheInv, NEW r \in Requests, job[r].pc # "idle", Crash(r),
           UNCHANGED <<kind, started>>
    PROVE  CacheInv'
  <1> DEFINE i == job[r].at
  <1>1. CacheTypes /\ JobOk(job[r])
    BY DEF CacheInv, JobsOk
  <1>2. i \in Instances
    BY <1>1 DEF JobOk
  <1>3. row' = row /\ index' = index /\ kind' = kind /\ started' = started
    BY DEF Crash
  <1>4. /\ job' \in [Requests -> JobRecords]
        /\ \A q \in Requests : job'[q] = IF job[q].at = i THEN Idle ELSE job[q]
    BY <1>1, Placeholders DEF Crash, CacheTypes
  <1>5. /\ memory' \in [Instances -> [Keys -> CacheEntries]]
        /\ \A k \in Keys : memory'[i][k] = None
        /\ \A j \in Instances \ {i} : memory'[j] = memory[j]
    BY <1>1, <1>2 DEF Crash, CacheTypes, CacheEntries
  <1>6. /\ redis' \in [Keys -> CacheEntries]
        /\ \A k \in Keys :
             /\ Agrees(redis'[k], row)
             /\ Spent(redis[k]) => Spent(redis'[k])
             /\ redis[k] = None => redis'[k] = None
    BY <1>1, MarkAllAgrees DEF Crash, CacheTypes
  <1>7. gap' \in BOOLEAN /\ (index # {} => gap')
    BY DEF Crash
  <1> HIDE DEF i
  <1>8. CacheTypes' /\ SegmentShape'
    <2>1. CacheTypes'
      BY <1>1, <1>3, <1>4, <1>5, <1>6, <1>7 DEF CacheTypes
    <2>2. SegmentShape'
      BY <1>3, <1>5, <1>6 DEF CacheInv, SegmentShape, Keys
    <2>3. QED
      BY <2>1, <2>2
  <1>9. JobsOk'
    <2>1. \A q \in Requests : JobOk(job'[q])
      BY <1>4, IdleIsOk DEF CacheInv, JobsOk
    <2>2. \A q \in Requests : JobOk(job'[q]) <=> JobOk(job[q])'
      BY <1>3 DEF JobOk, Idle
    <2>3. QED
      BY <2>1, <2>2 DEF JobsOk
  <1>10. CreationInv'
    <2>1. started # 0
      BY DEF CacheInv, CreationInv, Idle
    <2>2. \A q \in Requests : job'[q].op = "create" => job[q].op = "create"
      BY <1>4, IdleIsOk
    <2>3. ASSUME NEW q \in Requests, job'[q].pc \in Creating
          PROVE  row' = None /\ NothingCached' /\ \A s \in Requests : job'[s].copy = None
      <3>1. job[q].pc \in Creating
        BY <1>4, <2>3, IdleIsOk DEF Creating
      <3>2. row = None /\ NothingCached /\ \A s \in Requests : job[s].copy = None
        BY <3>1 DEF CacheInv, CreationInv
      <3>3. NothingCached'
        <4>1. \A k \in Keys : redis'[k] = None
          BY <1>6, <3>2 DEF NothingCached
        <4>2. \A j \in Instances, k \in Keys : memory'[j][k] = None
          BY <1>5, <3>2 DEF NothingCached
        <4>3. QED
          BY <4>1, <4>2 DEF NothingCached
      <3>4. QED
        BY <1>3, <1>4, <3>2, <3>3, IdleIsOk
    <2>4. QED
      BY <1>3, <2>1, <2>2, <2>3 DEF CacheInv, CreationInv
  <1>11. RedisFollows'
    BY <1>3, <1>6 DEF RedisFollows, Agrees, Spent
  <1>12. MemoryFollows'
    <2>1. ASSUME NEW j \in Instances, NEW k \in Keys
          PROVE  \/ Agrees(memory'[j][k], row)
                 \/ \E q \in Requests : job'[q].at = j /\ WillRefresh(job'[q], k)
      <3>1. CASE j = i
        BY <1>5, <3>1 DEF Agrees, Spent
      <3>2. CASE j # i
        BY <1>4, <1>5, <3>2 DEF CacheInv, MemoryFollows
      <3>3. QED
        BY <3>1, <3>2
    <2>2. QED
      BY <1>3, <2>1 DEF MemoryFollows, Agrees, Spent, WillRefresh
  <1>13. ErasureInv'
    <2>1. Doomed' => Doomed
      BY <1>4, IdleIsOk DEF Doomed, At
    <2>2. QED
      BY <1>6, <2>1 DEF CacheInv, ErasureInv, Spent
  <1>14. IndexFollows'
    BY <1>3, <1>7 DEF IndexFollows
  <1>15. QED
    BY <1>8, <1>9, <1>10, <1>11, <1>12, <1>13, <1>14 DEF CacheInv

-----------------------------------------------------------------------------
(* Short links: the steps of an invalidation and of a creation.              *)

(* What is left after a failed invalidation is marked.                       *)
LEMMA MarkedKeeps ==
    ASSUME CacheInv, NEW r \in Requests, job[r].pc \in {"dropCode", "dropId"},
           GiveUp(r), Finish(r), UNCHANGED <<kind, row, index, gap, started>>
    PROVE  CacheInv'
  <1>1. CacheTypes /\ JobOk(job[r])
    BY DEF CacheInv, JobsOk
  <1>2. kind = "link" /\ job[r].at \in Instances
    BY <1>1 DEF JobOk, CacheTypes, LinkOnly
  <1>3. Turned(r) /\ job'[r] = Idle
    BY <1>1, FinishTurns
  <1> DEFINE i == job[r].at
             m == MarkAll(memory[i], row)
  <1>4. /\ redis' \in [Keys -> CacheEntries]
        /\ \A k \in Keys :
             /\ Agrees(redis'[k], row)
             /\ Spent(redis[k]) => Spent(redis'[k])
             /\ redis[k] = None => redis'[k] = None
    BY <1>1, MarkAllAgrees DEF GiveUp, CacheTypes
  <1>5. /\ m \in [Keys -> CacheEntries]
        /\ \A k \in Keys : Agrees(m[k], row) /\ (memory[i][k] = None => m[k] = None)
    BY <1>1, <1>2, MarkAllAgrees DEF CacheTypes
  <1>6. memory' = [memory EXCEPT ![i] = m]
    BY DEF GiveUp
  <1> HIDE DEF m
  <1>7. /\ memory' \in [Instances -> [Keys -> CacheEntries]]
        /\ memory'[i] = m
        /\ \A j \in Instances \ {i} : memory'[j] = memory[j]
    BY <1>1, <1>2, <1>5, <1>6 DEF CacheTypes
  <1> HIDE DEF i
  <1>8. CachesTyped
    BY <1>1, <1>4, <1>7 DEF CacheTypes, CachesTyped
  <1>9. RedisKept(r)
    BY <1>4 DEF RedisKept
  <1>10. MemoryKept(r)
    <2>1. ASSUME NEW j \in Instances, NEW k \in Keys
          PROVE  \/ Agrees(memory'[j][k], row)
                 \/ memory'[j][k] = memory[j][k] /\ job[r].at # j
      BY <1>5, <1>7 DEF i
    <2>2. QED
      BY <2>1 DEF MemoryKept
  <1>11. Bare => NothingCached'
    <2>1. ASSUME Bare, NEW j \in Instances, NEW k \in Keys  PROVE memory'[j][k] = None
      BY <1>2, <1>5, <1>7, <2>1 DEF i, Bare, NothingCached
    <2>2. QED
      BY <1>4, <2>1 DEF Bare, NothingCached
  <1>12. IndexKept(r)
    BY <1>2 DEF IndexKept
  <1>13. Doomed => \A k \in Keys : Spent(redis'[k])
    BY <1>4 DEF CacheInv, ErasureInv
  <1>14. Gentle(r)
    BY <1>2, <1>3, <1>8, <1>9, <1>10, <1>11, <1>12, <1>13, IdleIsOk DEF Gentle, Creating
  <1>15. QED
    BY <1>14, GentleKeeps

LEMMA InvalidationFailsKeeps ==
    ASSUME CacheInv, NEW r \in Requests, job[r].pc \in {"dropCode", "dropId"},
           InvalidationFails(r), UNCHANGED <<kind, started>>
    PROVE  CacheInv'
  <1>1. CASE job[r].pass = 1
    BY <1>1, MarkedKeeps DEF InvalidationFails
  <1>2. CASE job[r].pass # 1
    BY <1>2, ProcessDiesKeeps DEF InvalidationFails
  <1>3. QED
    BY <1>1, <1>2

LEMMA FindCodeKeeps ==
    ASSUME CacheInv, NEW r \in Requests, FindCode(r)
    PROVE  CacheInv'
  <1>1. CacheTypes /\ JobOk(job[r]) /\ job[r] \in JobRecords
    BY DEF CacheInv, CacheTypes, JobsOk
  <1>2. job[r].pc = "find" /\ UNCHANGED <<kind, row, index, gap, started>>
    BY DEF FindCode, At
  <1>3. kind = "link" /\ job[r].at \in Instances
    BY <1>1, <1>2 DEF JobOk, CacheTypes, LinkOnly
  <1>4. ASSUME NEW pc \in {"dropId", "dropCode"}, Goto(r, pc)
        PROVE  /\ Turned(r) /\ JobOk(job'[r]) /\ job'[r].pc = pc
               /\ Alike(job'[r], job[r])
    <2>1. Turned(r) /\ job'[r].pc = pc /\ Alike(job'[r], job[r])
      BY <1>1, <1>4, GotoTurns, PhaseNames
    <2>2. JobOk(job'[r])
      BY <1>1, <1>2, <1>3, <2>1
         DEF JobOk, Alike, SegmentOnly, LinkOnly, Carriers, LookingUp, Creating
    <2>3. QED
      BY <2>1, <2>2
  <1>5. ~StillLists(job[r])
    BY <1>2 DEF StillLists
  <1>6. CASE row # None
    <2>1. Goto(r, "dropCode") /\ UNCHANGED <<redis, memory>>
      BY <1>6 DEF FindCode
    <2>2. /\ Turned(r) /\ JobOk(job'[r]) /\ job'[r].pc = "dropCode"
          /\ Alike(job'[r], job[r])
      BY <1>4, <2>1
    <2>3. \A k \in Keys : WillRefresh(job'[r], k)
      BY <2>2 DEF WillRefresh
    <2>4. QED
      BY <1>2, <1>5, <2>1, <2>2, <2>3, QuietlyKeeps DEF Alike, Creating, Bare
  <1>7. CASE row = None
    <2> DEFINE i == job[r].at
               m == Mark(memory[i]["code"], None)
               e == Mark(redis["code"], None)
    <2>1. Goto(r, "dropId")
      BY <1>7 DEF FindCode
    <2>2. /\ Turned(r) /\ JobOk(job'[r]) /\ job'[r].pc = "dropId"
          /\ Alike(job'[r], job[r])
      BY <1>4, <2>1
    <2>3. /\ e \in CacheEntries /\ Spent(e)
          /\ redis["code"] = None => e = None
      BY <1>1, MarkAgrees, Placeholders DEF CacheTypes, Keys
    <2>4. /\ m \in CacheEntries /\ Spent(m)
          /\ memory[i]["code"] = None => m = None
      BY <1>1, <1>3, MarkAgrees, Placeholders DEF CacheTypes, Keys
    <2>5. redis' = [redis EXCEPT !["code"] = e]
      BY <1>7 DEF FindCode
    <2>6. memory' = [memory EXCEPT ![i]["code"] = m]
      BY <1>7 DEF FindCode
    <2> HIDE DEF m, e
    <2>7. /\ redis' \in [Keys -> CacheEntries] /\ redis'["code"] = e
          /\ redis'["id"] = redis["id"]
      BY <1>1, <2>3, <2>5 DEF CacheTypes, Keys
    <2>8. /\ memory' \in [Instances -> [Keys -> CacheEntries]]
          /\ memory'[i]["code"] = m /\ memory'[i]["id"] = memory[i]["id"]
          /\ \A j \in Instances \ {i} : memory'[j] = memory[j]
      BY <1>1, <1>3, <2>4, <2>6 DEF CacheTypes, Keys
    <2> HIDE DEF i
    <2>9. CachesTyped
      BY <1>1, <1>2, <2>7, <2>8 DEF CacheTypes, CachesTyped
    <2>10. WillRefresh(job'[r], "id")
      BY <2>2 DEF WillRefresh
    <2>11. RedisKept(r)
      BY <2>3, <2>7, <2>10 DEF RedisKept, Agrees, Keys
    <2>12. MemoryKept(r)
      <3>1. ASSUME NEW j \in Instances, NEW k \in Keys
            PROVE  \/ Agrees(memory'[j][k], row)
                   \/ /\ memory'[j][k] = memory[j][k]
                      /\ job[r].at = j => job'[r].at = j /\ WillRefresh(job'[r], k)
        <4>1. CASE j # i
          BY <2>8, <4>1 DEF i
        <4>2. CASE j = i /\ k = "code"
          BY <2>4, <2>8, <4>2 DEF Agrees
        <4>3. CASE j = i /\ k = "id"
          BY <2>2, <2>8, <2>10, <4>3 DEF Alike
        <4>4. QED
          BY <4>1, <4>2, <4>3 DEF Keys
      <3>2. QED
        BY <3>1 DEF MemoryKept
    <2>13. Bare => NothingCached'
      <3>1. ASSUME Bare, NEW j \in Instances, NEW k \in Keys  PROVE memory'[j][k] = None
        BY <1>3, <2>4, <2>8, <3>1 DEF i, Bare, NothingCached, Keys
      <3>2. Bare => \A k \in Keys : redis'[k] = None
        BY <2>3, <2>7 DEF Bare, NothingCached, Keys
      <3>3. QED
        BY <3>1, <3>2 DEF NothingCached
    <2>14. IndexKept(r)
      BY <1>3 DEF IndexKept
    <2>15. Doomed => \A k \in Keys : Spent(redis'[k])
      BY <2>3, <2>7 DEF CacheInv, ErasureInv, Keys
    <2>16. Gentle(r)
      BY <1>2, <1>3, <2>2, <2>9, <2>11, <2>12, <2>13, <2>14, <2>15
         DEF Gentle, Creating, Alike, Bare
    <2>17. QED
      BY <2>16, GentleKeeps
  <1>8. QED
    BY <1>6, <1>7

(* DEL, and the memory of the process that runs the request.                 *)
LEMMA ForgetIs ==
    ASSUME CacheInv, NEW r \in Requests, job[r].at \in Instances, NEW key \in Keys,
           Forget(r, key), gap' \in BOOLEAN,
           \A k \in Keys \ {key} :
              WillRefresh(job[r], k)
                 => WillRefresh(job'[r], k) /\ job'[r].at = job[r].at
    PROVE  /\ CachesTyped
           /\ kind = "segment" =>
                redis'["code"] = None /\ \A i \in Instances, k \in Keys : memory'[i][k] = None
           /\ Bare => NothingCached'
           /\ RedisKept(r) /\ MemoryKept(r)
           /\ Doomed => \A k \in Keys : Spent(redis'[k])
  <1> DEFINE i == job[r].at
  <1>1. /\ redis' \in [Keys -> CacheEntries] /\ redis'[key] = None
        /\ \A k \in Keys \ {key} : redis'[k] = redis[k]
    BY DEF Forget, CacheInv, CacheTypes, CacheEntries
  <1>2. /\ memory' \in [Instances -> [Keys -> CacheEntries]] /\ memory'[i][key] = None
        /\ \A j \in Instances, k \in Keys : j # i \/ k # key => memory'[j][k] = memory[j][k]
    BY DEF Forget, CacheInv, CacheTypes, CacheEntries
  <1> HIDE DEF i
  <1>3. CachesTyped
    BY <1>1, <1>2 DEF CachesTyped
  <1>4. \A j \in Instances, k \in Keys : memory'[j][k] = None \/ memory'[j][k] = memory[j][k]
    BY <1>2
  <1>5. \A k \in Keys : redis'[k] = None \/ redis'[k] = redis[k]
    BY <1>1
  <1>6. kind = "segment" =>
          redis'["code"] = None /\ \A j \in Instances, k \in Keys : memory'[j][k] = None
    BY <1>4, <1>5 DEF CacheInv, SegmentShape, Keys
  <1>7. Bare => NothingCached'
    BY <1>4, <1>5 DEF Bare, NothingCached
  <1>8. RedisKept(r)
    BY <1>1 DEF RedisKept, Agrees, Spent
  <1>9. MemoryKept(r)
    <2>1. ASSUME NEW j \in Instances, NEW k \in Keys
          PROVE  \/ Agrees(memory'[j][k], row)
                 \/ /\ memory'[j][k] = memory[j][k]
                    /\ job[r].at = j /\ WillRefresh(job[r], k)
                         => job'[r].at = j /\ WillRefresh(job'[r], k)
      <3>1. CASE j = i /\ k = key
        BY <1>2, <3>1 DEF Agrees, Spent
      <3>2. CASE j # i
        BY <1>2, <3>2 DEF i
      <3>3. CASE j = i /\ k # key
        BY <1>2, <3>3 DEF i
      <3>4. QED
        BY <3>1, <3>2, <3>3
    <2>2. QED
      BY <2>1 DEF MemoryKept
  <1>10. Doomed => \A k \in Keys : Spent(redis'[k])
    BY <1>5 DEF CacheInv, ErasureInv, Spent
  <1>11. QED
    BY <1>3, <1>6, <1>7, <1>8, <1>9, <1>10

LEMMA DropCodeKeeps ==
    ASSUME CacheInv, NEW r \in Requests, DropCode(r)
    PROVE  CacheInv'
  <1>1. CacheTypes /\ JobOk(job[r]) /\ job[r] \in JobRecords
    BY DEF CacheInv, CacheTypes, JobsOk
  <1>2. job[r].pc = "dropCode" /\ UNCHANGED <<kind, started>>
    BY DEF DropCode, At
  <1>3. kind = "link" /\ job[r].at \in Instances
    BY <1>1, <1>2 DEF JobOk, CacheTypes, LinkOnly
  <1>4. CASE Forget(r, "code") /\ Goto(r, "dropId") /\ UNCHANGED <<row, index, gap, callFaults>>
    <2>1. Turned(r) /\ job'[r].pc = "dropId" /\ Alike(job'[r], job[r])
      BY <1>1, <1>4, GotoTurns, PhaseNames
    <2>2. JobOk(job'[r])
      BY <1>1, <1>2, <1>3, <2>1
         DEF JobOk, Alike, SegmentOnly, LinkOnly, Carriers, LookingUp, Creating
    <2>3. \A k \in Keys \ {"code"} :
             WillRefresh(job[r], k) => WillRefresh(job'[r], k) /\ job'[r].at = job[r].at
      BY <2>1 DEF WillRefresh, Alike, Keys
    <2>4. gap' \in BOOLEAN /\ "code" \in Keys
      BY <1>1, <1>4 DEF CacheTypes, Keys
    <2>5. /\ CachesTyped
          /\ Bare => NothingCached'
          /\ RedisKept(r) /\ MemoryKept(r)
          /\ Doomed => \A k \in Keys : Spent(redis'[k])
      BY <1>3, <1>4, <2>3, <2>4, ForgetIs
    <2>6. Gentle(r)
      BY <1>2, <1>3, <1>4, <2>1, <2>2, <2>5 DEF Gentle, Creating, Alike, Bare, IndexKept
    <2>7. QED
      BY <2>6, GentleKeeps
  <1>5. CASE InvalidationFails(r)
    BY <1>2, <1>5, InvalidationFailsKeeps
  <1>6. QED
    BY <1>4, <1>5 DEF DropCode

LEMMA DropIdKeeps ==
    ASSUME CacheInv, NEW r \in Requests, DropId(r)
    PROVE  CacheInv'
  <1>1. CacheTypes /\ JobOk(job[r]) /\ job[r] \in JobRecords
    BY DEF CacheInv, CacheTypes, JobsOk
  <1>2. job[r].pc = "dropId" /\ UNCHANGED <<kind, started>>
    BY DEF DropId, At
  <1>3. kind = "link" /\ job[r].at \in Instances
    BY <1>1, <1>2 DEF JobOk, CacheTypes, LinkOnly
  <1>4. CASE InvalidationFails(r)
    BY <1>2, <1>4, InvalidationFailsKeeps
  <1>5. CASE /\ Forget(r, "id")
             /\ Unlist
             /\ IF job[r].pass = 1
                THEN job' = [job EXCEPT ![r].pc = "find", ![r].pass = 2]
                ELSE Finish(r)
             /\ UNCHANGED <<row, callFaults>>
    <2>1. /\ Turned(r) /\ JobOk(job'[r]) /\ job'[r].op \in {"none", job[r].op}
          /\ job'[r].pc \in {"idle", "find"}
          /\ job'[r].copy \in {None, job[r].copy}
      <3>1. CASE job[r].pass = 1
        <4> DEFINE n == [job[r] EXCEPT !.pc = "find", !.pass = 2]
        <4>1. job \in [Requests -> JobRecords]
          BY <1>1 DEF CacheTypes
        <4>2. n \in JobRecords /\ n.pc = "find" /\ n.op = job[r].op /\ n.at = job[r].at
              /\ n.copy = job[r].copy
          BY <1>1, PhaseNames DEF JobRecords
        <4>3. job' = [job EXCEPT ![r] = n]
          BY <1>5, <3>1, <4>1
        <4> HIDE DEF n
        <4>4. Turned(r) /\ job'[r] = n
          BY <4>1, <4>2, <4>3 DEF Turned
        <4>5. JobOk(n)
          BY <1>3, <4>2 DEF JobOk, SegmentOnly, LinkOnly, Carriers, LookingUp, Creating
        <4>6. QED
          BY <4>2, <4>4, <4>5
      <3>2. CASE job[r].pass # 1
        BY <1>1, <1>5, <3>2, FinishTurns, IdleIsOk
      <3>3. QED
        BY <3>1, <3>2
    <2>2. \A k \in Keys \ {"id"} : ~WillRefresh(job[r], k)
      BY <1>2 DEF WillRefresh, Keys
    <2>3. gap' \in BOOLEAN /\ "id" \in Keys
      BY <1>1, <1>5 DEF CacheTypes, Keys, Unlist
    <2>4. /\ CachesTyped
          /\ Bare => NothingCached'
          /\ RedisKept(r) /\ MemoryKept(r)
          /\ Doomed => \A k \in Keys : Spent(redis'[k])
      BY <1>3, <1>5, <2>2, <2>3, ForgetIs
    <2>5. Gentle(r)
      BY <1>2, <1>3, <1>5, <2>1, <2>4 DEF Gentle, Creating, Bare, IndexKept
    <2>6. QED
      BY <2>5, GentleKeeps
  <1>6. QED
    BY <1>4, <1>5 DEF DropId

LEMMA SetIdKeeps ==
    ASSUME CacheInv, NEW r \in Requests, SetId(r)
    PROVE  CacheInv'
  <1>1. CacheTypes /\ JobOk(job[r]) /\ job[r] \in JobRecords
    BY DEF CacheInv, CacheTypes, JobsOk
  <1>2. job[r].pc = "setId" /\ UNCHANGED <<kind, row, memory, index, gap, started>>
    BY DEF SetId, At
  <1>3. kind = "link" /\ job[r].at \in Instances /\ job[r].copy \in CacheValues /\ ~Bare
    BY <1>1, <1>2 DEF JobOk, CacheTypes, LinkOnly, Carriers, JobRecords, Bare
  <1>4. Turned(r) /\ job'[r].pc = "keepId" /\ Alike(job'[r], job[r])
    BY <1>1, GotoTurns, PhaseNames DEF SetId
  <1>5. JobOk(job'[r])
    BY <1>1, <1>2, <1>3, <1>4
       DEF JobOk, Alike, SegmentOnly, LinkOnly, Carriers, LookingUp, Creating
  <1>6. ~StillLists(job[r]) /\ \A k \in Keys : ~WillRefresh(job[r], k)
    BY <1>2 DEF StillLists, WillRefresh
  <1>7. CASE redis' = [redis EXCEPT !["id"] = Entry(job[r].copy)]
    <2>1. /\ CachesTyped
          /\ \A k \in Keys : Agrees(redis'[k], row) \/ redis'[k] = redis[k]
          /\ Doomed => \A k \in Keys : Spent(redis'[k])
      BY <1>2, <1>3, <1>7, WrittenToRedis DEF Keys
    <2>2. RedisKept(r) /\ MemoryKept(r) /\ IndexKept(r)
      BY <1>2, <1>3, <1>6, <2>1 DEF RedisKept, MemoryKept, IndexKept
    <2>3. Gentle(r)
      BY <1>2, <1>3, <1>4, <1>5, <2>1, <2>2 DEF Gentle, Creating, Alike
    <2>4. QED
      BY <2>3, GentleKeeps
  <1>8. CASE UNCHANGED redis
    BY <1>2, <1>3, <1>4, <1>5, <1>6, <1>8, QuietlyKeeps DEF Creating, Alike
  <1>9. QED
    BY <1>7, <1>8 DEF SetId

LEMMA SetCodeKeeps ==
    ASSUME CacheInv, NEW r \in Requests, SetCode(r)
    PROVE  CacheInv'
  <1>1. CacheTypes /\ JobOk(job[r]) /\ job[r] \in JobRecords
    BY DEF CacheInv, CacheTypes, JobsOk
  <1>2. job[r].pc = "setCode" /\ UNCHANGED <<kind, row, memory, index, gap, started>>
    BY DEF SetCode, At
  <1>3. kind = "link" /\ job[r].at \in Instances /\ job[r].copy \in CacheValues /\ ~Bare
    BY <1>1, <1>2 DEF JobOk, CacheTypes, LinkOnly, Carriers, JobRecords, Bare
  <1>4. ~StillLists(job[r]) /\ \A k \in Keys : ~WillRefresh(job[r], k)
    BY <1>2 DEF StillLists, WillRefresh
  <1>5. CASE redis' = [redis EXCEPT !["code"] = Entry(job[r].copy)] /\ Goto(r, "keepCode")
    <2>1. Turned(r) /\ job'[r].pc = "keepCode" /\ Alike(job'[r], job[r])
      BY <1>1, <1>5, GotoTurns, PhaseNames
    <2>2. JobOk(job'[r])
      BY <1>1, <1>2, <1>3, <2>1
         DEF JobOk, Alike, SegmentOnly, LinkOnly, Carriers, LookingUp, Creating
    <2>3. /\ CachesTyped
          /\ \A k \in Keys : Agrees(redis'[k], row) \/ redis'[k] = redis[k]
          /\ Doomed => \A k \in Keys : Spent(redis'[k])
      BY <1>2, <1>3, <1>5, WrittenToRedis DEF Keys
    <2>4. RedisKept(r) /\ MemoryKept(r) /\ IndexKept(r)
      BY <1>2, <1>3, <1>4, <2>3 DEF RedisKept, MemoryKept, IndexKept
    <2>5. Gentle(r)
      BY <1>2, <1>3, <2>1, <2>2, <2>3, <2>4 DEF Gentle, Creating, Alike
    <2>6. QED
      BY <2>5, GentleKeeps
  <1>6. CASE Finish(r) /\ UNCHANGED redis
    <2>1. Turned(r) /\ job'[r] = Idle
      BY <1>1, <1>6, FinishTurns
    <2>2. QED
      BY <1>2, <1>3, <1>4, <1>6, <2>1, IdleIsOk, QuietlyKeeps DEF Creating
  <1>7. QED
    BY <1>5, <1>6 DEF SetCode

(* What create() keeps in the memory of its process.                         *)
LEMMA KeptNewKeeps ==
    ASSUME CacheInv, NEW r \in Requests, job[r].pc \in {"keepId", "keepCode"},
           NEW key \in Keys,
           memory' = [memory EXCEPT ![job[r].at][key] = Entry(job[r].copy)],
           Turned(r), JobOk(job'[r]), job'[r].op = job[r].op,
           job'[r].pc \in {"setCode", "announce"},
           UNCHANGED <<kind, row, redis, gap, started>>
    PROVE  CacheInv'
  <1>1. CacheTypes /\ JobOk(job[r]) /\ job[r] \in JobRecords
    BY DEF CacheInv, CacheTypes, JobsOk
  <1>2. kind = "link" /\ job[r].at \in Instances /\ job[r].copy \in CacheValues /\ ~Bare
    BY <1>1 DEF JobOk, CacheTypes, LinkOnly, Carriers, JobRecords, Bare
  <1>3. \A k \in Keys : ~WillRefresh(job[r], k)
    BY DEF WillRefresh
  <1>4. /\ CachesTyped
        /\ \A j \in Instances, k \in Keys :
              Agrees(memory'[j][k], row) \/ memory'[j][k] = memory[j][k]
        /\ Doomed => \A k \in Keys : Spent(redis'[k])
    BY <1>2, WrittenToMemory
  <1>5. RedisKept(r) /\ MemoryKept(r) /\ IndexKept(r)
    BY <1>2, <1>3, <1>4 DEF RedisKept, MemoryKept, IndexKept
  <1>6. Gentle(r)
    BY <1>2, <1>4, <1>5 DEF Gentle, Creating
  <1>7. QED
    BY <1>6, GentleKeeps

LEMMA KeepIdKeeps ==
    ASSUME CacheInv, NEW r \in Requests, KeepId(r)
    PROVE  CacheInv'
  <1>1. CacheTypes /\ JobOk(job[r]) /\ job[r] \in JobRecords
    BY DEF CacheInv, CacheTypes, JobsOk
  <1>2. job[r].pc = "keepId"
    BY DEF KeepId, At
  <1>3. Turned(r) /\ job'[r].pc = "setCode" /\ Alike(job'[r], job[r])
    BY <1>1, GotoTurns, PhaseNames DEF KeepId
  <1>4. JobOk(job'[r])
    BY <1>1, <1>2, <1>3
       DEF JobOk, Alike, SegmentOnly, LinkOnly, Carriers, LookingUp, Creating
  <1>5. QED
    BY <1>2, <1>3, <1>4, KeptNewKeeps DEF KeepId, Keys, Alike

LEMMA KeepCodeKeeps ==
    ASSUME CacheInv, NEW r \in Requests, KeepCode(r)
    PROVE  CacheInv'
  <1>1. CacheTypes /\ JobOk(job[r]) /\ job[r] \in JobRecords
    BY DEF CacheInv, CacheTypes, JobsOk
  <1>2. job[r].pc = "keepCode"
    BY DEF KeepCode, At
  <1>3. /\ Turned(r)
        /\ job'[r].pc = "announce" /\ job'[r].copy = None
        /\ job'[r].op = job[r].op /\ job'[r].at = job[r].at /\ job'[r].key = job[r].key
    BY <1>1, CarryTurns, PhaseNames DEF KeepCode
  <1>4. JobOk(job'[r])
    BY <1>1, <1>2, <1>3
       DEF JobOk, SegmentOnly, LinkOnly, Carriers, LookingUp, Creating
  <1>5. QED
    BY <1>2, <1>3, <1>4, KeptNewKeeps DEF KeepCode, Keys

LEMMA LinkStepKeeps ==
    ASSUME CacheInv, NEW r \in Requests, LinkStep(r)
    PROVE  CacheInv'
  <1>1. CASE SaveLink(r)
    <2>1. row' \in {None} \cup Contents
      BY <1>1 DEF SaveLink
    <2>2. QED
      BY <1>1, <2>1, LinkRowKeeps DEF SaveLink, At
  <1>2. CASE RemoveLink(r)
    BY <1>2, LinkRowKeeps DEF RemoveLink, At
  <1>3. CASE Insert(r)
    <2>1. job[r].pc = "insert" /\ kind = "link"
      BY <1>3 DEF Insert, At, CacheInv, JobsOk, JobOk, LinkOnly, CacheTypes
    <2>2. NewLink \in CacheValues
      BY Placeholders DEF CacheValues
    <2>3. QED
      BY <1>3, <2>1, <2>2, NewRowKeeps DEF Insert, Creating
  <1>4. QED
    BY <1>1, <1>2, <1>3, FindCodeKeeps, DropCodeKeeps, DropIdKeeps, SetIdKeeps,
       KeepIdKeeps, SetCodeKeeps, KeepCodeKeeps DEF LinkStep

-----------------------------------------------------------------------------
(* Segments: the steps after which the row is another one.                   *)
LEMMA EditKeeps ==
    ASSUME CacheInv, NEW r \in Requests, job[r].pc \in {"update", "compute"},
           NEW pc \in {"reread", "drop"}, NEW v \in Segments, UpdateRow(v),
           job' = [job EXCEPT ![r].pc = pc, ![r].copy = None],
           UNCHANGED <<kind, redis, memory, index, gap, started>>
    PROVE  CacheInv'
  <1>1. CacheTypes /\ JobOk(job[r]) /\ job[r] \in JobRecords
    BY DEF CacheInv, CacheTypes, JobsOk
  <1>2. kind = "segment" /\ job[r].at \in Instances
    BY <1>1 DEF JobOk, CacheTypes, SegmentOnly
  <1>0. pc \in JobPhases /\ None \in {None} \cup CacheValues
    BY PhaseNames
  <1>3. /\ Turned(r)
        /\ job'[r].pc = pc /\ job'[r].copy = None
        /\ job'[r].op = job[r].op /\ job'[r].at = job[r].at /\ job'[r].key = job[r].key
    BY <1>0, <1>1, CarryTurns
  <1>4. JobOk(job'[r])
    BY <1>1, <1>2, <1>3 DEF JobOk, SegmentOnly, LinkOnly, Carriers, LookingUp, Creating
  <1>5. JobsOk'
    BY <1>3, <1>4, JobsStayOk
  <1>6. /\ row' \in {None} \cup Segments
        /\ row' = None <=> row = None
    BY Placeholders DEF UpdateRow, CacheValues
  <1>7. CacheTypes' /\ SegmentShape'
    BY <1>1, <1>3, <1>6 DEF CacheInv, CacheTypes, SegmentShape, CacheValues, Turned
  <1>8. CreationInv'
    <2>1. started # 0
      BY <1>2 DEF CacheInv, CreationInv, Idle
    <2>2. \A q \in Requests :
             /\ job'[q].op = job[q].op
             /\ job'[q].copy \in {None, job[q].copy}
             /\ job'[q].pc \in Creating => job[q].pc \in Creating
      BY <1>3 DEF Turned, Creating
    <2>3. QED
      <3>1. \A p, q \in Requests : job'[p].op = "create" /\ job'[q].op = "create" => p = q
        BY <2>2 DEF CacheInv, CreationInv
      <3>2. ASSUME NEW q \in Requests, job'[q].pc \in Creating
            PROVE  row' = None /\ NothingCached' /\ \A p \in Requests : job'[p].copy = None
        <4>1. row = None /\ NothingCached /\ \A p \in Requests : job[p].copy = None
          BY <2>2, <3>2 DEF CacheInv, CreationInv
        <4>2. NothingCached'
          BY <4>1 DEF NothingCached
        <4>3. QED
          BY <1>6, <2>2, <4>1, <4>2
      <3>3. QED
        BY <2>1, <3>1, <3>2 DEF CreationInv
  <1>9. WillRefresh(job[r], "id")'
    BY <1>3 DEF WillRefresh
  <1>10. RedisFollows'
    <2>1. Agrees(redis["code"], row)'
      BY <1>7, <1>2 DEF SegmentShape, Agrees, Spent
    <2>2. row' = None => \A k \in Keys : Agrees(redis[k], None)'
      BY <1>2, <1>6 DEF CacheInv, RedisFollows, Agrees, Spent
    <2>3. QED
      BY <1>9, <2>1, <2>2 DEF RedisFollows, Keys
  <1>11. MemoryFollows'
    BY <1>2, <1>7 DEF SegmentShape, MemoryFollows, Agrees, Spent
  <1>12. ErasureInv'
    <2>1. Doomed' => Doomed
      BY <1>3 DEF Turned, Doomed, At
    <2>2. QED
      BY <2>1 DEF CacheInv, ErasureInv, Spent
  <1>13. IndexFollows'
    <2>1. ASSUME NEW q \in Requests, StillLists(job[q])  PROVE StillLists(job'[q])
      BY <1>3, <2>1 DEF StillLists, Turned
    <2>2. QED
      BY <1>6, <2>1 DEF CacheInv, IndexFollows, StillLists
  <1>14. QED
    BY <1>5, <1>7, <1>8, <1>10, <1>11, <1>12, <1>13 DEF CacheInv

(* Whatever is still cached when a segment is erased has been marked.        *)
LEMMA EraseKeeps ==
    ASSUME CacheInv, NEW r \in Requests, Erase(r)
    PROVE  CacheInv'
  <1>1. CacheTypes /\ JobOk(job[r])
    BY DEF CacheInv, JobsOk
  <1>2. /\ job[r].pc = "erase" /\ row' = None
        /\ UNCHANGED <<kind, redis, memory, index, gap, started>>
    BY DEF Erase, At
  <1>3. kind = "segment"
    BY <1>1, <1>2 DEF JobOk, CacheTypes, SegmentOnly
  <1>4. Turned(r) /\ job'[r] = Idle
    BY <1>1, FinishTurns DEF Erase
  <1>5. JobsOk'
    BY <1>2, <1>4, IdleIsOk, JobsStayOk
  <1>6. CacheTypes' /\ SegmentShape'
    BY <1>1, <1>2, <1>4 DEF CacheInv, CacheTypes, SegmentShape, Turned
  <1>7. CreationInv'
    <2>1. started # 0
      BY <1>2 DEF CacheInv, CreationInv, Idle
    <2>2. \A q \in Requests :
             /\ job'[q].op = "create" => job[q].op = "create"
             /\ job'[q].copy \in {None, job[q].copy}
             /\ job'[q].pc \in Creating => job[q].pc \in Creating
      BY <1>4, IdleIsOk DEF Turned, Creating
    <2>3. QED
      BY <1>2, <2>1, <2>2 DEF CacheInv, CreationInv, NothingCached
  <1>8. \A k \in Keys : Spent(redis[k])
    BY <1>2 DEF CacheInv, ErasureInv, Doomed, At
  <1>9. RedisFollows' /\ ErasureInv'
    BY <1>2, <1>8 DEF RedisFollows, ErasureInv, Agrees, Spent
  <1>10. MemoryFollows'
    BY <1>3, <1>2, <1>6 DEF SegmentShape, MemoryFollows, Agrees, Spent
  <1>11. IndexFollows'
    BY <1>2 DEF IndexFollows
  <1>12. QED
    BY <1>5, <1>6, <1>7, <1>9, <1>10, <1>11 DEF CacheInv

-----------------------------------------------------------------------------
(* Segments: the other steps.                                                *)
LEMMA SegmentGentle ==
    ASSUME CacheInv, kind = "segment", NEW r \in Requests, job[r].pc # "idle",
           UNCHANGED <<kind, row, memory, started>>,
           redis' \in [Keys -> CacheEntries], redis'["code"] = None, gap' \in BOOLEAN,
           Turned(r), JobOk(job'[r]),
           job'[r].op \in {"none", job[r].op}, job'[r].pc \notin Creating,
           Bare => job'[r].copy = None /\ redis'["id"] = None,
           \/ Agrees(redis'["id"], row)
           \/ /\ redis'["id"] = redis["id"]
              /\ WillRefresh(job[r], "id") => WillRefresh(job'[r], "id"),
           Doomed \/ job'[r].pc = "erase" => Spent(redis'["id"]),
           IndexKept(r)
    PROVE  CacheInv'
  <1>1. CachesTyped
    BY DEF CachesTyped, CacheInv, CacheTypes
  <1>2. \A i \in Instances, k \in Keys : memory'[i][k] = None
    BY DEF CacheInv, SegmentShape
  <1>3. RedisKept(r)
    BY DEF RedisKept, Agrees, Spent, Keys
  <1>4. MemoryKept(r)
    BY <1>2 DEF MemoryKept, Agrees, Spent
  <1>5. Bare => NothingCached'
    BY <1>2 DEF NothingCached, Keys
  <1>6. Doomed \/ job'[r].pc = "erase" => \A k \in Keys : Spent(redis'[k])
    BY DEF Spent, Keys
  <1>7. Gentle(r)
    BY <1>1, <1>2, <1>3, <1>4, <1>5, <1>6 DEF Gentle
  <1>8. QED
    BY <1>7, GentleKeeps

LEMMA SegmentRequest ==
    ASSUME CacheInv, NEW r \in Requests, job[r].pc \in SegmentOnly
    PROVE  /\ kind = "segment"
           /\ CacheTypes /\ JobOk(job[r]) /\ job[r] \in JobRecords
           /\ job[r].pc # "idle" /\ job[r].at \in Instances /\ job[r].key = "id"
           /\ redis \in [Keys -> CacheEntries] /\ redis["code"] = None
           /\ row \in {None} \cup Segments
           /\ Doomed => Spent(redis["id"])
           /\ row = None => Agrees(redis["id"], row)
           /\ Bare => row = None /\ redis["id"] = None /\ job[r].copy = None
  BY DEF CacheInv, CacheTypes, SegmentShape, JobsOk, JobOk, SegmentOnly, ErasureInv,
         RedisFollows, Bare, NothingCached, Keys

LEMMA RereadKeeps ==
    ASSUME CacheInv, NEW r \in Requests, Reread(r)
    PROVE  CacheInv'
  <1>1. /\ job[r].pc = "reread" /\ job[r].pc \in SegmentOnly
        /\ UNCHANGED <<kind, row, redis, memory, index, gap, started>>
    BY DEF Reread, At, SegmentOnly
  <1>2. CacheTypes /\ gap' \in BOOLEAN
    BY <1>1 DEF CacheInv, CacheTypes
  <1>3. IndexKept(r)
    BY <1>1 DEF IndexKept, StillLists
  <1>4. CASE row = None
    <2>1. Turned(r) /\ job'[r] = Idle
      BY <1>2, <1>4, FinishTurns DEF Reread
    <2>2. QED
      BY <1>1, <1>2, <1>3, <1>4, <2>1, IdleIsOk, SegmentRequest, SegmentGentle DEF Creating
  <1>5. CASE row # None
    <2>1. row \in CacheValues /\ ~Bare
      BY <1>2, <1>5 DEF CacheTypes, Bare
    <2>2. /\ Turned(r)
          /\ job'[r].pc = "cache" /\ job'[r].copy = row
          /\ job'[r].op = job[r].op /\ job'[r].at = job[r].at /\ job'[r].key = job[r].key
      BY <1>2, <1>5, <2>1, CarryTurns, PhaseNames DEF Reread
    <2>3. JobOk(job'[r])
      BY <1>1, <1>5, <2>2, SegmentRequest
         DEF JobOk, SegmentOnly, LinkOnly, Carriers, LookingUp, Creating
    <2>4. WillRefresh(job'[r], "id")
      BY <2>2 DEF WillRefresh
    <2>5. QED
      BY <1>1, <1>2, <1>3, <2>1, <2>2, <2>3, <2>4, SegmentRequest, SegmentGentle DEF Creating
  <1>6. QED
    BY <1>4, <1>5

LEMMA CacheSegmentKeeps ==
    ASSUME CacheInv, NEW r \in Requests, CacheSegment(r)
    PROVE  CacheInv'
  <1>1. /\ job[r].pc = "cache" /\ job[r].pc \in SegmentOnly
        /\ UNCHANGED <<kind, row, memory, index, gap, started>>
    BY DEF CacheSegment, At, SegmentOnly
  <1>2. CacheTypes /\ gap' \in BOOLEAN
    BY <1>1 DEF CacheInv, CacheTypes
  <1>3. job[r].copy \in CacheValues /\ ~Bare
    BY <1>1, SegmentRequest DEF JobOk, JobRecords, Carriers, Bare
  <1>4. /\ Turned(r) /\ JobOk(job'[r]) /\ job'[r].op \in {"none", job[r].op}
        /\ job'[r].pc \in {"idle", "announce"}
        /\ StillLists(job[r]) => StillLists(job'[r])
    <2>1. CASE job[r].op = "create"
      <3>1. /\ Turned(r)
            /\ job'[r].pc = "announce" /\ job'[r].copy = None
            /\ job'[r].op = job[r].op /\ job'[r].at = job[r].at /\ job'[r].key = job[r].key
        BY <1>2, <2>1, CarryTurns, PhaseNames DEF CacheSegment
      <3>2. JobOk(job'[r])
        BY <1>1, <3>1, SegmentRequest
           DEF JobOk, SegmentOnly, LinkOnly, Carriers, LookingUp, Creating
      <3>3. QED
        BY <3>1, <3>2 DEF StillLists
    <2>2. CASE job[r].op # "create"
      BY <1>2, <2>2, FinishTurns, IdleIsOk DEF CacheSegment, StillLists
    <2>3. QED
      BY <2>1, <2>2
  <1>5. IndexKept(r)
    BY <1>1, <1>4 DEF IndexKept
  <1>6. /\ redis' \in [Keys -> CacheEntries] /\ redis'["code"] = None
        /\ Agrees(redis'["id"], row)
        /\ Doomed => Spent(redis'["id"])
    <2>1. CASE redis' = [redis EXCEPT !["id"] = Entry(job[r].copy)]
      BY <1>1, <1>3, <2>1, WrittenToRedis, SegmentRequest DEF Keys, CachesTyped
    <2>2. CASE redis' = MarkAll(redis, row)
      BY <1>1, <2>2, MarkAllAgrees, SegmentRequest DEF Keys
    <2>3. QED
      BY <2>1, <2>2 DEF CacheSegment
  <1>7. QED
    BY <1>1, <1>2, <1>3, <1>4, <1>5, <1>6, SegmentRequest, SegmentGentle DEF Creating

LEMMA DropSegmentKeeps ==
    ASSUME CacheInv, NEW r \in Requests, DropSegment(r)
    PROVE  CacheInv'
  <1>1. /\ job[r].pc = "drop" /\ job[r].pc \in SegmentOnly
        /\ UNCHANGED <<kind, row, memory, started>>
    BY DEF DropSegment, At, SegmentOnly
  <1>2. CacheTypes
    BY DEF CacheInv
  <1>3. ASSUME NEW pc \in {"erase", "reread"}, Goto(r, pc)
        PROVE  /\ Turned(r) /\ JobOk(job'[r]) /\ job'[r].op = job[r].op
               /\ job'[r].pc = pc /\ job'[r].copy = job[r].copy
    <2>1. Turned(r) /\ job'[r].pc = pc /\ Alike(job'[r], job[r])
      BY <1>2, <1>3, GotoTurns, PhaseNames
    <2>2. JobOk(job'[r])
      BY <1>1, <2>1, SegmentRequest
         DEF JobOk, Alike, SegmentOnly, LinkOnly, Carriers, LookingUp, Creating
    <2>3. QED
      BY <2>1, <2>2 DEF Alike
  <1>4. CASE redis' = [redis EXCEPT !["id"] = None] /\ Unlist /\ AfterDrop(r)
    <2>1. redis' \in [Keys -> CacheEntries] /\ redis'["code"] = None /\ redis'["id"] = None
      BY <1>1, <1>4, SegmentRequest DEF Keys, CacheEntries
    <2>2. /\ Turned(r) /\ JobOk(job'[r]) /\ job'[r].op \in {"none", job[r].op}
          /\ job'[r].pc \in {"idle", "erase", "reread"}
          /\ job'[r].copy \in {None, job[r].copy}
      <3>1. \/ Goto(r, "erase") \/ Goto(r, "reread") \/ Finish(r)
        BY <1>4 DEF AfterDrop
      <3>2. QED
        BY <1>2, <1>3, <3>1, FinishTurns, IdleIsOk
    <2>3. gap' \in BOOLEAN /\ IndexKept(r)
      BY <1>4 DEF Unlist, IndexKept
    <2>4. Agrees(redis'["id"], row) /\ Spent(redis'["id"])
      BY <2>1 DEF Agrees, Spent
    <2>5. QED
      BY <1>1, <2>1, <2>2, <2>3, <2>4, SegmentRequest, SegmentGentle DEF Creating
  <1>5. CASE /\ IF job[r].op = "delete"
                THEN redis' = MarkAll(redis, None) /\ Goto(r, "erase")
                ELSE redis' = MarkAll(redis, row) /\ Finish(r)
             /\ UNCHANGED <<index, gap>>
    <2>1. gap' \in BOOLEAN /\ IndexKept(r)
      BY <1>1, <1>2, <1>5 DEF CacheTypes, IndexKept, StillLists
    <2>2. CASE job[r].op = "delete"
      <3>1. /\ redis' \in [Keys -> CacheEntries] /\ redis'["code"] = None
            /\ Spent(redis'["id"])
            /\ redis["id"] = None => redis'["id"] = None
        BY <1>1, <1>5, <2>2, MarkAllAgrees, SegmentRequest, Placeholders DEF Keys
      <3>2. /\ Turned(r) /\ JobOk(job'[r]) /\ job'[r].op = job[r].op
            /\ job'[r].pc = "erase" /\ job'[r].copy = job[r].copy
        BY <1>3, <1>5, <2>2
      <3>3. Agrees(redis'["id"], row)
        BY <3>1 DEF Agrees
      <3>4. QED
        BY <1>1, <2>1, <3>1, <3>2, <3>3, SegmentRequest, SegmentGentle DEF Creating
    <2>3. CASE job[r].op # "delete"
      <3>1. /\ redis' \in [Keys -> CacheEntries] /\ redis'["code"] = None
            /\ Agrees(redis'["id"], row)
            /\ Doomed => Spent(redis'["id"])
            /\ redis["id"] = None => redis'["id"] = None
        BY <1>1, <1>5, <2>3, MarkAllAgrees, SegmentRequest DEF Keys
      <3>2. Turned(r) /\ job'[r] = Idle
        BY <1>2, <1>5, <2>3, FinishTurns
      <3>3. QED
        BY <1>1, <2>1, <3>1, <3>2, IdleIsOk, SegmentRequest, SegmentGentle DEF Creating
    <2>4. QED
      BY <2>2, <2>3
  <1>6. QED
    BY <1>4, <1>5 DEF DropSegment

LEMMA CleanKeeps ==
    ASSUME CacheInv, NEW r \in Requests, Clean(r)
    PROVE  CacheInv'
  <1>1. /\ job[r].pc = "clean" /\ job[r].pc \in SegmentOnly
        /\ UNCHANGED <<kind, row, memory, index, gap, started>>
    BY DEF Clean, At, SegmentOnly
  <1>2. CacheTypes /\ gap' \in BOOLEAN
    BY <1>1 DEF CacheInv, CacheTypes
  <1>3. ASSUME NEW pc \in {"erase", "drop"}, Goto(r, pc)
        PROVE  /\ Turned(r) /\ JobOk(job'[r]) /\ job'[r].op = job[r].op
               /\ job'[r].pc = pc /\ job'[r].copy = job[r].copy
    <2>1. Turned(r) /\ job'[r].pc = pc /\ Alike(job'[r], job[r])
      BY <1>2, <1>3, GotoTurns, PhaseNames
    <2>2. JobOk(job'[r])
      BY <1>1, <2>1, SegmentRequest
         DEF JobOk, Alike, SegmentOnly, LinkOnly, Carriers, LookingUp, Creating
    <2>3. QED
      BY <2>1, <2>2 DEF Alike
  <1>4. IndexKept(r) /\ ~WillRefresh(job[r], "id")
    BY <1>1 DEF IndexKept, StillLists, WillRefresh
  <1>5. CASE Goto(r, "drop") /\ UNCHANGED redis
    <2>1. /\ Turned(r) /\ JobOk(job'[r]) /\ job'[r].op = job[r].op
          /\ job'[r].pc = "drop" /\ job'[r].copy = job[r].copy
      BY <1>3, <1>5
    <2>2. QED
      BY <1>1, <1>2, <1>4, <1>5, <2>1, SegmentRequest, SegmentGentle DEF Creating
  <1>6. CASE Goto(r, "erase") /\ redis' = MarkAll(redis, None)
    <2>1. /\ redis' \in [Keys -> CacheEntries] /\ redis'["code"] = None
          /\ Spent(redis'["id"])
          /\ redis["id"] = None => redis'["id"] = None
      BY <1>1, <1>6, MarkAllAgrees, SegmentRequest, Placeholders DEF Keys
    <2>2. /\ Turned(r) /\ JobOk(job'[r]) /\ job'[r].op = job[r].op
          /\ job'[r].pc = "erase" /\ job'[r].copy = job[r].copy
      BY <1>3, <1>6
    <2>3. Agrees(redis'["id"], row)
      BY <2>1 DEF Agrees
    <2>4. QED
      BY <1>1, <1>2, <1>4, <2>1, <2>2, <2>3, SegmentRequest, SegmentGentle DEF Creating
  <1>7. QED
    BY <1>5, <1>6 DEF Clean

(* The steps that only read: of the row, or of the index.                    *)
LEMMA SegmentReadsKeep ==
    ASSUME CacheInv, NEW r \in Requests, CheckRow(r) \/ Members(r) \/ ReadAll(r)
    PROVE  CacheInv'
  <1>1. /\ job[r].pc \in {"check", "members", "all"} /\ job[r].pc \in SegmentOnly
        /\ UNCHANGED <<kind, row, redis, memory, index, gap, started>>
    BY DEF CheckRow, Members, ReadAll, At, SegmentOnly
  <1>2. CacheTypes /\ gap' \in BOOLEAN
    BY <1>1 DEF CacheInv, CacheTypes
  <1>3. IndexKept(r) /\ ~WillRefresh(job[r], "id")
    BY <1>1 DEF IndexKept, StillLists, WillRefresh
  <1>4. \/ Finish(r)
        \/ \E pc \in {"clean", "all"} : Goto(r, pc)
        \/ job' = [job EXCEPT ![r].pc = "index", ![r].copy = row]
    BY DEF CheckRow, Members, ReadAll
  <1>5. /\ Turned(r) /\ JobOk(job'[r])
        /\ job'[r].op \in {"none", job[r].op}
        /\ job'[r].pc \in {"idle", "clean", "all", "index"}
        /\ job'[r].copy \in {None, row, job[r].copy}
    <2>1. CASE Finish(r)
      BY <1>2, <2>1, FinishTurns, IdleIsOk
    <2>2. CASE \E pc \in {"clean", "all"} : Goto(r, pc)
      <3>1. PICK pc \in {"clean", "all"} : Goto(r, pc)
        BY <2>2
      <3>2. Turned(r) /\ job'[r].pc = pc /\ Alike(job'[r], job[r])
        BY <1>2, <3>1, GotoTurns, PhaseNames
      <3>3. JobOk(job'[r])
        BY <1>1, <3>2, SegmentRequest
           DEF JobOk, Alike, SegmentOnly, LinkOnly, Carriers, LookingUp, Creating
      <3>4. QED
        BY <3>2, <3>3 DEF Alike
    <2>3. CASE job' = [job EXCEPT ![r].pc = "index", ![r].copy = row]
      <3>1. row \in {None} \cup CacheValues
        BY <1>2 DEF CacheTypes
      <3>2. /\ Turned(r)
            /\ job'[r].pc = "index" /\ job'[r].copy = row
            /\ job'[r].op = job[r].op /\ job'[r].at = job[r].at /\ job'[r].key = job[r].key
        BY <1>2, <2>3, <3>1, CarryTurns, PhaseNames
      <3>3. JobOk(job'[r])
        BY <1>1, <3>2, SegmentRequest
           DEF JobOk, SegmentOnly, LinkOnly, Carriers, LookingUp, Creating
      <3>4. QED
        BY <3>2, <3>3
    <2>4. QED
      BY <1>4, <2>1, <2>2, <2>3
  <1>6. QED
    BY <1>1, <1>2, <1>3, <1>5, SegmentRequest, SegmentGentle DEF Creating

LEMMA BuildIndexKeeps ==
    ASSUME CacheInv, NEW r \in Requests, BuildIndex(r)
    PROVE  CacheInv'
  <1>1. /\ job[r].pc = "index" /\ job[r].pc \in SegmentOnly
        /\ UNCHANGED <<kind, row, redis, memory, started>>
    BY DEF BuildIndex, At, SegmentOnly
  <1>2. CacheTypes
    BY DEF CacheInv
  <1>3. gap' \in BOOLEAN /\ (row # None => "this" \in index' \/ gap')
    BY DEF BuildIndex
  <1>4. IndexKept(r) /\ ~WillRefresh(job[r], "id")
    BY <1>1, <1>3 DEF IndexKept, WillRefresh
  <1>5. /\ Turned(r) /\ JobOk(job'[r])
        /\ job'[r].op \in {"none", job[r].op}
        /\ job'[r].pc \in {"idle", "cache"}
        /\ job'[r].copy \in {None, job[r].copy}
    <2>1. CASE job[r].copy = None
      BY <1>2, <2>1, FinishTurns, IdleIsOk DEF BuildIndex
    <2>2. CASE job[r].copy # None
      <3>1. Goto(r, "cache")
        BY <2>2 DEF BuildIndex
      <3>2. Turned(r) /\ job'[r].pc = "cache" /\ Alike(job'[r], job[r])
        BY <1>2, <3>1, GotoTurns, PhaseNames
      <3>3. JobOk(job'[r])
        BY <1>1, <2>2, <3>2, SegmentRequest
           DEF JobOk, Alike, SegmentOnly, LinkOnly, Carriers, LookingUp, Creating
      <3>4. QED
        BY <3>2, <3>3 DEF Alike
    <2>3. QED
      BY <2>1, <2>2
  <1>6. QED
    BY <1>1, <1>3, <1>4, <1>5, SegmentRequest, SegmentGentle DEF Creating

LEMMA ClearAllKeeps ==
    ASSUME CacheInv, NEW r \in Requests, ClearAll(r)
    PROVE  CacheInv'
  <1>1. /\ job[r].pc = "clear" /\ job[r].pc \in SegmentOnly
        /\ UNCHANGED <<kind, row, memory, started>>
    BY DEF ClearAll, At, SegmentOnly
  <1>2. Turned(r) /\ job'[r] = Idle
    BY FinishTurns DEF ClearAll, CacheInv
  <1>3. redis' \in [Keys -> CacheEntries] /\ \A k \in Keys : redis'[k] = None
    BY DEF ClearAll, CacheEntries
  <1>4. gap' \in BOOLEAN /\ IndexKept(r)
    BY DEF ClearAll, IndexKept
  <1>5. redis'["code"] = None /\ redis'["id"] = None
    BY <1>3 DEF Keys
  <1>6. Agrees(redis'["id"], row) /\ Spent(redis'["id"])
    BY <1>5 DEF Agrees, Spent
  <1>7. QED
    BY <1>1, <1>2, <1>3, <1>4, <1>5, <1>6, IdleIsOk, SegmentRequest, SegmentGentle DEF Creating

LEMMA SegmentStepKeeps ==
    ASSUME CacheInv, NEW r \in Requests, SegmentStep(r)
    PROVE  CacheInv'
  <1>1. job[r].pc \in {"update", "compute"} => row \in {None} \cup Segments
    BY SegmentRequest DEF SegmentOnly
  <1>2. CASE Update(r)
    <2>1. job[r].pc = "update"
      BY <1>2 DEF Update, At
    <2>2. PICK d \in Definitions : UpdateRow([row EXCEPT !.definition = d])
      BY <1>2 DEF Update
    <2>3. CASE row = None
      <3>1. UpdateRow(NewSegment)
        BY <2>2, <2>3 DEF UpdateRow
      <3>2. QED
        BY <1>2, <2>1, <3>1, EditKeeps, Placeholders DEF Update
    <2>4. CASE row # None
      <3>1. [row EXCEPT !.definition = d] \in Segments
        BY <1>1, <2>1, <2>4 DEF Segments
      <3>2. QED
        BY <1>2, <2>1, <2>2, <3>1, EditKeeps DEF Update
    <2>5. QED
      BY <2>3, <2>4
  <1>3. CASE Compute(r)
    <2>1. job[r].pc = "compute" /\ UpdateRow([row EXCEPT !.computed = TRUE])
      BY <1>3 DEF Compute, At
    <2>2. CASE row = None
      <3>1. UpdateRow(NewSegment)
        BY <2>1, <2>2 DEF UpdateRow
      <3>2. QED
        BY <1>3, <2>1, <3>1, EditKeeps, Placeholders DEF Compute
    <2>3. CASE row # None
      <3>1. [row EXCEPT !.computed = TRUE] \in Segments
        BY <1>1, <2>1, <2>3 DEF Segments
      <3>2. QED
        BY <1>3, <2>1, <3>1, EditKeeps DEF Compute
    <2>4. QED
      BY <2>2, <2>3
  <1>4. CASE InsertSegment(r)
    <2>1. job[r].pc = "insertSegment" /\ kind = "segment"
      BY <1>4, SegmentRequest DEF InsertSegment, At, SegmentOnly
    <2>2. NewSegment \in Segments /\ NewSegment \in CacheValues
      BY Placeholders DEF CacheValues
    <2>3. QED
      BY <1>4, <2>1, <2>2, NewRowKeeps DEF InsertSegment, Creating
  <1>5. QED
    BY <1>2, <1>3, <1>4, RereadKeeps, CacheSegmentKeeps, DropSegmentKeeps, CleanKeeps,
       EraseKeeps, SegmentReadsKeep, BuildIndexKeeps, ClearAllKeeps DEF SegmentStep

-----------------------------------------------------------------------------
(* The event "created", entries that expire, and requests that arrive.       *)
LEMMA AnnounceNewKeeps ==
    ASSUME CacheInv, NEW r \in Requests, AnnounceNew(r)
    PROVE  CacheInv'
  <1>1. CacheTypes /\ JobOk(job[r])
    BY DEF CacheInv, JobsOk
  <1>2. job[r].pc = "announce" /\ UNCHANGED <<kind, started>>
    BY DEF AnnounceNew, At
  <1>3. job[r].at \in Instances /\ "id" \in Keys
    BY <1>1, <1>2 DEF JobOk, Keys
  <1>4. \A k \in Keys : ~WillRefresh(job[r], k)
    BY <1>2 DEF WillRefresh
  <1>5. CASE DropIndexed(r) /\ Finish(r) /\ UNCHANGED <<row, callFaults>>
    <2>1. Turned(r) /\ job'[r] = Idle
      BY <1>1, <1>5, FinishTurns
    <2>2. gap' \in BOOLEAN /\ IndexKept(r)
      BY <1>5 DEF DropIndexed, IndexKept
    <2>3. /\ CachesTyped
          /\ kind = "segment" =>
                redis'["code"] = None /\ \A i \in Instances, k \in Keys : memory'[i][k] = None
          /\ Bare => NothingCached'
          /\ RedisKept(r) /\ MemoryKept(r)
          /\ Doomed => \A k \in Keys : Spent(redis'[k])
      <3>1. CASE Forget(r, "id")
        BY <1>3, <1>4, <2>2, <3>1, ForgetIs
      <3>2. CASE UNCHANGED <<redis, memory>>
        BY <1>4, <2>2, <3>2
           DEF CachesTyped, CacheInv, CacheTypes, SegmentShape, Bare, NothingCached,
               RedisKept, MemoryKept, ErasureInv
      <3>3. QED
        BY <1>5, <3>1, <3>2 DEF DropIndexed
    <2>4. Gentle(r)
      BY <1>2, <1>5, <2>1, <2>2, <2>3, IdleIsOk DEF Gentle, Creating
    <2>5. QED
      BY <2>4, GentleKeeps
  <1>6. CASE Crash(r)
    BY <1>2, <1>6, ProcessDiesKeeps
  <1>7. QED
    BY <1>5, <1>6 DEF AnnounceNew

LEMMA ExpiryKeeps ==
    ASSUME CacheInv, Expiry
    PROVE  CacheInv'
  <1>1. /\ UNCHANGED <<kind, row, job, started>>
        /\ redis' \in [Keys -> CacheEntries]
        /\ memory' \in [Instances -> [Keys -> CacheEntries]]
        /\ \A k \in Keys : redis'[k] \in {None, redis[k]}
        /\ \A i \in Instances, k \in Keys : memory'[i][k] \in {None, memory[i][k]}
        /\ (index' = {} /\ gap' = FALSE) \/ (index' = index /\ gap' = gap)
    <2>1. CASE \E k \in Keys : RedisExpires(k)
      BY <2>1 DEF RedisExpires, CacheInv, CacheTypes, CacheEntries
    <2>2. CASE \E k \in Keys, i \in Instances : MemoryExpires(i, k)
      BY <2>2 DEF MemoryExpires, CacheInv, CacheTypes, CacheEntries
    <2>3. CASE IndexExpires
      BY <2>3 DEF IndexExpires, CacheInv, CacheTypes
    <2>4. QED
      BY <2>1, <2>2, <2>3 DEF Expiry
  <1>2. CacheTypes' /\ SegmentShape'
    BY <1>1 DEF CacheInv, CacheTypes, SegmentShape, Keys
  <1>3. JobsOk'
    BY <1>1 DEF CacheInv, JobsOk, JobOk, Idle
  <1>4. NothingCached => NothingCached'
    BY <1>1 DEF NothingCached
  <1>5. CreationInv'
    BY <1>1, <1>4 DEF CacheInv, CreationInv, Idle
  <1>6. RedisFollows'
    BY <1>1 DEF CacheInv, RedisFollows, Agrees, Spent, WillRefresh
  <1>7. MemoryFollows'
    BY <1>1 DEF CacheInv, MemoryFollows, Agrees, Spent, WillRefresh
  <1>8. ErasureInv' /\ IndexFollows'
    BY <1>1 DEF CacheInv, ErasureInv, IndexFollows, Spent, Doomed, At
  <1>9. QED
    BY <1>2, <1>3, <1>5, <1>6, <1>7, <1>8 DEF CacheInv

LEMMA BeginKeeps ==
    ASSUME CacheInv, NEW r \in Requests, NEW op \in Operations, NEW i \in Instances,
           NEW key \in Keys, NEW pc \in JobPhases, Begin(r, op, i, key, pc),
           pc \notin {"idle", "erase"} \cup Carriers,
           kind = "link" => pc \notin SegmentOnly,
           kind = "segment" => pc \notin LinkOnly /\ key = "id",
           pc \in LookingUp =>
              \/ kind = "link" /\ op \in {"click", "change", "delete"}
              \/ kind = "segment" /\ op \in {"read", "edit", "recompute"},
           pc \in Creating => op = "create",
           op = "create" => row = None /\ started = 0
    PROVE  CacheInv'
  <1> DEFINE n == [Idle EXCEPT !.op = op, !.at = i, !.key = key, !.pc = pc]
  <1>1. CacheTypes /\ job[r] = Idle
    BY DEF CacheInv, Begin
  <1>2. /\ UNCHANGED <<kind, row, redis, memory, index, gap>>
        /\ started' = started + 1
        /\ job' = [job EXCEPT ![r] = n]
    BY DEF Begin
  <1>3. /\ n \in JobRecords
        /\ n.op = op /\ n.at = i /\ n.key = key /\ n.pc = pc /\ n.copy = None
    BY DEF Idle, JobRecords
  <1> HIDE DEF n
  <1>4. Turned(r) /\ job'[r] = n
    BY <1>1, <1>2, <1>3 DEF Turned, CacheTypes
  <1>5. JobOk(n)
    BY <1>3 DEF JobOk
  <1>6. JobsOk'
    BY <1>2, <1>4, <1>5, JobsStayOk
  <1>7. CacheTypes' /\ SegmentShape'
    BY <1>1, <1>2, <1>4 DEF CacheInv, CacheTypes, SegmentShape, Turned
  <1>8. CreationInv'
    <2>1. started' # 0
      BY <1>1, <1>2 DEF CacheTypes
    <2>2. ASSUME NEW q \in Requests, NEW s \in Requests,
                 job'[q].op = "create", job'[s].op = "create"
          PROVE  q = s
      <3>1. CASE started = 0
        <4>1. \A t \in Requests \ {r} : job'[t].op # "create"
          BY <1>4, <3>1, IdleIsOk DEF Turned, CacheInv, CreationInv
        <4>2. QED
          BY <2>2, <4>1
      <3>2. CASE started # 0
        BY <1>3, <1>4, <2>2, <3>2 DEF Turned, CacheInv, CreationInv
      <3>3. QED
        BY <3>1, <3>2
    <2>3. ASSUME NEW q \in Requests, job'[q].pc \in Creating
          PROVE  row = None /\ NothingCached /\ \A s \in Requests : job'[s].copy = None
      <3>1. row = None /\ NothingCached /\ \A s \in Requests : job[s].copy = None
        <4>1. CASE q = r
          BY <1>3, <1>4, <2>3, <4>1, IdleIsOk DEF CacheInv, CreationInv
        <4>2. CASE q # r
          BY <1>4, <2>3, <4>2 DEF Turned, CacheInv, CreationInv
        <4>3. QED
          BY <4>1, <4>2
      <3>2. QED
        BY <1>3, <1>4, <3>1 DEF Turned
    <2>4. QED
      BY <1>2, <2>1, <2>2, <2>3 DEF CreationInv, NothingCached
  <1>9. \A q \in Requests, k \in Keys :
           WillRefresh(job[q], k) => q # r /\ job'[q] = job[q]
    BY <1>1, <1>4, IdleIsOk DEF WillRefresh, Turned
  <1>10. RedisFollows'
    <2>1. \A k \in Keys : Agrees(redis[k], row) \/ \E q \in Requests : WillRefresh(job'[q], k)
      BY <1>9 DEF CacheInv, RedisFollows
    <2>2. QED
      BY <1>2, <2>1 DEF CacheInv, RedisFollows, WillRefresh, Agrees, Spent
  <1>11. MemoryFollows'
    <2>1. \A j \in Instances, k \in Keys :
             \/ Agrees(memory[j][k], row)
             \/ \E q \in Requests : job'[q].at = j /\ WillRefresh(job'[q], k)
      BY <1>9 DEF CacheInv, MemoryFollows
    <2>2. QED
      BY <1>2, <2>1 DEF MemoryFollows, WillRefresh, Agrees, Spent
  <1>12. ErasureInv'
    <2>1. Doomed' => Doomed
      BY <1>3, <1>4 DEF Turned, Doomed, At
    <2>2. QED
      BY <1>2, <2>1 DEF CacheInv, ErasureInv, Spent
  <1>13. IndexFollows'
    <2>1. \A q \in Requests : StillLists(job[q]) => job'[q] = job[q]
      BY <1>1, <1>4, IdleIsOk DEF StillLists, Turned
    <2>2. QED
      BY <1>2, <2>1 DEF CacheInv, IndexFollows, StillLists
  <1>14. QED
    BY <1>6, <1>7, <1>8, <1>10, <1>11, <1>12, <1>13 DEF CacheInv

LEMMA ComesKeeps ==
    ASSUME CacheInv, NEW r \in Requests, NEW i \in Instances, Comes(r, i)
    PROVE  CacheInv'
  <1>1. "id" \in Keys /\ "code" \in Keys
    BY DEF Keys
  <1>2. CASE kind = "link" /\ Arrive(r, i)
    <2>1. ASSUME NEW op \in {"click", "change", "delete"}, NEW key \in Keys,
                 Begin(r, op, i, key, "ask")
          PROVE  CacheInv'
      BY <1>2, <2>1, BeginKeeps, PhaseNames
         DEF Operations, SegmentOnly, LookingUp, Carriers, Creating
    <2>2. CASE Create(r, i)
      BY <1>1, <1>2, <2>2, BeginKeeps, PhaseNames
         DEF Operations, Create, SegmentOnly, LookingUp, Carriers, Creating
    <2>3. QED
      BY <1>1, <1>2, <2>1, <2>2 DEF Arrive, Click, Change, Delete
  <1>3. CASE kind = "segment" /\ Call(r, i)
    <2>1. ASSUME NEW op \in {"read", "edit", "recompute"}, Begin(r, op, i, "id", "ask")
          PROVE  CacheInv'
      BY <1>1, <1>3, <2>1, BeginKeeps, PhaseNames
         DEF Operations, LinkOnly, LookingUp, Carriers, Creating
    <2>2. ASSUME NEW op \in {"compute", "delete", "list", "clear"},
                 NEW pc \in {"compute", "check", "members", "clear"},
                 Begin(r, op, i, "id", pc)
          PROVE  CacheInv'
      BY <1>1, <1>3, <2>2, BeginKeeps, PhaseNames
         DEF Operations, LinkOnly, LookingUp, Carriers, Creating
    <2>3. CASE CreateSegment(r, i)
      BY <1>1, <1>3, <2>3, BeginKeeps, PhaseNames
         DEF Operations, CreateSegment, LinkOnly, LookingUp, Carriers, Creating
    <2>4. QED
      BY <1>3, <2>1, <2>2, <2>3
         DEF Call, FindOne, Edit, Recompute, ComputeSegment, RemoveSegment, GetAll, ClearCaches
  <1>4. QED
    BY <1>2, <1>3 DEF Comes

LEMMA CacheStepKeeps ==
    ASSUME CacheInv, CacheStep
    PROVE  CacheInv'
  BY ComesKeeps, AskMemoryKeeps, AskRedisKeeps, LoadKeeps, PutKeeps, KeepKeeps, ReloadKeeps,
     LinkStepKeeps, SegmentStepKeeps, AnnounceNewKeeps, ExpiryKeeps DEF CacheStep, Lookup

LEMMA CacheInitHolds ==
    ASSUME kind \in {"link", "segment"}, CacheInit
    PROVE  CacheInv
  <1>1. CacheTypes
    BY Placeholders DEF CacheInit, CacheTypes, CacheValues, CacheEntries
  <1>2. SegmentShape
    BY Placeholders DEF CacheInit, SegmentShape, Keys
  <1>3. JobsOk
    BY IdleIsOk DEF CacheInit, JobsOk
  <1>4. CreationInv
    BY IdleIsOk DEF CacheInit, CreationInv, NothingCached, Creating
  <1>5. RedisFollows /\ MemoryFollows /\ ErasureInv /\ IndexFollows
    BY DEF CacheInit, RedisFollows, MemoryFollows, ErasureInv, IndexFollows, Agrees, Spent
  <1>6. QED
    BY <1>1, <1>2, <1>3, <1>4, <1>5 DEF CacheInv

LEMMA CachesFollow ==
    ASSUME CacheInv
    PROVE  CachesFollowTable
  <1>1. Quiet => \A r \in Requests, k \in Keys : ~WillRefresh(job[r], k) /\ ~StillLists(job[r])
    BY IdleIsOk DEF Quiet, WillRefresh, StillLists
  <1>2. CachesAgree
    BY <1>1 DEF CacheInv, CachesAgree, RedisFollows, MemoryFollows, Agrees, Spent
  <1>3. ListsEverySegment
    BY IdleIsOk DEF CacheInv, ListsEverySegment, IndexFollows, Quiet
  <1>4. QED
    BY <1>2, <1>3 DEF CachesFollowTable

(* Once every request has ended, what a process or Redis holds of a link or  *)
(* of a segment is what its row says, or was old when it was written, or the *)
(* code had lost its ways to remove it; and a listing in use has the segment *)
(* or a known reason not to (BaseCacheService, the update, deletion and      *)
(* creation of links and segments, any number of processes and requests).    *)
THEOREM CachesTellTheTable == CacheSpec => []CachesFollowTable
  <1>1. kind \in {"link", "segment"} /\ CacheInit => CacheInv
    BY CacheInitHolds
  <1>2. CacheInv /\ [CacheStep]_cacheVars => CacheInv'
    <2>1. CASE CacheStep
      BY <2>1, CacheStepKeeps
    <2>2. CASE UNCHANGED cacheVars
      BY <2>2
         DEF cacheVars, CacheInv, CacheTypes, SegmentShape, JobsOk, JobOk, Idle, CreationInv,
             NothingCached, RedisFollows, MemoryFollows, ErasureInv, Doomed, At, IndexFollows,
             Agrees, Spent, WillRefresh
    <2>3. QED
      BY <2>1, <2>2
  <1>3. CacheInv => CachesFollowTable
    BY CachesFollow
  <1>4. QED
    BY <1>1, <1>2, <1>3, PTL DEF CacheSpec
===============================================================================

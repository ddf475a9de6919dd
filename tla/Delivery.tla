------------------------------- MODULE Delivery -------------------------------
(***************************************************************************)
(* The part of the broker contract every consumer of the campaign pipeline *)
(* depends on: queues that hold copies of messages, the delivery attempt   *)
(* each copy carries in its header, and the redelivery backstop.           *)
(*                                                                         *)
(* A queue is a function from messages to the number of copies that wait   *)
(* in it.  Order is not kept: every topic is consumed by several handlers  *)
(* at once (prefetch, replicas), a redelivered copy returns to the tail,   *)
(* and a channel loss returns copies to the head.                          *)
(***************************************************************************)
EXTENDS Naturals, TLAPS

CONSTANT DeliveryLimit   \* BROKER_DELIVERY_LIMIT

ASSUME DeliveryLimitAssumption == DeliveryLimit \in Nat \ {0}

\* The attempt header is absent (0) on the first publish and a copy whose next
\* attempt would reach the limit is dead-lettered, so none waits with more.
Messages(Body) == [body : Body, attempt : 0 .. DeliveryLimit - 1]

FirstCopy(body) == [body |-> body, attempt |-> 0]

NextAttempt(m) == m.attempt + 1

NoCopies(M) == [m \in M |-> 0]

Add(q, m) == [q EXCEPT ![m] = @ + 1]

Remove(q, m) == [q EXCEPT ![m] = @ - 1]

Waiting(q) == {m \in DOMAIN q : q[m] > 0}

\* nack(requeue = true): the copy goes back to the queue with its attempt
\* incremented, or to the dead-letter queue once the limit is reached.
Exhausted(m) == NextAttempt(m) >= DeliveryLimit

QueueAfterNack(q, m) ==
    IF Exhausted(m) THEN q ELSE Add(q, [m EXCEPT !.attempt = NextAttempt(m)])

\* Mutant: an exhausted copy is dropped.
DropExhausted(d, m) == d

DeadAfterNack(d, m) == IF Exhausted(m) THEN Add(d, m) ELSE d

-------------------------------------------------------------------------------
(* What the queue operators return, for any set of messages.                 *)

\* Publishing a copy keeps a queue a queue, and delivering one does too when a
\* copy waits.
LEMMA QueueType ==
    ASSUME NEW M, NEW q \in [M -> Nat], NEW m \in M
    PROVE  /\ Add(q, m) \in [M -> Nat]
           /\ m \in Waiting(q) => Remove(q, m) \in [M -> Nat]
  BY DEF Add, Remove, Waiting

\* The first copy of a message is a copy; every copy carries its message.
LEMMA FirstCopyType ==
    ASSUME NEW Body, NEW b \in Body
    PROVE  FirstCopy(b) \in Messages(Body) /\ FirstCopy(b).body = b
  BY DeliveryLimitAssumption DEF FirstCopy, Messages

LEMMA BodyType ==
    ASSUME NEW Body, NEW m \in Messages(Body)
    PROVE  m.body \in Body
  BY DEF Messages

\* A nack keeps the queue and the dead-letter queue well formed.
LEMMA NackType ==
    ASSUME NEW Body, NEW m \in Messages(Body),
           NEW q \in [Messages(Body) -> Nat], NEW d \in [Messages(Body) -> Nat]
    PROVE  /\ QueueAfterNack(q, m) \in [Messages(Body) -> Nat]
           /\ DeadAfterNack(d, m) \in [Messages(Body) -> Nat]
  <1>1. CASE Exhausted(m)
    BY <1>1, QueueType DEF QueueAfterNack, DeadAfterNack
  <1>2. CASE ~Exhausted(m)
    <2>1. [m EXCEPT !.attempt = NextAttempt(m)] \in Messages(Body)
      BY <1>2, DeliveryLimitAssumption DEF Messages, Exhausted, NextAttempt
    <2>2. QED
      BY <1>2, <2>1, QueueType DEF QueueAfterNack, DeadAfterNack
  <1>3. QED
    BY <1>1, <1>2

\* Which copies wait after a copy was added, and after one was removed.
LEMMA WaitingAfter ==
    ASSUME NEW M, NEW q \in [M -> Nat], NEW m \in M
    PROVE  /\ Waiting(Add(q, m)) = Waiting(q) \cup {m}
           /\ Waiting(q) \subseteq Waiting(Remove(q, m)) \cup {m}
  BY DEF Waiting, Add, Remove

\* A nack loses nothing: the message it settles waits afterwards, in the queue
\* or among the dead letters, and so does everything that waited before.
LEMMA NackKeeps ==
    ASSUME NEW Body, NEW m \in Messages(Body),
           NEW q \in [Messages(Body) -> Nat], NEW d \in [Messages(Body) -> Nat]
    PROVE  /\ Waiting(q) \subseteq Waiting(QueueAfterNack(q, m))
           /\ Waiting(d) \subseteq Waiting(DeadAfterNack(d, m))
           /\ \E n \in Waiting(QueueAfterNack(q, m)) \cup
                       Waiting(DeadAfterNack(d, m)) : n.body = m.body
  <1>1. CASE Exhausted(m)
    BY <1>1, WaitingAfter DEF QueueAfterNack, DeadAfterNack
  <1>2. CASE ~Exhausted(m)
    <2> DEFINE n == [m EXCEPT !.attempt = NextAttempt(m)]
    <2>1. n \in Messages(Body) /\ n.body = m.body
      BY <1>2, DeliveryLimitAssumption DEF Messages, Exhausted, NextAttempt
    <2>2. Waiting(QueueAfterNack(q, m)) = Waiting(q) \cup {n}
      BY <1>2, <2>1, WaitingAfter DEF QueueAfterNack
    <2>3. DeadAfterNack(d, m) = d
      BY <1>2 DEF DeadAfterNack
    <2>4. QED
      BY <2>1, <2>2, <2>3
  <1>3. QED
    BY <1>1, <1>2
===============================================================================

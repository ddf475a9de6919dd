---------------------------- MODULE RabbitConsumer ----------------------------
(***************************************************************************)
(* One process's RabbitMQ adapter and the queue it consumes: deliveries    *)
(* with a per-channel tag, handlers that settle their delivery on whatever *)
(* channel is current when they end, connection and channel losses with    *)
(* the reconnect that follows, and process crashes.                        *)
(*                                                                         *)
(* Every channel the process ever opens has a number, its connection the   *)
(* same one.  The adapter keeps the number of the last in `channel` (0 for *)
(* null); the broker keeps the deliveries of every channel still open.     *)
(***************************************************************************)
EXTENDS Naturals, FiniteSets, Delivery

CONSTANTS
    Bodies,        \* the messages that wait in the queue at the start
    Prefetch,      \* RABBITMQ_PREFETCH_COUNT
    MaxChannels,   \* bound: channels opened
    MaxLosses,     \* bound: connections and channels lost to the outside
    MaxCrashes     \* bound: deaths of the process

VARIABLES
    queue,       \* copies ready for delivery
    dead,        \* copies in the <queue>.dlq
    out,         \* deliveries the broker holds as unacknowledged
    conns,       \* connections open at the broker
    chans,       \* channels open at the broker
    listening,   \* open channels with a consumer attached
    tags,        \* last delivery tag of each channel
    channel,     \* this.channel, 0 for null
    gen,         \* channels opened so far
    active,      \* this.active; FALSE from a loss until the reconnect is done
    dlqKnown,    \* this.declaredDlqs has the queue's DLQ
    running,     \* handlers that have not ended
    settled,     \* bodies whose work succeeded or failed terminally
    fails,       \* transient failures of each body's work, up to DeliveryLimit
    losses, crashes

brokerVars  == <<queue, dead, out, conns, chans, listening, tags>>
adapterVars == <<channel, gen, active, dlqKnown>>
workVars    == <<running, settled, fails>>
vars == <<brokerVars, adapterVars, workVars, losses, crashes>>

Message == Messages(Bodies)
Channels == 1 .. MaxChannels

Delivered == [chan : Channels, tag : Nat, msg : Message]

\* A handler knows its own delivery; `via` is the channel on which it awaits
\* the declaration of the DLQ, 0 while its work runs.
Handlers == [chan : Channels, tag : Nat, msg : Message, via : 0 .. MaxChannels]

TypeOK ==
    /\ queue \in [Message -> Nat]
    /\ dead \in [Message -> Nat]
    /\ out \subseteq Delivered
    /\ chans \subseteq conns
    /\ conns \subseteq 1 .. gen
    /\ listening \subseteq chans
    /\ tags \in [Channels -> Nat]
    /\ gen \in Channels
    /\ channel \in 0 .. gen
    /\ active \in BOOLEAN
    /\ dlqKnown \in BOOLEAN
    /\ running \subseteq Handlers
    /\ settled \subseteq Bodies
    /\ fails \in [Bodies -> 0 .. DeliveryLimit]
    /\ losses \in 0 .. MaxLosses
    /\ crashes \in 0 .. MaxCrashes

Init ==
    /\ queue = [m \in Message |-> IF m.attempt = 0 THEN 1 ELSE 0]
    /\ dead = NoCopies(Message)
    /\ out = {}
    /\ conns = {1}
    /\ chans = {1}
    /\ listening = {1}
    /\ tags = [c \in Channels |-> 0]
    /\ channel = 1
    /\ gen = 1
    /\ active = TRUE
    /\ dlqKnown = FALSE
    /\ running = {}
    /\ settled = {}
    /\ fails = [b \in Bodies |-> 0]
    /\ losses = 0
    /\ crashes = 0

-----------------------------------------------------------------------------
(* What a closed channel does.                                             *)

UnackedOn(gone) == {d \in out : d.chan \in gone}

\* The broker returns every unacknowledged delivery of a closed channel.
Returned(q, gone) ==
    [m \in Message |-> q[m] + Cardinality({d \in UnackedOn(gone) : d.msg = m})]

\* handleConnectionClose: drops the connection and channel it holds, whichever
\* connection or channel it was that closed; ignored while not active.
HandleClose(known) ==
    IF active
    THEN /\ channel' = 0
         /\ active' = FALSE
         /\ dlqKnown' = FALSE
    ELSE /\ dlqKnown' = known
         /\ UNCHANGED <<channel, active>>

\* The channel c closes; q and known are the queue and declaredDlqs by then.
ChannelCloses(c, q, known) ==
    /\ queue' = Returned(q, {c})
    /\ out' = out \ UnackedOn({c})
    /\ chans' = chans \ {c}
    /\ listening' = listening \ {c}
    /\ HandleClose(known)
    /\ UNCHANGED <<tags, gen>>

-----------------------------------------------------------------------------
(* Settling a delivery.                                                    *)

\* Mutant: the ack has the "all up to" flag.
NamedUpTo(h) == {d \in out : d.chan = channel /\ d.tag <= h.tag}

Named(h) == {d \in out : d.chan = channel /\ d.tag = h.tag}

\* ack(raw) on this.channel: the broker settles the delivery of that channel
\* with this tag, and closes the channel when it knows no such delivery.
AckFrame(h, q, known) ==
    IF Named(h) # {}
    THEN /\ out' = out \ Named(h)
         /\ queue' = q
         /\ dlqKnown' = known
         /\ UNCHANGED <<conns, chans, listening, tags, channel, gen, active>>
    ELSE /\ ChannelCloses(channel, q, known)
         /\ UNCHANGED conns

\* Nothing is sent when this.channel is null, and writing to a closed channel
\* throws: the handler ends and the broker, if it lost the channel, redelivers.
NothingSent(known) ==
    /\ dlqKnown' = known
    /\ UNCHANGED <<brokerVars, channel, gen, active>>

Usable == channel \in chans

\* Republish first (queue and DLQ become q and d), then ack.
Acknowledge(h, q, d, known) ==
    IF Usable THEN AckFrame(h, q, known) /\ dead' = d
              ELSE NothingSent(known)

Ends(h) == running' = running \ {h}

\* The work succeeds (ack), or fails with a TerminalError or on a payload that
\* is not JSON (nack without requeue: no dead-letter exchange is configured).
WorkEnds(h) ==
    /\ h.via = 0
    /\ settled' = settled \cup {h.msg.body}
    /\ Ends(h)
    /\ Acknowledge(h, queue, dead, dlqKnown)
    /\ UNCHANGED <<fails, losses, crashes>>

\* Failures are counted as far as DeliveryLimit.
CountFailure(h) ==
    fails' = [fails EXCEPT ![h.msg.body] = IF @ < DeliveryLimit THEN @ + 1 ELSE @]

\* The work fails otherwise: nack with requeue.  The first dead-lettering on a
\* connection awaits the declaration of the DLQ.
WorkFails(h) ==
    /\ h.via = 0
    /\ CountFailure(h)
    /\ IF Exhausted(h.msg) /\ ~dlqKnown /\ Usable
       THEN /\ running' = (running \ {h}) \cup {[h EXCEPT !.via = channel]}
            /\ UNCHANGED <<brokerVars, adapterVars>>
       ELSE /\ Ends(h)
            /\ Acknowledge(h, QueueAfterNack(queue, h.msg),
                           DeadAfterNack(dead, h.msg), dlqKnown)
    /\ UNCHANGED <<settled, losses, crashes>>

DlqDeclared(h) ==
    /\ h.via \in chans
    /\ Ends(h)
    /\ Acknowledge(h, queue, DeadAfterNack(dead, h.msg), TRUE)
    /\ UNCHANGED <<settled, fails, losses, crashes>>

DlqDeclarationFails(h) ==
    /\ h.via # 0
    /\ h.via \notin chans
    /\ Ends(h)
    /\ UNCHANGED <<brokerVars, adapterVars, settled, fails, losses, crashes>>

-----------------------------------------------------------------------------
(* Deliveries and reconnects.                                              *)

Deliver(c, m) ==
    /\ c \in listening
    /\ Cardinality(UnackedOn({c})) < Prefetch
    /\ m \in Waiting(queue)
    /\ tags' = [tags EXCEPT ![c] = @ + 1]
    /\ queue' = Remove(queue, m)
    /\ out' = out \cup {[chan |-> c, tag |-> tags[c] + 1, msg |-> m]}
    /\ running' = running \cup
           {[chan |-> c, tag |-> tags[c] + 1, msg |-> m, via |-> 0]}
    /\ UNCHANGED <<dead, conns, chans, listening, adapterVars, settled, fails,
                   losses, crashes>>

\* openConnection: this.channel is set before the consumers are attached.
OpenConnection ==
    /\ ~active
    /\ ~Usable
    /\ gen < MaxChannels
    /\ gen' = gen + 1
    /\ channel' = gen + 1
    /\ conns' = conns \cup {gen + 1}
    /\ chans' = chans \cup {gen + 1}
    /\ UNCHANGED <<queue, dead, out, listening, tags, active, dlqKnown, workVars,
                   losses, crashes>>

\* Mutant: the consumers are not attached again.
AttachNothing ==
    /\ ~active
    /\ Usable
    /\ active' = TRUE
    /\ UNCHANGED <<brokerVars, channel, gen, dlqKnown, workVars, losses, crashes>>

AttachConsumer ==
    /\ ~active
    /\ Usable
    /\ listening' = listening \cup {channel}
    /\ active' = TRUE
    /\ UNCHANGED <<queue, dead, out, conns, chans, tags, channel, gen, dlqKnown,
                   workVars, losses, crashes>>

-----------------------------------------------------------------------------
(* Faults.                                                                 *)

OneMoreLoss ==
    /\ losses < MaxLosses
    /\ losses' = losses + 1

\* A connection drops, with its channel; it may be one the adapter has long
\* replaced, whose close listener still runs.
LoseConnection(c) ==
    /\ OneMoreLoss
    /\ c \in conns
    /\ conns' = conns \ {c}
    /\ ChannelCloses(c, queue, dlqKnown)
    /\ UNCHANGED <<dead, workVars, crashes>>

\* The broker closes a channel (a delivery unacknowledged for too long).  The
\* adapter forgets the connection without closing it.
LoseChannel(c) ==
    /\ OneMoreLoss
    /\ c \in chans
    /\ ChannelCloses(c, queue, dlqKnown)
    /\ UNCHANGED <<dead, conns, workVars, crashes>>

\* The connection drops after the broker took the republished copy and before
\* it took the ack that follows.
LoseAckOfNack(h) ==
    /\ OneMoreLoss
    /\ h.via = 0
    /\ Usable
    /\ Exhausted(h.msg) => dlqKnown
    /\ CountFailure(h)
    /\ Ends(h)
    /\ dead' = DeadAfterNack(dead, h.msg)
    /\ conns' = conns \ {channel}
    /\ ChannelCloses(channel, QueueAfterNack(queue, h.msg), dlqKnown)
    /\ UNCHANGED <<settled, crashes>>

\* The process dies; its successor connects as after a loss.
Crash ==
    /\ crashes < MaxCrashes
    /\ crashes' = crashes + 1
    /\ queue' = Returned(queue, chans)
    /\ out' = {}
    /\ conns' = {}
    /\ chans' = {}
    /\ listening' = {}
    /\ channel' = 0
    /\ active' = FALSE
    /\ dlqKnown' = FALSE
    /\ running' = {}
    /\ UNCHANGED <<dead, tags, gen, settled, fails, losses>>

-----------------------------------------------------------------------------
HandlerStep(h) ==
    \/ WorkEnds(h)
    \/ WorkFails(h)
    \/ DlqDeclared(h)
    \/ DlqDeclarationFails(h)

SomeHandlerStep == \E h \in running : HandlerStep(h)

SomeDelivery == \E c \in listening, m \in Message : Deliver(c, m)

Reconnect == OpenConnection \/ AttachConsumer

Fault ==
    \/ \E c \in Channels : LoseConnection(c) \/ LoseChannel(c)
    \/ \E h \in running : LoseAckOfNack(h)
    \/ Crash

Next == SomeHandlerStep \/ SomeDelivery \/ Reconnect \/ Fault

-----------------------------------------------------------------------------
(* Properties.                                                             *)

HeldByBroker(b) ==
    \/ \E m \in Waiting(queue) \cup Waiting(dead) : m.body = b
    \/ \E d \in out : d.msg.body = b

\* At-least-once: until a message's work has ended for good the broker holds a
\* copy of it, or a handler that may still requeue it is running.
NothingLost ==
    \A b \in Bodies :
        b \in settled \/ HeldByBroker(b) \/ \E h \in running : h.msg.body = b

\* As long as every channel lives as long as its handlers, crashes included, no
\* message is lost.
NothingLostWithoutLosses == losses = 0 => NothingLost

\* A settlement reaches the delivery it is meant for: a delivery leaves the
\* broker's books only when its channel closes or its own handler ends.
OwnHandlerEnds(d) ==
    \E h \in running : /\ h.chan = d.chan /\ h.tag = d.tag
                       /\ h \notin running'

SettlesOwn ==
    losses' = 0 =>
        \A d \in out \ out' : d.chan \notin chans' \/ OwnHandlerEnds(d)
===============================================================================

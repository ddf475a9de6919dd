---------------------------- MODULE KafkaConsumer -----------------------------
(***************************************************************************)
(* The Kafka adapter's consumer group on one topic: sessions that hand the *)
(* partitions to the members, handlers that run one at a time on each      *)
(* partition, the retry that is republished to the tail before its         *)
(* original's offset is committed, and offsets left behind by a handler    *)
(* that gave up.                                                           *)
(*                                                                         *)
(* Offsets count from the end of what the topic held at the start.  How    *)
(* the members divide the partitions is left open: `session` is the        *)
(* group's generation, and a handler of an older one still runs but can    *)
(* commit no offset.                                                       *)
(***************************************************************************)
EXTENDS Naturals, Sequences, FiniteSets, Delivery

CONSTANTS
    Bodies,        \* the messages published to the topic
    Partitions,    \* its partitions
    NoOffset,      \* the group never committed on a partition
    MaxSessions,   \* bound: generations of the group
    MaxLosses      \* bound: broker calls that fail with the session alive

VARIABLES
    log,         \* the copies each partition ever held
    dead,        \* copies in the <topic>.dlq
    committed,   \* the group's committed offset on each partition
    position,    \* the offset the session reads next
    session,     \* the group's generation
    running,     \* handlers that have not ended
    settled,     \* bodies whose work succeeded or failed terminally
    fails,       \* how often each body was to be retried, up to DeliveryLimit
    skipped,     \* bodies left behind: see GiveUp and Rebalance
    losses

vars == <<log, dead, committed, position, session, running, settled, fails,
          skipped, losses>>

Message == Messages(Bodies)

\* pc: its work runs, its retry waits to be sent, its offset to be committed.
Handlers == [session : 1 .. MaxSessions, partition : Partitions, offset : Nat,
             msg : Message, pc : {"work", "send", "commit"}]

Offsets == Nat \cup {NoOffset}

TypeOK ==
    /\ log \in [Partitions -> Seq(Message)]
    /\ dead \in [Message -> Nat]
    /\ committed \in [Partitions -> Offsets]
    /\ position \in [Partitions -> Nat]
    /\ session \in 1 .. MaxSessions
    /\ running \subseteq Handlers
    /\ settled \subseteq Bodies
    /\ fails \in [Bodies -> 0 .. DeliveryLimit]
    /\ skipped \subseteq Bodies
    /\ losses \in 0 .. MaxLosses

\* subscribe: the group starts where it committed, or at the end (fromBeginning
\* FALSE).
Init ==
    /\ log = [p \in Partitions |-> <<>>]
    /\ dead = NoCopies(Message)
    /\ committed \in [Partitions -> {NoOffset, 0}]
    /\ position = [p \in Partitions |-> 0]
    /\ session = 1
    /\ running = {}
    /\ settled = {}
    /\ fails = [b \in Bodies |-> 0]
    /\ skipped = {}
    /\ losses = 0

-----------------------------------------------------------------------------
Published(b) == \E p \in Partitions : \E i \in DOMAIN log[p] : log[p][i].body = b

\* No key is given: any partition.
Appended(m) == \E p \in Partitions : log' = [log EXCEPT ![p] = Append(@, m)]

Publish(b) ==
    /\ ~Published(b)
    /\ Appended(FirstCopy(b))
    /\ UNCHANGED <<dead, committed, position, session, running, settled, fails,
                   skipped, losses>>

Busy(p) == \E h \in running : h.session = session /\ h.partition = p

\* eachMessage: the next message of a partition once the handler of the last
\* one has ended, whether or not its offset was committed.
Dispatch(p) ==
    /\ ~Busy(p)
    /\ position[p] < Len(log[p])
    /\ running' = running \cup
           {[session |-> session, partition |-> p, offset |-> position[p],
             msg |-> log[p][position[p] + 1], pc |-> "work"]}
    /\ position' = [position EXCEPT ![p] = @ + 1]
    /\ UNCHANGED <<log, dead, committed, session, settled, fails, skipped, losses>>

Live(h) == h.session = session

\* Mutant: every commit is taken.
AnySession(h) == TRUE

Accepted(h) == Live(h)

Goto(h, pc) == running' = (running \ {h}) \cup {[h EXCEPT !.pc = pc]}

Ends(h) == running' = running \ {h}

Commit(h) == committed' = [committed EXCEPT ![h.partition] = h.offset + 1]

CountRetry(h) ==
    fails' = [fails EXCEPT ![h.msg.body] = IF @ < DeliveryLimit THEN @ + 1 ELSE @]

\* The work is done: ack commits past the message.  When the commit is refused
\* the ack throws and the policy's catch has the message retried all the same.
WorkDone(h) ==
    /\ h.pc = "work"
    /\ settled' = settled \cup {h.msg.body}
    /\ IF Accepted(h)
       THEN Commit(h) /\ Ends(h) /\ UNCHANGED fails
       ELSE Goto(h, "send") /\ CountRetry(h) /\ UNCHANGED committed
    /\ UNCHANGED <<log, dead, position, session, skipped, losses>>

\* A TerminalError, or a payload that is not JSON: the offset is committed,
\* and nothing more is tried when it cannot be.
WorkRefused(h) ==
    /\ h.pc = "work"
    /\ settled' = settled \cup {h.msg.body}
    /\ IF Accepted(h) THEN Commit(h) ELSE UNCHANGED committed
    /\ Ends(h)
    /\ UNCHANGED <<log, dead, position, session, fails, skipped, losses>>

\* Mutant: the original is committed before its retry is sent.
CommitThenSend(h) ==
    /\ h.pc = "work"
    /\ Goto(h, "send")
    /\ CountRetry(h)
    /\ IF Accepted(h) THEN Commit(h) ELSE UNCHANGED committed
    /\ UNCHANGED <<log, dead, position, session, settled, skipped, losses>>

WorkFails(h) ==
    /\ h.pc = "work"
    /\ Goto(h, "send")
    /\ CountRetry(h)
    /\ UNCHANGED <<log, dead, committed, position, session, settled, skipped,
                   losses>>

\* nack: the next attempt goes to the tail of the topic, or to its DLQ, and only
\* then is the original's offset committed.
Resend(h) ==
    /\ h.pc = "send"
    /\ dead' = DeadAfterNack(dead, h.msg)
    /\ IF Exhausted(h.msg)
       THEN UNCHANGED log
       ELSE Appended([h.msg EXCEPT !.attempt = NextAttempt(h.msg)])
    /\ Goto(h, "commit")
    /\ UNCHANGED <<committed, position, session, settled, fails, skipped, losses>>

CommitOriginal(h) ==
    /\ h.pc = "commit"
    /\ IF Accepted(h) THEN Commit(h) ELSE UNCHANGED committed
    /\ Ends(h)
    /\ UNCHANGED <<log, dead, position, session, settled, fails, skipped, losses>>

\* A call to the broker fails: nack throws, and dispatchMessage logs the error
\* and returns as if the message had been handled.  Its offset stays uncommitted
\* until a later message of the partition is committed past it.
GiveUp(h) ==
    /\ h.pc = "send"
    /\ losses < MaxLosses
    /\ losses' = losses + 1
    /\ Ends(h)
    /\ skipped' = skipped \cup {h.msg.body}
    /\ UNCHANGED <<log, dead, committed, position, session, settled, fails>>

\* Where a new session reads a partition from.
Resumed(p) == IF committed[p] = NoOffset THEN Len(log[p]) ELSE committed[p]

UnreadOn(p) == {log[p][i].body : i \in DOMAIN log[p]}

\* Members join, leave, crash or outlive their session timeout: the partitions
\* are read again from the committed offsets.  The handlers of a member that
\* died are gone, the others run on.  Where the group never committed it starts
\* at the end, past what it read and did not settle.
Rebalance ==
    /\ session < MaxSessions
    /\ session' = session + 1
    /\ position' = [p \in Partitions |-> Resumed(p)]
    /\ running' \in SUBSET running
    /\ skipped' = skipped \cup
           UNION {UnreadOn(p) : p \in {q \in Partitions : committed[q] = NoOffset}}
    /\ UNCHANGED <<log, dead, committed, settled, fails, losses>>

-----------------------------------------------------------------------------
HandlerStep(h) ==
    \/ WorkDone(h)
    \/ WorkRefused(h)
    \/ WorkFails(h)
    \/ Resend(h)
    \/ CommitOriginal(h)
    \/ GiveUp(h)

SomeHandlerStep == \E h \in running : HandlerStep(h)

SomeDelivery == \E p \in Partitions : Dispatch(p)

SomePublish == \E b \in Bodies : Publish(b)

Next == SomePublish \/ SomeDelivery \/ SomeHandlerStep \/ Rebalance

-----------------------------------------------------------------------------
(* Properties.                                                             *)

\* A copy the present or the next session still reads.
ToBeRead(b) ==
    \E p \in Partitions : \E i \in DOMAIN log[p] :
        /\ log[p][i].body = b
        /\ IF committed[p] = NoOffset THEN i > position[p] ELSE i > committed[p]

Finished(b) == b \in settled \/ \E m \in Waiting(dead) : m.body = b

\* At-least-once: whatever sessions end and members die, a message is settled,
\* dead-lettered, still to be read or being handled, unless its handler gave up
\* or the group lost its place before its first commit.
NothingLost ==
    \A b \in Bodies :
        \/ ~Published(b)
        \/ Finished(b)
        \/ ToBeRead(b)
        \/ \E h \in running : h.msg.body = b
        \/ b \in skipped

\* No handler, least of all one that outlived its session, moves the group back
\* over offsets that were committed.
NeverBack ==
    \A p \in Partitions :
        committed[p] # NoOffset =>
            committed'[p] # NoOffset /\ committed'[p] >= committed[p]
===============================================================================

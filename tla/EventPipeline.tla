----------------------------- MODULE EventPipeline -----------------------------
(***************************************************************************)
(* The webhook event pipeline: the receiver publishes what a provider      *)
(* posts, and the handlers of event-process validate it, drop duplicates   *)
(* by an idempotency key in Redis, enrich it and put it in the buffer of   *)
(* their process, from which batches are inserted into ClickHouse.         *)
(*                                                                         *)
(* The broker message is acknowledged when the event is in the buffer and  *)
(* the idempotency key is set before that: from then on the event exists   *)
(* only in the process.  An event is told from the others of its payload   *)
(* by its turn; in the code each gets a row id of its own (toRow).         *)
(***************************************************************************)
EXTENDS Integers, Sequences, FiniteSets, Delivery

CONSTANTS
    Hosts,        \* event-process replicas
    Workers,      \* their message handlers
    HostOf,       \* the replica of each handler
    Genuine,      \* payloads with a valid envelope and signature
    Rejected,     \* payloads with a bad envelope, signature or platform
    SendsOf,      \* bound: times the provider posts each payload
    BatchSize,    \* BATCH_SIZE
    Retries,      \* RETRY_BACKOFF_MS.length
    MaxExpiries,  \* bound: idempotency keys that expire
    MaxFaults,    \* bound: failed checks, channel losses and failed inserts
    MaxEnds       \* bound: processes that crash or are stopped

Payloads == Genuine \cup Rejected

ASSUME EventAssumption ==
    /\ IsFiniteSet(Workers)
    /\ HostOf \in [Workers -> Hosts]
    /\ SendsOf \in [Payloads -> Nat]
    /\ BatchSize \in Nat \ {0}
    /\ Retries \in Nat
    /\ MaxExpiries \in Nat
    /\ MaxFaults \in Nat
    /\ MaxEnds \in Nat

VARIABLES
    sent,      \* times each payload has been posted and published
    queue,     \* events.received.<platform>
    dead,      \* its dead-letter queue
    marked,    \* payloads with an idempotency key in Redis
    pc, msg,   \* next step and copy of each handler
    owned,     \* FALSE once the copy went back to the queue under the handler
    event,     \* the event that a handler has made of its payload, or none
    buffer,    \* each process's events that wait for a batch
    timer,     \* the flush timer of each process is armed
    chain,     \* each process's batches to insert, one after the other
    tries,     \* failed inserts of its first batch
    stored,    \* events with a row in ClickHouse
    failed,    \* events on events.failed
    won,       \* history: events made of each payload, one whenever its key was set
    lost,      \* history: those that vanished from a process
    doubtful,  \* history: those inserted by an attempt that was reported as failed
    expiries, faults, crashes, stops

brokerVars  == <<sent, queue, dead>>
handlerVars == <<pc, msg, owned, event>>
writerVars  == <<buffer, timer, chain, tries>>
outputVars  == <<stored, failed>>
endVars     == <<crashes, stops>>
countVars   == <<expiries, faults, endVars>>
historyVars == <<won, lost, doubtful>>
vars == <<brokerVars, marked, handlerVars, writerVars, outputVars, historyVars, countVars>>

Message == Messages(Payloads)

NoMessage == FirstCopy("none")

EventOf(p, n) == [payload |-> p, turn |-> n]
Events == [payload : Genuine, turn : Nat \ {0}]
NoEvent == EventOf("none", 0)

Steps == {"idle", "validate", "check", "enqueue", "ack"}

-----------------------------------------------------------------------------
TypeOK ==
    /\ sent \in [Payloads -> Nat]
    /\ queue \in [Message -> Nat]
    /\ dead \in [Message -> Nat]
    /\ marked \in SUBSET Genuine
    /\ pc \in [Workers -> Steps]
    /\ msg \in [Workers -> Message \cup {NoMessage}]
    /\ owned \in [Workers -> BOOLEAN]
    /\ event \in [Workers -> Events \cup {NoEvent}]
    /\ buffer \in [Hosts -> SUBSET Events]
    /\ timer \in [Hosts -> BOOLEAN]
    /\ chain \in [Hosts -> Seq(SUBSET Events)]
    /\ tries \in [Hosts -> 0 .. Retries + 1]
    /\ stored \in SUBSET Events
    /\ failed \in SUBSET Events
    /\ won \in [Payloads -> Nat]
    /\ lost \in SUBSET Events
    /\ doubtful \in SUBSET Events
    /\ expiries \in Nat
    /\ \A h \in Hosts : IsFiniteSet(buffer[h]) /\ Cardinality(buffer[h]) < BatchSize

Init ==
    /\ sent = [p \in Payloads |-> 0]
    /\ queue = NoCopies(Message)
    /\ dead = NoCopies(Message)
    /\ marked = {}
    /\ pc = [w \in Workers |-> "idle"]
    /\ msg = [w \in Workers |-> NoMessage]
    /\ owned = [w \in Workers |-> FALSE]
    /\ event = [w \in Workers |-> NoEvent]
    /\ buffer = [h \in Hosts |-> {}]
    /\ timer = [h \in Hosts |-> FALSE]
    /\ chain = [h \in Hosts |-> <<>>]
    /\ tries = [h \in Hosts |-> 0]
    /\ stored = {}
    /\ failed = {}
    /\ won = [p \in Payloads |-> 0]
    /\ lost = {}
    /\ doubtful = {}
    /\ expiries = 0
    /\ faults = 0
    /\ crashes = 0
    /\ stops = 0

Fault ==
    /\ faults < MaxFaults
    /\ faults' = faults + 1
    /\ UNCHANGED <<expiries, endVars>>

-----------------------------------------------------------------------------
(* The receiver.  A provider posts again when it got no 200.               *)

Receive(p) ==
    /\ sent[p] < SendsOf[p]
    /\ sent' = [sent EXCEPT ![p] = @ + 1]
    /\ queue' = Add(queue, FirstCopy(p))
    /\ UNCHANGED <<dead, marked, handlerVars, writerVars, outputVars, historyVars, countVars>>

\* An idempotency key reaches its TTL.
Expire(p) ==
    /\ p \in marked
    /\ expiries < MaxExpiries
    /\ expiries' = expiries + 1
    /\ marked' = marked \ {p}
    /\ UNCHANGED <<brokerVars, handlerVars, writerVars, outputVars, historyVars, faults,
                   endVars>>

-----------------------------------------------------------------------------
(* A handler: EventProcessService.handle under processWithAckPolicy.       *)

Payload(w) == msg[w].body

Goto(w, step) == pc' = [pc EXCEPT ![w] = step]

\* The handler is done with its copy.
Settle(w) ==
    /\ Goto(w, "idle")
    /\ msg' = [msg EXCEPT ![w] = NoMessage]
    /\ owned' = [owned EXCEPT ![w] = FALSE]

Deliver(w, m) ==
    /\ pc[w] = "idle"
    /\ m \in Waiting(queue)
    /\ queue' = Remove(queue, m)
    /\ msg' = [msg EXCEPT ![w] = m]
    /\ owned' = [owned EXCEPT ![w] = TRUE]
    /\ Goto(w, "validate")
    /\ UNCHANGED <<sent, dead, marked, event, writerVars, outputVars, historyVars, countVars>>

\* A bad signature returns and is acknowledged; a bad envelope is a TerminalError,
\* for which nack(requeue = false) drops the copy just as well.
Validate(w) ==
    /\ pc[w] = "validate"
    /\ Goto(w, IF Payload(w) \in Genuine THEN "check" ELSE "ack")
    /\ UNCHANGED <<brokerVars, marked, msg, owned, event, writerVars, outputVars, historyVars,
                   countVars>>

\* The payload becomes an event of its own, the next of its events.
Win(p) == won' = [won EXCEPT ![p] = @ + 1]
NextEvent(p) == EventOf(p, won[p] + 1)

Makes(w) ==
    /\ Win(Payload(w))
    /\ event' = [event EXCEPT ![w] = NextEvent(Payload(w))]

Lose(e) == lost' = lost \cup {e} /\ UNCHANGED doubtful

\* Mutant: the key is set whether it exists or not.
MarkAnyway(w) ==
    /\ pc[w] = "check"
    /\ marked' = marked \cup {Payload(w)}
    /\ Makes(w)
    /\ Goto(w, "enqueue")
    /\ UNCHANGED <<brokerVars, msg, owned, writerVars, outputVars, lost, doubtful, countVars>>

\* SET key NX EX: the first handler goes on, all others acknowledge.
CheckAndMark(w) ==
    /\ pc[w] = "check"
    /\ marked' = marked \cup {Payload(w)}
    /\ IF Payload(w) \in marked
       THEN Goto(w, "ack") /\ UNCHANGED <<won, event>>
       ELSE Goto(w, "enqueue") /\ Makes(w)
    /\ UNCHANGED <<brokerVars, msg, owned, writerVars, outputVars, lost, doubtful, countVars>>

\* A batch leaves the buffer for the flush chain.
FlushInto(h, events) ==
    /\ chain' = [chain EXCEPT ![h] = Append(@, events)]
    /\ buffer' = [buffer EXCEPT ![h] = {}]
    /\ timer' = [timer EXCEPT ![h] = FALSE]

\* Mutant: only a full batch is flushed.
EnqueueUnarmed(w) ==
    LET h == HostOf[w]
        events == buffer[h] \cup {event[w]}
    IN /\ pc[w] = "enqueue"
       /\ IF Cardinality(events) >= BatchSize
          THEN FlushInto(h, events)
          ELSE buffer' = [buffer EXCEPT ![h] = events] /\ UNCHANGED <<timer, chain>>
       /\ Goto(w, "ack")
       /\ event' = [event EXCEPT ![w] = NoEvent]
       /\ UNCHANGED <<brokerVars, marked, msg, owned, tries, outputVars, historyVars, countVars>>

\* enrich() touches nothing shared and does not throw; enqueue() flushes a full
\* batch and otherwise makes sure that the timer runs.
Enqueue(w) ==
    LET h == HostOf[w]
        events == buffer[h] \cup {event[w]}
    IN /\ pc[w] = "enqueue"
       /\ IF Cardinality(events) >= BatchSize
          THEN FlushInto(h, events)
          ELSE /\ buffer' = [buffer EXCEPT ![h] = events]
               /\ timer' = [timer EXCEPT ![h] = TRUE]
               /\ UNCHANGED chain
       /\ Goto(w, "ack")
       /\ event' = [event EXCEPT ![w] = NoEvent]
       /\ UNCHANGED <<brokerVars, marked, msg, owned, tries, outputVars, historyVars, countVars>>

\* The copy is settled; after a channel loss nothing is sent for it.
Finish(w) ==
    /\ pc[w] = "ack"
    /\ Settle(w)
    /\ UNCHANGED <<brokerVars, marked, event, writerVars, outputVars, historyVars, countVars>>

\* nack(requeue = true).
Requeue(w) ==
    /\ IF owned[w]
       THEN /\ queue' = QueueAfterNack(queue, msg[w])
            /\ dead' = DeadAfterNack(dead, msg[w])
       ELSE UNCHANGED <<queue, dead>>
    /\ Settle(w)

\* Redis refuses the script: the handler throws.
CheckFails(w) ==
    /\ pc[w] = "check"
    /\ Fault
    /\ Requeue(w)
    /\ UNCHANGED <<sent, marked, event, writerVars, outputVars, historyVars>>

\* Redis runs the script and its reply is lost.  ioredis sends the command again
\* and gets 0 for the key it has just set, or gives up and the handler throws.
ReplyLost(w) ==
    /\ pc[w] = "check"
    /\ Fault
    /\ marked' = marked \cup {Payload(w)}
    /\ IF Payload(w) \in marked
       THEN UNCHANGED historyVars
       ELSE Win(Payload(w)) /\ Lose(NextEvent(Payload(w)))
    /\ \/ Goto(w, "ack") /\ UNCHANGED <<queue, dead, msg, owned>>
       \/ Requeue(w)
    /\ UNCHANGED <<sent, event, writerVars, outputVars>>

\* The channel drops: the broker returns the copy while the handler runs on.
LoseChannel(w) ==
    /\ pc[w] # "idle" /\ owned[w]
    /\ Fault
    /\ queue' = Add(queue, msg[w])
    /\ owned' = [owned EXCEPT ![w] = FALSE]
    /\ UNCHANGED <<sent, dead, marked, pc, msg, event, writerVars, outputVars, historyVars>>

-----------------------------------------------------------------------------
(* The writer of a process: ClickHouseWriterService.                       *)

\* scheduleFlush of the timer.
TimerFires(h) ==
    /\ timer[h]
    /\ FlushInto(h, buffer[h])
    /\ UNCHANGED <<brokerVars, marked, handlerVars, tries, outputVars, historyVars, countVars>>

Batch(h) == Head(chain[h])

Inserting(h) == chain[h] # <<>> /\ tries[h] <= Retries

Insert(h) ==
    /\ Inserting(h)
    /\ stored' = stored \cup Batch(h)
    /\ chain' = [chain EXCEPT ![h] = Tail(@)]
    /\ tries' = [tries EXCEPT ![h] = 0]
    /\ UNCHANGED <<brokerVars, marked, handlerVars, buffer, timer, failed, historyVars, countVars>>

\* The insert fails, or is made and reported as failed.
InsertFails(h) ==
    /\ Inserting(h)
    /\ Fault
    /\ \/ UNCHANGED <<stored, doubtful>>
       \/ stored' = stored \cup Batch(h) /\ doubtful' = doubtful \cup Batch(h)
    /\ tries' = [tries EXCEPT ![h] = @ + 1]
    /\ UNCHANGED <<brokerVars, marked, handlerVars, buffer, timer, chain, failed, won, lost>>

\* Mutant: a batch that cannot be inserted is dropped after its first event.
DropRest(h, e) == chain' = [chain EXCEPT ![h] = Tail(@)] /\ tries' = [tries EXCEPT ![h] = 0]

NextOfBatch(h, e) ==
    IF Batch(h) # {e}
    THEN chain' = [chain EXCEPT ![h] = <<Head(@) \ {e}>> \o Tail(@)] /\ UNCHANGED tries
    ELSE chain' = [chain EXCEPT ![h] = Tail(@)] /\ tries' = [tries EXCEPT ![h] = 0]

\* After the last attempt each event of the batch, one after the other, goes to
\* events.failed; an error of that publish is counted and swallowed.
GiveUpEvent(h) ==
    /\ chain[h] # <<>> /\ tries[h] > Retries
    /\ \E e \in Batch(h) :
        /\ \/ failed' = failed \cup {e} /\ UNCHANGED <<lost, doubtful>>
           \/ Lose(e) /\ UNCHANGED failed
        /\ NextOfBatch(h, e)
    /\ UNCHANGED <<brokerVars, marked, handlerVars, buffer, timer, stored, won, countVars>>

HandlersOf(h) == {w \in Workers : HostOf[w] = h}

Chained(h) == UNION {chain[h][i] : i \in DOMAIN chain[h]}

\* What the process holds in memory.
EventsIn(h) ==
    ({event[w] : w \in HandlersOf(h)} \ {NoEvent}) \cup buffer[h] \cup Chained(h)

\* The process ends.  Unacknowledged copies return to the queue, what it held
\* in memory is gone, and its replacement starts empty.
End(h) ==
    /\ crashes + stops < MaxEnds
    /\ queue' = [m \in Message |-> queue[m] +
                    Cardinality({w \in HandlersOf(h) : owned[w] /\ msg[w] = m})]
    /\ lost' = lost \cup EventsIn(h)
    /\ pc' = [w \in Workers |-> IF w \in HandlersOf(h) THEN "idle" ELSE pc[w]]
    /\ msg' = [w \in Workers |-> IF w \in HandlersOf(h) THEN NoMessage ELSE msg[w]]
    /\ owned' = [w \in Workers |-> owned[w] /\ w \notin HandlersOf(h)]
    /\ event' = [w \in Workers |-> IF w \in HandlersOf(h) THEN NoEvent ELSE event[w]]
    /\ buffer' = [buffer EXCEPT ![h] = {}]
    /\ timer' = [timer EXCEPT ![h] = FALSE]
    /\ chain' = [chain EXCEPT ![h] = <<>>]
    /\ tries' = [tries EXCEPT ![h] = 0]
    /\ UNCHANGED <<sent, dead, marked, outputVars, won, doubtful, expiries, faults>>

Crash(h) == End(h) /\ crashes' = crashes + 1 /\ UNCHANGED stops

\* A SIGTERM of a deployment.  main.ts enables no shutdown hooks and installs no
\* handler, so the onModuleDestroy that would flush the buffer never runs.
Stop(h) == End(h) /\ stops' = stops + 1 /\ UNCHANGED crashes

-----------------------------------------------------------------------------
Step(w) ==
    \/ \E m \in Message : Deliver(w, m)
    \/ Validate(w) \/ CheckAndMark(w) \/ Enqueue(w) \/ Finish(w)

Write(h) == TimerFires(h) \/ Insert(h) \/ GiveUpEvent(h)

Next ==
    \/ \E p \in Payloads : Receive(p) \/ Expire(p)
    \/ \E w \in Workers : Step(w) \/ CheckFails(w) \/ ReplyLost(w) \/ LoseChannel(w)
    \/ \E h \in Hosts : Write(h) \/ InsertFails(h) \/ Crash(h) \/ Stop(h)

Spec == Init /\ [][Next]_vars

\* Consumers take what waits, handlers run on, timers fire, and the flush chain
\* goes on to its next attempt; providers, expiry, faults and ends of processes are free.
Fairness ==
    /\ \A w \in Workers : WF_vars(Step(w))
    /\ \A h \in Hosts : WF_vars(TimerFires(h)) /\ WF_vars(Insert(h) \/ GiveUpEvent(h))

FairSpec == Spec /\ Fairness

-----------------------------------------------------------------------------
(* Properties.                                                             *)

Undecided(p) ==
    \/ \E m \in Waiting(queue) \cup Waiting(dead) : m.body = p
    \/ \E w \in Workers : owned[w] /\ Payload(w) = p /\ pc[w] \in {"validate", "check"}

InMemory == UNION {EventsIn(h) : h \in Hosts}

\* An accepted payload still waits for its verdict or became an event, and every
\* event is in a process, stored or on events.failed, or vanished in one of the
\* known windows: a process that ends after the mark, a lost reply to the mark,
\* a failed publish to events.failed.  Redeliveries, replicas, duplicates,
\* expired keys, retried and failed inserts open no other window.
NothingElseLost ==
    \A p \in Genuine :
        /\ sent[p] > 0 => Undecided(p) \/ won[p] > 0
        /\ \A n \in 1 .. won[p] : EventOf(p, n) \in InMemory \cup stored \cup failed \cup lost

\* Where an event is in the memory of the processes.
Places(e) ==
    {<<"handler", w, 0>> : w \in {v \in Workers : event[v] = e}}
    \cup {<<"buffer", h, 0>> : h \in {g \in Hosts : e \in buffer[g]}}
    \cup UNION {{<<"chain", h, i>> : i \in {j \in DOMAIN chain[h] : e \in chain[h][j]}} : h \in Hosts}

\* However often a payload is posted and redelivered, and to whichever replica,
\* it becomes one event, and another one only after its key expired.  An event is
\* at one place, and leaves it for one destination: it is in a row beside
\* another place, or has a second row, only by an insert that was made and
\* reported as failed.
OneEventPerKey ==
    /\ \A p \in Genuine : won[p] <= 1 + expiries
    /\ \A e \in InMemory : \A x, y \in Places(e) : x = y
    /\ failed \cap lost = {} /\ InMemory \cap (failed \cup lost) = {}
    /\ stored \cap (InMemory \cup failed \cup lost) \subseteq doubtful

\* Every payload is accounted for: neither lost nor multiplied but in the named
\* windows.
PayloadsAccounted == TypeOK /\ NothingElseLost /\ OneEventPerKey

\* Every accepted payload in the end becomes an event or is dead-lettered, and
\* its events leave the process: no buffer and no flush chain holds them for ever.
EventuallySettled ==
    \A p \in Genuine :
        sent[p] > 0 ~> /\ \A e \in InMemory : e.payload # p
                       /\ won[p] > 0 \/ \E m \in Waiting(dead) : m.body = p
===============================================================================

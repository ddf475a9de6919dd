---------------------------- MODULE EventIngestion ----------------------------
(***************************************************************************)
(* The event API's way to ClickHouse: the request is answered "queued"     *)
(* while the event is still being sent, a queue of QUEUE_MODE carries it,  *)
(* a consumer stores it (for Kafka, ClickHouse's own engine table), and    *)
(* the segments are evaluated on the way.                                  *)
(*                                                                         *)
(* RUN_MODE single has everything in one process; otherwise a process of   *)
(* mode api takes the requests and an event-worker consumes.               *)
(*                                                                         *)
(* AtomicSegmentProcessor is what an event does to one contact's           *)
(* membership of one small segment.  Two seconds after the event was       *)
(* queued, and again when a consumer reads it, the contact is evaluated    *)
(* against the stored events, its assignment is written and read back,     *)
(* and the segment's counter in PostgreSQL follows.  The segment is        *)
(* "performed E", without a time window, and every event is an E of the    *)
(* same contact: whoever has a stored event belongs to it.                 *)
(***************************************************************************)
EXTENDS Naturals, FiniteSets

CONSTANTS
    Events,          \* the contact's events
    Modes,           \* pairs of QUEUE_MODE and RUN_MODE
    RequeueLimit,    \* x-delivery-limit of the quorum queue
    MaxFaults        \* bound, by mode: failing calls, lost connections, deaths

ASSUME IngestionAssumption ==
    /\ Modes \subseteq {"direct", "redis", "kafka", "rabbitmq"} \X {"single", "split"}
    /\ RequeueLimit \in Nat
    /\ MaxFaults \in [Modes -> Nat]

VARIABLES
    stored,        \* rows of each event in contact_events
    eval,          \* the evaluation of each event, by who asked for it
    assigned,      \* the contact's newest row in computed_property_assignments
    count,         \* segments.contacts_count
    overlapped,    \* history: an evaluation ran beside another one
    mode,          \* the configuration
    request,       \* the producer's side of each event
    inQueue,       \* where the queue has each event
    returns,       \* how often RabbitMQ has taken a delivery back
    held,          \* the consumer's handler of each event
    connected,     \* RabbitMQService's connection; nothing reconnects it
    lost,          \* history: events given up, see the actions that do
    deaths, faults

atomicVars == <<stored, eval, assigned, count, overlapped>>
ingestVars == <<mode, request, inQueue, returns, held, connected, lost, deaths, faults>>
ingestionVars == <<atomicVars, ingestVars>>

\* processSegmentsForEvent is called after the producer's answer and by the
\* Kafka consumer.
Callers == {"producer", "consumer"}
Slots == Events \X Callers

Phases == {"none", "timer", "write", "confirm", "done", "dropped"}

NoEvaluation == [pc |-> "none", should |-> FALSE]

queueMode == mode[1]
Single == mode[2] = "single"

IngestTypeOK ==
    /\ stored \in [Events -> Nat]
    /\ eval \in [Slots -> [pc : Phases, should : BOOLEAN]]
    /\ assigned \in BOOLEAN
    /\ count \in Nat
    /\ overlapped \in BOOLEAN
    /\ mode \in Modes
    /\ request \in [Events -> {"new", "sending", "answered"}]
    /\ inQueue \in [Events -> {"none", "waiting", "unacked", "read", "committed"}]
    /\ returns \in [Events -> 0 .. RequeueLimit]
    /\ held \in [Events -> {"no", "saving", "saved"}]
    /\ connected \in BOOLEAN
    /\ lost \subseteq Events
    /\ deaths \in 0 .. MaxFaults[mode] + 1
    /\ faults \in 0 .. MaxFaults[mode]

AtomicInit ==
    /\ stored = [e \in Events |-> 0]
    /\ eval = [s \in Slots |-> NoEvaluation]
    /\ assigned = FALSE
    /\ count = 0
    /\ overlapped = FALSE

IngestInit ==
    /\ AtomicInit
    /\ mode \in Modes
    /\ request = [e \in Events |-> "new"]
    /\ inQueue = [e \in Events |-> "none"]
    /\ returns = [e \in Events |-> 0]
    /\ held = [e \in Events |-> "no"]
    /\ connected = TRUE
    /\ lost = {}
    /\ deaths = 0
    /\ faults = 0

-----------------------------------------------------------------------------
(* The evaluations of an event.                                           *)

\* The 2 s timer that processSegmentsForEvent sets, in memory.
Scheduled(s) == [eval EXCEPT ![s] = [NoEvaluation EXCEPT !.pc = "timer"]]

InProgress == {s \in Slots : eval[s].pc \in {"write", "confirm"}}

\* The evaluations of a segment are independent and may overlap.
Overlapping == InProgress # {}

\* Mutant: only the event itself is looked at.
OwnEventStored(s) == stored[s[1]] > 0

\* evaluateContactForSegment: any stored event of the contact.
Meets(s) == \E e \in Events : stored[e] > 0

\* The timer fires.  That the assignment is read first has no effect: the value
\* is a Boolean, and `=== 1` makes previousValue false whatever it is.
Evaluate(s) ==
    /\ eval[s].pc = "timer"
    /\ eval' = [eval EXCEPT ![s] = [pc |-> "write", should |-> Meets(s)]]
    /\ overlapped' = (overlapped \/ Overlapping)
    /\ UNCHANGED <<stored, assigned, count>>

\* updateContactSegmentAssignment: the newest row wins.
WriteAssignment(s) ==
    /\ eval[s].pc = "write"
    /\ assigned' = eval[s].should
    /\ eval' = [eval EXCEPT ![s].pc = "confirm"]
    /\ UNCHANGED <<stored, count, overlapped>>

\* Mutant: a change is what differs from the value the contact should have.
ChangeOfOwn(s) == IF assigned # eval[s].should THEN 1 ELSE 0

\* What the counter gains: the value read back against previousValue, false.
Gain(s) == IF assigned THEN 1 ELSE 0

\* The assignment is read back and the counter incremented, in one UPDATE.
Confirm(s) ==
    /\ eval[s].pc = "confirm"
    /\ count' = count + Gain(s)
    /\ eval' = [eval EXCEPT ![s].pc = "done"]
    /\ UNCHANGED <<stored, assigned, overlapped>>

EvaluationStep == \E s \in Slots : Evaluate(s) \/ WriteAssignment(s) \/ Confirm(s)

\* Nothing is evaluated: the circuit is open, the list of segments could not be
\* read or is an old one, or an insert fails.
Drop(s) ==
    /\ eval[s].pc \in {"timer", "write"}
    /\ eval' = [eval EXCEPT ![s].pc = "dropped"]
    /\ UNCHANGED <<stored, assigned, count, overlapped>>

\* A query that fails counts as not meeting the criteria, or as not assigned.
Misjudge(s) ==
    \/ /\ eval[s].pc = "timer"
       /\ eval' = [eval EXCEPT ![s] = [pc |-> "write", should |-> FALSE]]
       /\ overlapped' = (overlapped \/ Overlapping)
       /\ UNCHANGED <<stored, assigned, count>>
    \/ /\ eval[s].pc = "confirm"
       /\ eval' = [eval EXCEPT ![s].pc = "done"]
       /\ UNCHANGED <<stored, assigned, count, overlapped>>

\* The process with these evaluations dies.
Forgotten(slots) ==
    [s \in Slots |-> IF s \in slots /\ eval[s].pc # "done" THEN NoEvaluation
                     ELSE eval[s]]

-----------------------------------------------------------------------------
(* The request.                                                            *)

\* processEvent answers "queued" without waiting for the queue.
Answer(e) ==
    /\ request[e] = "new"
    /\ request' = [request EXCEPT ![e] = "sending"]
    /\ UNCHANGED <<atomicVars, mode, inQueue, returns, held, connected, lost, deaths,
                   faults>>

\* The queue processors return status "error" instead of throwing: segments are
\* processed whatever became of the event, in the modes that process them.
AfterSend(e) ==
    /\ request' = [request EXCEPT ![e] = "answered"]
    /\ eval' = IF Single THEN Scheduled(<<e, "producer">>) ELSE eval
    /\ UNCHANGED <<assigned, count, overlapped, mode, returns, held, connected,
                   deaths>>

Enqueued(e) == inQueue' = [inQueue EXCEPT ![e] = "waiting"]
StoredOnce(e) == stored' = [stored EXCEPT ![e] = @ + 1]

Send(e) ==
    /\ request[e] = "sending"
    /\ queueMode = "rabbitmq" => connected
    /\ IF queueMode = "direct"
       THEN StoredOnce(e) /\ UNCHANGED inQueue
       ELSE Enqueued(e) /\ UNCHANGED stored
    /\ AfterSend(e)
    /\ UNCHANGED <<lost, faults>>

\* A channel that was closed under the producer: every publish throws.
SendRefused(e) ==
    /\ request[e] = "sending"
    /\ queueMode = "rabbitmq"
    /\ ~connected
    /\ lost' = lost \cup {e}
    /\ AfterSend(e)
    /\ UNCHANGED <<stored, inQueue, faults>>

-----------------------------------------------------------------------------
(* The consumers.                                                          *)

Unchanged_ == UNCHANGED <<assigned, count, overlapped, mode, request, deaths>>

\* Mutant: the delivery is acknowledged before the event is saved.
AckBeforeSave(e) ==
    /\ queueMode \in {"redis", "rabbitmq"}
    /\ inQueue[e] = "waiting"
    /\ held[e] = "no"
    /\ queueMode = "rabbitmq" => connected
    /\ inQueue' = [inQueue EXCEPT ![e] = "none"]
    /\ held' = [held EXCEPT ![e] = "saving"]
    /\ UNCHANGED <<stored, eval, returns, connected, lost, faults>>
    /\ Unchanged_

\* BRPOP takes the event off the list; RabbitMQ keeps its delivery.
Take(e) ==
    /\ queueMode \in {"redis", "rabbitmq"}
    /\ inQueue[e] = "waiting"
    /\ held[e] = "no"
    /\ queueMode = "rabbitmq" => connected
    /\ inQueue' = [inQueue EXCEPT ![e] = IF queueMode = "redis" THEN "none" ELSE "unacked"]
    /\ held' = [held EXCEPT ![e] = "saving"]
    /\ UNCHANGED <<stored, eval, returns, connected, lost, faults>>
    /\ Unchanged_

\* saveEvent, and no more: these consumers process no segments.
Save(e) ==
    /\ held[e] = "saving"
    /\ StoredOnce(e)
    /\ held' = [held EXCEPT ![e] = IF queueMode = "redis" THEN "no" ELSE "saved"]
    /\ UNCHANGED <<eval, inQueue, returns, connected, lost, faults>>
    /\ Unchanged_

Ack(e) ==
    /\ held[e] = "saved"
    /\ connected
    /\ held' = [held EXCEPT ![e] = "no"]
    /\ inQueue' = [inQueue EXCEPT ![e] = "none"]
    /\ UNCHANGED <<stored, eval, returns, connected, lost, faults>>
    /\ Unchanged_

\* ClickHouse's Kafka engine table and its materialized view store the event.
EngineStores(e) ==
    /\ queueMode = "kafka"
    /\ inQueue[e] # "none"
    /\ stored[e] = 0
    /\ StoredOnce(e)
    /\ UNCHANGED <<eval, inQueue, returns, held, connected, lost, faults>>
    /\ Unchanged_

\* The application's own consumer group only processes segments; its handler
\* returns as soon as the timer is set, and offsets are committed after it.
Consume(e) ==
    /\ queueMode = "kafka"
    /\ inQueue[e] = "waiting"
    /\ inQueue' = [inQueue EXCEPT ![e] = "read"]
    /\ eval' = Scheduled(<<e, "consumer">>)
    /\ UNCHANGED <<stored, returns, held, connected, lost, faults>>
    /\ Unchanged_

AutoCommit(e) ==
    /\ inQueue[e] = "read"
    /\ inQueue' = [inQueue EXCEPT ![e] = "committed"]
    /\ UNCHANGED <<stored, eval, returns, held, connected, lost, faults>>
    /\ Unchanged_

-----------------------------------------------------------------------------
(* Deaths.                                                                 *)

\* A delivery RabbitMQ takes back more than RequeueLimit times is dropped, no
\* dead-letter exchange being configured.
TakenBack(taken) ==
    /\ inQueue' = [e \in Events |->
                    IF e \notin taken THEN inQueue[e]
                    ELSE IF returns[e] < RequeueLimit THEN "waiting" ELSE "none"]
    /\ returns' = [e \in Events |->
                      IF e \in taken /\ returns[e] < RequeueLimit
                      THEN returns[e] + 1 ELSE returns[e]]

DroppedOf(taken) == {e \in taken : returns[e] = RequeueLimit /\ stored[e] = 0}

Unacked == {e \in Events : inQueue[e] = "unacked"}

\* What the list or the request no longer has is lost with the process.
InHands(worker, api) ==
    {e \in Events : \/ worker /\ queueMode = "redis" /\ held[e] = "saving"
                    \/ api /\ request[e] = "sending"}

\* A process dies and comes back, connected.  Uncommitted offsets are read again.
Dies(worker, api) ==
    /\ deaths' = deaths + 1
    /\ connected' = TRUE
    /\ IF worker
       THEN /\ IF queueMode = "kafka"
               THEN /\ inQueue' = [e \in Events |-> IF inQueue[e] = "read" THEN "waiting"
                                                  ELSE inQueue[e]]
                    /\ UNCHANGED returns
               ELSE TakenBack(Unacked)
            /\ held' = [e \in Events |-> "no"]
            /\ eval' = Forgotten(Slots)
       ELSE UNCHANGED <<inQueue, returns, held, eval>>
    /\ lost' = lost \cup InHands(worker, api)
                    \cup (IF worker THEN DroppedOf(Unacked) ELSE {})
    /\ request' = [e \in Events |-> IF api /\ request[e] = "sending" THEN "answered"
                                    ELSE request[e]]
    /\ UNCHANGED <<stored, assigned, count, overlapped, mode>>

\* An ack on the closed channel throws, the ack of the handler's catch and the
\* nack of the callback's catch throw too: the unhandled rejection ends Node.
AckThrows(e) ==
    /\ held[e] = "saved"
    /\ ~connected
    /\ Dies(TRUE, Single)
    /\ UNCHANGED faults

-----------------------------------------------------------------------------
(* Faults.                                                                 *)

Fault ==
    /\ faults < MaxFaults[mode]
    /\ faults' = faults + 1

\* lpush, the producer or the insert fails, which only the log shows.
SendFails(e) ==
    /\ Fault
    /\ request[e] = "sending"
    /\ lost' = lost \cup {e}
    /\ AfterSend(e)
    /\ UNCHANGED <<stored, inQueue>>

\* publish returns false: the message is in the buffer all the same.
BufferFull(e) ==
    /\ Fault
    /\ request[e] = "sending"
    /\ queueMode = "rabbitmq"
    /\ connected
    /\ Enqueued(e)
    /\ AfterSend(e)
    /\ UNCHANGED <<stored, lost>>

\* Redis has no copy left; RabbitMQ's consumer discards what it does not hold
\* for a passing failure.
SaveFails(e) ==
    /\ Fault
    /\ held[e] = "saving"
    /\ connected
    /\ held' = [held EXCEPT ![e] = "no"]
    /\ inQueue' = [inQueue EXCEPT ![e] = "none"]
    /\ lost' = IF stored[e] = 0 THEN lost \cup {e} ELSE lost
    /\ UNCHANGED <<stored, eval, returns, connected>>
    /\ Unchanged_

\* "connection", "timeout", ... in its message: nack with requeue.
SaveFailsForNow(e) ==
    /\ Fault
    /\ held[e] = "saving"
    /\ queueMode = "rabbitmq"
    /\ connected
    /\ held' = [held EXCEPT ![e] = "no"]
    /\ TakenBack({e})
    /\ lost' = lost \cup DroppedOf({e})
    /\ UNCHANGED <<stored, eval, connected>>
    /\ Unchanged_

\* The connection closes, which is logged.  Handlers run on.
LoseConnection ==
    /\ Fault
    /\ queueMode = "rabbitmq"
    /\ connected
    /\ connected' = FALSE
    /\ TakenBack(Unacked)
    /\ lost' = lost \cup DroppedOf(Unacked)
    /\ UNCHANGED <<stored, eval, held>>
    /\ Unchanged_

Death ==
    /\ Fault
    /\ IF Single THEN Dies(TRUE, TRUE)
       ELSE Dies(TRUE, FALSE) \/ Dies(FALSE, TRUE)

EvaluationFails ==
    /\ Fault
    /\ \E s \in Slots : Drop(s) \/ Misjudge(s)
    /\ UNCHANGED <<mode, request, inQueue, returns, held, connected, lost, deaths>>

-----------------------------------------------------------------------------
Produce == \E e \in Events : Send(e) \/ SendRefused(e)

Handle ==
    \E e \in Events : \/ Take(e) \/ Save(e) \/ Ack(e) \/ AckThrows(e)
                      \/ EngineStores(e) \/ Consume(e) \/ AutoCommit(e)

Evaluating == EvaluationStep /\ UNCHANGED ingestVars

Faults ==
    \/ \E e \in Events : SendFails(e) \/ BufferFull(e) \/ SaveFails(e)
                         \/ SaveFailsForNow(e)
    \/ LoseConnection
    \/ Death
    \/ EvaluationFails

IngestNext ==
    \/ \E e \in Events : Answer(e)
    \/ Produce
    \/ Handle
    \/ Evaluating
    \/ Faults

IngestSpec == IngestInit /\ [][IngestNext]_ingestionVars

\* Calls are answered, queues deliver and timers fire.
FairIngestion == IngestSpec /\ WF_ingestionVars(Produce \/ Handle \/ Evaluating)

-----------------------------------------------------------------------------
(* Properties.                                                             *)

OnItsWay(e) == request[e] = "sending" \/ inQueue[e] # "none" \/ held[e] = "saving"

\* An event answered "queued" is stored or on its way, unless the producer, the
\* store or a death lost it: no order of saves, settlements, redeliveries and
\* lost connections leaves it nowhere.
NothingElseLost ==
    \A e \in Events :
        request[e] = "new" \/ stored[e] > 0 \/ OnItsWay(e) \/ e \in lost

\* Whoever an evaluation found in the segment stays there: an older evaluation
\* cannot take the contact out, unless the two overlapped or a query failed.
EvaluationSticks ==
    (faults = 0 /\ ~overlapped) =>
        \A s \in Slots : eval[s].pc = "done" /\ eval[s].should => assigned

\* What was accepted is kept, as an event and as the assignment it led to.
AcceptedIsKept == IngestTypeOK /\ NothingElseLost /\ EvaluationSticks

\* Redis and RabbitMQ consumers in a process of their own evaluate nothing.
Evaluators == Single \/ queueMode = "kafka"

TooEarly(e) == \A c \in Callers : ~eval[<<e, c>>].should

\* The contact is assigned and counted; or a fault came between, evaluations
\* overlapped, or each ran before the event was stored.
Counted(e) ==
    \/ assigned /\ count > 0
    \/ faults > 0
    \/ overlapped
    \/ \A c \in Callers : eval[<<e, c>>].pc \in {"none", "done"} /\ TooEarly(e)

\* An answered event is stored in the end and its contact becomes a member,
\* unless the event was lost as above or RabbitMQ's connection is gone, which
\* nothing brings back before the process dies.
EventuallyCounted ==
    \A e \in Events :
        (request[e] # "new") ~>
            \/ e \in lost
            \/ ~connected
            \/ stored[e] > 0 /\ (Evaluators => Counted(e))
===============================================================================

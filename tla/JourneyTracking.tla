---------------------------- MODULE JourneyTracking ----------------------------
(***************************************************************************)
(* The analytics events of a journey: activities/journey-tracking          *)
(* .activities.ts, services/journey-tracking.service.ts and the KafkaService*)
(* they share in a Temporal worker.                                        *)
(*                                                                         *)
(* The workflow awaits every tracking activity and gives it one attempt of *)
(* ten seconds.  The activity catches its errors.  The first ones of a     *)
(* process build the service: each connects a producer of its own, the     *)
(* last to finish is the one kept, and one that cannot connect turns       *)
(* tracking off for as long as the process lives.                          *)
(***************************************************************************)
EXTENDS Naturals, Sequences

CONSTANTS
    Trips,          \* the journeys under way in the worker
    MaxMishaps      \* failed connects and sends, slow attempts, restarts

\* The events of a journey that executes one node, in their order.
NodeEvents == <<"journey_started", "node_started", "node_completed">>
JourneyEvents == Append(NodeEvents, "journey_completed")
Ending == Len(JourneyEvents)
FailedEvent == Ending + 1
Stages == 1 .. FailedEvent

VARIABLES
    tracker,        \* the service the worker process keeps
    trip,           \* each journey: the event it is at, and its session's status
    attempt,        \* the activities, those that timed out included
    sent,           \* the events the broker has
    excused,        \* events of which a mishap kept the broker, or a worker without Kafka
    mishaps         \* mishaps so far

trackingVars == <<tracker, trip, attempt, sent, excused, mishaps>>

TrackingInit ==
    /\ tracker = "none"
    /\ trip = [j \in Trips |-> [at |-> 1, status |-> "active", cause |-> "none", over |-> FALSE]]
    /\ attempt = [j \in Trips |-> [k \in Stages |-> "none"]]
    /\ sent = {}
    /\ excused = {}
    /\ mishaps = 0

Mishap == mishaps < MaxMishaps /\ mishaps' = mishaps + 1
NoMishap == UNCHANGED mishaps

Becomes(j, k, pc) == attempt' = [attempt EXCEPT ![j][k] = pc]

\* How an event is sent by the service an attempt has got hold of.
Sending(service) == IF service = "ready" THEN "send" ELSE "skip"

\* createTrackingService: the cached service, or one of its own.  What
\* ensureKafkaService answers is kept by the service for good.
Enter(j) ==
    LET k == trip[j].at IN
    /\ ~trip[j].over
    /\ attempt[j][k] = "none"
    /\ Becomes(j, k, IF tracker = "none" THEN "connecting" ELSE Sending(tracker))
    /\ NoMishap
    /\ UNCHANGED <<tracker, trip, sent, excused>>

\* The admin client, the topic and the producer: KafkaService.initialize.
Connected(j, k) ==
    /\ attempt[j][k] = "connecting"
    /\ Becomes(j, k, "send")
    /\ tracker' = "ready"
    /\ NoMishap
    /\ UNCHANGED <<trip, sent, excused>>

ConnectFails(j, k) ==
    /\ attempt[j][k] = "connecting"
    /\ Becomes(j, k, "skip")
    /\ Mishap
    /\ tracker' = "degraded"
    /\ UNCHANGED <<trip, sent, excused>>

\* Mutant: an error of the broker is thrown into the workflow.
SendOrThrow(j, k) ==
    /\ attempt[j][k] = "send"
    /\ Becomes(j, k, "answered")
    /\ \/ sent' = sent \cup {<<j, k>>} /\ NoMishap /\ UNCHANGED <<trip, excused>>
       \/ /\ Mishap
          /\ excused' = excused \cup {<<j, k>>}
          /\ trip' = [trip EXCEPT ![j].at = FailedEvent, ![j].status = "failed"]
          /\ UNCHANGED sent
    /\ UNCHANGED tracker

\* sendEvent of a producer that is connected; its errors are logged.
Send(j, k) ==
    /\ attempt[j][k] = "send"
    /\ Becomes(j, k, "answered")
    /\ \/ sent' = sent \cup {<<j, k>>} /\ NoMishap /\ UNCHANGED excused
       \/ Mishap /\ excused' = excused \cup {<<j, k>>} /\ UNCHANGED sent
    /\ UNCHANGED <<tracker, trip>>

\* A degraded service answers success and sends nothing.
Skip(j, k) ==
    /\ attempt[j][k] = "skip"
    /\ Becomes(j, k, "answered")
    /\ excused' = excused \cup {<<j, k>>}
    /\ NoMishap
    /\ UNCHANGED <<tracker, trip, sent>>

-------------------------------------------------------------------------------
(* The workflow.                                                             *)

\* The status is written before the last event is tracked.
Status(at, status) == IF at = Ending THEN "completed" ELSE status

Proceed(j) ==
    LET k == trip[j].at IN
    /\ ~trip[j].over
    /\ attempt[j][k] = "answered"
    /\ trip' = [trip EXCEPT ![j] = IF k >= Ending THEN [@ EXCEPT !.over = TRUE]
                                   ELSE [@ EXCEPT !.at = k + 1, !.status = Status(k + 1, trip[j].status)]]
    /\ NoMishap
    /\ UNCHANGED <<tracker, attempt, sent, excused>>

\* A node of the journey fails: its session does, and then its tracking.
NodeOfTripFails(j) ==
    /\ ~trip[j].over
    /\ trip[j].at = 2 /\ attempt[j][2] = "answered"
    /\ Mishap
    /\ trip' = [trip EXCEPT ![j].at = FailedEvent, ![j].status = "failed", ![j].cause = "node"]
    /\ UNCHANGED <<tracker, attempt, sent, excused>>

Underway(j) == attempt[j][trip[j].at] \in {"connecting", "send", "skip", "lost"}

\* Ten seconds without an answer: the activity throws into the workflow,
\* which records the session as failed, whatever it was.
TooLate(j) ==
    /\ ~trip[j].over
    /\ Underway(j)
    /\ IF attempt[j][trip[j].at] = "lost" THEN NoMishap ELSE Mishap
    /\ excused' = excused \cup {<<j, trip[j].at>>}
    /\ trip' = [trip EXCEPT ![j] = IF @.at = FailedEvent THEN [@ EXCEPT !.over = TRUE]
                                   ELSE [@ EXCEPT !.at = FailedEvent, !.status = "failed", !.cause = "late"]]
    /\ UNCHANGED <<tracker, attempt, sent>>

\* The worker ends; what it was doing is never answered.
WorkerRestarts ==
    /\ Mishap
    /\ tracker' = "none"
    /\ attempt' = [j \in Trips |-> [k \in Stages |->
                     IF attempt[j][k] \in {"none", "answered"} THEN attempt[j][k] ELSE "lost"]]
    /\ UNCHANGED <<trip, sent, excused>>

TrackingStep ==
    \/ \E j \in Trips, k \in Stages :
           Connected(j, k) \/ ConnectFails(j, k) \/ Send(j, k) \/ Skip(j, k)
    \/ \E j \in Trips : Enter(j) \/ Proceed(j) \/ NodeOfTripFails(j) \/ TooLate(j)
    \/ WorkerRestarts

TrackingSpec == TrackingInit /\ [][TrackingStep]_trackingVars

-------------------------------------------------------------------------------
(* Analytics stay out of the way: a journey is recorded as failed only when  *)
(* a node of it failed or a tracking activity did not answer in time; no     *)
(* error of Kafka fails it.  And every event of a journey that has gone on   *)
(* reaches the broker, unless a send failed, the attempt was late, or the    *)
(* process could not connect when it first tried.                            *)
TrackingStaysOut ==
    \A j \in Trips :
        /\ trip[j].status = "failed" => trip[j].cause # "none"
        /\ \A k \in Stages : attempt[j][k] = "answered" => <<j, k>> \in sent \cup excused
===============================================================================

---------------------------- MODULE TemporalWorkers ----------------------------
(***************************************************************************)
(* The start of the Temporal workers of a process: modules/temporal/       *)
(* temporal-worker.service.ts, for journeys, campaign-worker.service.ts,   *)
(* for campaigns, and the bootstrap that waits for them.                   *)
(*                                                                         *)
(* Both connect to Temporal, create a worker and leave it running, and     *)
(* both try again when that fails, each by its own rules.  The journey     *)
(* worker makes MaxRetries attempts in a row and, unless in production,    *)
(* starts over later; the campaign worker makes one at a time, later and   *)
(* later, MaxRetries times, and alone starts over when its worker ends.    *)
(* A stopped process ends without shutting either of them down.            *)
(***************************************************************************)
EXTENDS Naturals

CONSTANTS
    MaxRetries,     \* maxRetries of both services
    MaxSetbacks     \* bound: connections and workers that fail

ASSUME RetriesAssumption == MaxRetries \in Nat

Services == {"journey", "campaign"}

\* shouldStartJourneyWorker and shouldStartCampaignWorker of the run modes.
RunModes == [single |-> Services, temporalWorker |-> {"journey"}, campaignWorker |-> {"campaign"}]

VARIABLES
    production,     \* NODE_ENV
    process,        \* "starting", then "serving" its port, or "exited"
    start,          \* how far each service is with its worker
    retries,        \* the attempts made, as each service counts them
    connection,     \* whether each service holds a connection
    polling,        \* this.worker: none, one that polls, or one that failed
    setbacks

workerVars == <<production, process, start, retries, connection, polling, setbacks>>

\* "off": not in this run mode; "pause" and "later": waiting for a timer.
WorkersInit ==
    /\ production \in BOOLEAN
    /\ process = "starting"
    /\ \E m \in DOMAIN RunModes :
        start = [s \in Services |-> IF s \in RunModes[m] THEN "connect" ELSE "off"]
    /\ retries = [s \in Services |-> 0]
    /\ connection = [s \in Services |-> FALSE]
    /\ polling = [s \in Services |-> "none"]
    /\ setbacks = 0

Moves(s, label) == start' = [start EXCEPT ![s] = label]
Up == process # "exited"
Setback == setbacks < MaxSetbacks /\ setbacks' = setbacks + 1

-------------------------------------------------------------------------------
\* A failed attempt of the campaign worker, or the end of its worker, and one
\* of the journey worker: the last in a row is thrown, which ends a production
\* process that is starting.
CampaignRetries ==
    /\ IF retries["campaign"] >= MaxRetries
       THEN Moves("campaign", "done") /\ UNCHANGED retries
       ELSE Moves("campaign", "later") /\ retries' = [retries EXCEPT !["campaign"] = @ + 1]
    /\ UNCHANGED process

\* Mutant: a round of attempts in the background is the last one.
JourneyRetriesOnce ==
    /\ retries' = [retries EXCEPT !["journey"] = @ + 1]
    /\ IF retries'["journey"] < MaxRetries
       THEN Moves("journey", "pause") /\ UNCHANGED process
       ELSE /\ Moves("journey", IF process = "starting" THEN "later" ELSE "done")
            /\ process' = IF process = "starting" /\ production THEN "exited" ELSE process

JourneyRetries ==
    /\ retries' = [retries EXCEPT !["journey"] = @ + 1]
    /\ IF retries'["journey"] < MaxRetries
       THEN Moves("journey", "pause") /\ UNCHANGED process
       ELSE /\ Moves("journey", "later")
            /\ process' = IF process = "starting" /\ production THEN "exited" ELSE process

Retries(s) == IF s = "journey" THEN JourneyRetries ELSE CampaignRetries

-------------------------------------------------------------------------------
\* NativeConnection.connect; what an earlier attempt left open is forgotten.
Connect(s) ==
    /\ Up /\ start[s] = "connect"
    /\ \/ /\ connection' = [connection EXCEPT ![s] = TRUE]
          /\ Moves(s, "create")
          /\ UNCHANGED <<process, retries, setbacks>>
       \/ Setback /\ Retries(s) /\ UNCHANGED connection
    /\ UNCHANGED <<production, polling>>

\* Worker.create, and run in the background.
Create(s) ==
    /\ Up /\ start[s] = "create"
    /\ \/ /\ polling' = [polling EXCEPT ![s] = "polls"]
          /\ retries' = [retries EXCEPT ![s] = 0]
          /\ Moves(s, "done")
          /\ UNCHANGED <<process, setbacks>>
       \/ Setback /\ Retries(s) /\ UNCHANGED polling
    /\ UNCHANGED <<production, connection>>

\* The delay between two attempts of the journey worker is over.
Resume(s) ==
    /\ Up /\ start[s] = "pause"
    /\ Moves(s, "connect")
    /\ UNCHANGED <<production, process, retries, connection, polling, setbacks>>

\* The timer of scheduleRetry.  The journey worker takes a connection that a
\* failed attempt has left for the sign that it is connected.
RetryLater(s) ==
    /\ Up /\ start[s] = "later"
    /\ IF s = "campaign" THEN Moves(s, "connect") /\ UNCHANGED retries
       ELSE IF polling[s] # "none" \/ connection[s] THEN Moves(s, "done") /\ UNCHANGED retries
       ELSE Moves(s, "connect") /\ retries' = [retries EXCEPT ![s] = 0]
    /\ UNCHANGED <<production, process, connection, polling, setbacks>>

\* run() is rejected; only the campaign worker does more than log it.
WorkerEnds(s) ==
    /\ Up /\ polling[s] = "polls" /\ Setback
    /\ polling' = [polling EXCEPT ![s] = "failed"]
    /\ IF s = "campaign" THEN CampaignRetries ELSE UNCHANGED <<process, start, retries>>
    /\ UNCHANGED <<production, connection>>

\* bootstrap awaits onModuleInit: the campaign worker's one attempt and all of
\* the first round of the journey worker's.
Serve ==
    /\ process = "starting"
    /\ start["journey"] \in {"off", "later", "done"}
    /\ start["campaign"] \in {"off", "later", "done"} \/ retries["campaign"] > 0
    /\ process' = "serving"
    /\ UNCHANGED <<production, start, retries, connection, polling, setbacks>>

WorkersStep ==
    \/ \E s \in Services : Connect(s) \/ Create(s) \/ Resume(s) \/ RetryLater(s) \/ WorkerEnds(s)
    \/ Serve

WorkersSpec == WorkersInit /\ [][WorkersStep]_workerVars

-------------------------------------------------------------------------------
\* As long as the process is up, a service that has no worker polling is about
\* to try again, unless it has given up: the campaign worker after MaxRetries
\* attempts in a row; the journey worker when its worker has ended, or when a
\* connection is left of an attempt whose worker could not be created.
WorkerNotForgotten ==
    Up => \A s \in Services :
        \/ start[s] \in {"off", "connect", "create", "pause", "later"}
        \/ polling[s] = "polls"
        \/ s = "campaign" /\ retries[s] = MaxRetries
        \/ s = "journey" /\ (polling[s] = "failed" \/ connection[s])

\* No attempt starts a second worker beside one that polls, and a production
\* process that serves has had a journey worker.
OneWorker ==
    /\ \A s \in Services : polling[s] = "polls" => start[s] = "done"
    /\ production /\ process = "serving" /\ start["journey"] # "off" => polling["journey"] # "none"

WorkersKeepTrying == WorkerNotForgotten /\ OneWorker
===============================================================================

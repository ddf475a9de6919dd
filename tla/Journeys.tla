------------------------------ MODULE Journeys ------------------------------
(***************************************************************************)
(* The journeys of one contact: what starts, resumes, cancels and removes  *)
(* the sessions of one journey while their workflows run.  An actor is a   *)
(* delivery of a journey-triggers message to JourneyTriggerProcessor (the  *)
(* topic is not keyed by contact and partitions are consumed concurrently, *)
(* so deliveries overlap, a redelivery its original included) or a request *)
(* to JourneySessionsService.                                              *)
(***************************************************************************)
EXTENDS JourneyWorkflow

CONSTANTS
    Deliveries,     \* deliveries of trigger messages
    MsgOf,          \* the message each of them carries
    Requests,       \* API requests: "start", "cancel", "remove"
    MaxIncidents    \* bound: requests, Redis outages and losses, failed
                    \* starts and activities, crashes, worker outages

VARIABLES
    job,            \* what each actor is doing
    claimed,        \* messages whose idempotency key is set
    starts,         \* history: workflows started for each message
    outages,        \* history: claims let through without Redis
    flushed,        \* history: Redis has lost its data
    touched,        \* history: sessions a request or a failed dispatch ends
    workersUp,      \* journey-execution has pollers
    incidents

vars == <<storeVars, workflowVars, job, claimed, starts, outages, flushed,
          touched, workersUp, incidents>>

Actors == Deliveries \cup Requests
Messages == {MsgOf[d] : d \in Deliveries}

Nobody == 0

\* Nobody is no session, and deliveries are finitely many.
ASSUME ActorsAssumption == Nobody \notin Sessions /\ IsFiniteSet(Deliveries)

NoJob == [pc |-> "idle", id |-> Nobody, todo |-> {},
            rec |-> None, to |-> "none", then |-> "done"]

JobPCs == {"idle", "resume", "complete", "guard", "claim", "create",
           "start", "verdict", "failed", "read", "write", "cancel",
           "remove", "drop", "done"}

Init ==
    /\ StoreInit
    /\ WorkflowInit
    /\ job = [a \in Actors |-> NoJob]
    /\ claimed = {}
    /\ starts = [m \in Messages |-> 0]
    /\ outages = 0
    /\ flushed = FALSE
    /\ touched = {}
    /\ workersUp = TRUE
    /\ incidents = 0

At(a, pc) == job[a].pc = pc
TurnsTo(a, j) == job' = [job EXCEPT ![a] = j]
GotoPc(a, pc) == job' = [job EXCEPT ![a].pc = pc]
Done(a) == job' = [job EXCEPT ![a] = [NoJob EXCEPT !.pc = "done"]]

\* updateSessionStatus(id, to), and where its caller goes from there.
Update(a, id, to, then) ==
    TurnsTo(a, [job[a] EXCEPT !.pc = "read", !.id = id, !.to = to, !.then = then])

Incident == incidents < MaxIncidents /\ incidents' = incidents + 1
NoIncident == UNCHANGED incidents

\* An action of the dispatch alone, and one that reads or writes the store.
KeepRest == UNCHANGED <<workersUp, flushed, touched>>
KeepTouched == UNCHANGED <<workersUp, flushed>>
KeepClaims == UNCHANGED <<claimed, starts, outages>>

\* A session id never drawn before.
Fresh == {s \in Sessions : /\ ~Started(s) /\ rows[s] = None
                           /\ \A a \in Actors : job[a].id # s}
Drawn == CHOOSE s \in Fresh : TRUE

-----------------------------------------------------------------------------
(* A trigger message: first the waits it satisfies, then the journey.      *)

\* checkWaitingSessions: the waiting sessions whose wait takes events.
Take(d) ==
    /\ At(d, "idle")
    /\ ReadAll
    /\ LET waits == {s \in Listed : /\ Seen(s).status = "waiting"
                                   /\ flow.kind[Seen(s).wait] # "time"} IN
       TurnsTo(d, [job[d] EXCEPT
            !.pc = IF waits = {} THEN "guard" ELSE "resume",
            !.todo = {<<s, Seen(s).wait>> : s \in waits}])
    /\ UNCHANGED workflowVars /\ KeepRest /\ KeepClaims /\ NoIncident

\* The workflow is signalled; signalling one that is over fails, and the
\* error skips the waits that are left.
ResumeWait(d) ==
    /\ At(d, "resume")
    /\ \E w \in job[d].todo :
        \/ /\ CompleteWait(w[1], w[2])
           /\ TurnsTo(d, [job[d] EXCEPT !.pc = "complete", !.id = w[1],
                                        !.todo = @ \ {w}])
        \/ /\ ~Running(w[1])
           /\ TurnsTo(d, [job[d] EXCEPT !.todo = {}])
           /\ UNCHANGED wf
    /\ UNCHANGED <<flow, buf, storeVars>>
    /\ KeepRest /\ KeepClaims /\ NoIncident

\* completeWait: the row, then the cache.  It may fail as a whole (it is
\* written for the context of an activity), with the same effect as above.
Complete(d) ==
    /\ At(d, "complete")
    /\ \/ /\ UpdateRow(job[d].id, [rows[job[d].id] EXCEPT !.status = "active"])
          /\ Update(d, job[d].id, "active", "resume")
       \/ /\ TurnsTo(d, [job[d] EXCEPT !.pc = "resume", !.id = Nobody,
                                       !.todo = {}])
          /\ UNCHANGED storeVars
    /\ UNCHANGED workflowVars /\ KeepRest /\ KeepClaims /\ NoIncident

Matched(d) ==
    /\ At(d, "resume") /\ job[d].todo = {}
    /\ TurnsTo(d, [NoJob EXCEPT !.pc = "guard"])
    /\ UNCHANGED <<storeVars, workflowVars>> /\ KeepRest /\ KeepClaims /\ NoIncident

\* checkForActiveOrWaitingSessions, of a delivery or of a manual start.
Unblocked == \A s \in Listed : ~IsLive(Seen(s))

Guard(a) ==
    /\ At(a, "guard")
    /\ \/ /\ ReadAll /\ NoIncident
          /\ IF Unblocked
             THEN GotoPc(a, IF a \in Deliveries THEN "claim" ELSE "create")
             ELSE Done(a)
       \/ /\ Incident /\ UNCHANGED storeVars     \* Redis is out: [] is read
          /\ GotoPc(a, IF a \in Deliveries THEN "claim" ELSE "create")
    /\ UNCHANGED workflowVars /\ KeepRest /\ KeepClaims

\* Mutant: the key is looked up but not set.
ClaimUnset(d) ==
    /\ At(d, "claim") /\ MsgOf[d] \notin claimed
    /\ GotoPc(d, "start")
    /\ UNCHANGED <<storeVars, workflowVars>> /\ KeepRest /\ KeepClaims /\ NoIncident

\* tryClaimTriggerMessage: SET NX, let through when Redis is out.
Claim(d) ==
    LET m == MsgOf[d] IN
    /\ At(d, "claim")
    /\ \/ m \in claimed /\ Done(d) /\ NoIncident /\ UNCHANGED <<claimed, outages>>
       \/ /\ m \notin claimed
          /\ claimed' = claimed \cup {m}
          /\ GotoPc(d, "start") /\ NoIncident /\ UNCHANGED outages
       \/ /\ Incident /\ outages' = outages + 1
          /\ GotoPc(d, "start") /\ UNCHANGED claimed
    /\ UNCHANGED <<storeVars, workflowVars, starts>> /\ KeepRest

-----------------------------------------------------------------------------
(* Starting a workflow.                                                    *)

\* A manual start writes the session first; its workflow id is not known.
CreateSession(r) ==
    /\ At(r, "create") /\ Fresh # {}
    /\ LET s == Drawn IN
       /\ Put(s, [None EXCEPT !.status = "active"])
       /\ TurnsTo(r, [job[r] EXCEPT !.pc = "start", !.id = s])
    /\ UNCHANGED workflowVars /\ KeepRest /\ KeepClaims /\ NoIncident

\* The session a start is for: the one created, or a fresh one.
StartedSession(a) == IF job[a].id = Nobody THEN Drawn ELSE job[a].id

StartWorkflow(a) ==
    /\ At(a, "start")
    /\ job[a].id # Nobody \/ Fresh # {}
    /\ Start(StartedSession(a))
    /\ starts' = [m \in Messages |->
            starts[m] + IF a \in Deliveries /\ MsgOf[a] = m THEN 1 ELSE 0]
    /\ TurnsTo(a, [job[a] EXCEPT !.pc = "verdict", !.id = StartedSession(a)])
    /\ UNCHANGED <<flow, buf, storeVars, claimed, outages>>
    /\ KeepRest /\ NoIncident

\* Temporal refuses the start: the message is lost, a created session is
\* dropped from Redis only.
StartFails(a) ==
    /\ At(a, "start") /\ Incident
    /\ IF job[a].id = Nobody THEN UNCHANGED storeVars ELSE Invalidate(job[a].id)
    /\ Done(a)
    /\ UNCHANGED workflowVars /\ KeepRest /\ KeepClaims

\* isQueueUnexecutable.  Without pollers a manual start, which polls live,
\* is refused and a delivery only once the zero has lasted; an error of the
\* terminate is ignored.
Verdict(a) ==
    /\ At(a, "verdict")
    /\ \/ /\ workersUp \/ a \in Deliveries
          /\ Update(a, job[a].id, "active", "done")
          /\ UNCHANGED <<wf, touched>>
       \/ /\ ~workersUp
          /\ Terminate(job[a].id) \/ UNCHANGED wf
          /\ touched' = touched \cup {job[a].id}
          /\ IF a \in Deliveries THEN GotoPc(a, "failed")
                                 ELSE Update(a, job[a].id, "failed", "done")
    /\ UNCHANGED <<flow, buf, storeVars>>
    /\ KeepTouched /\ KeepClaims /\ NoIncident

\* createFailedDispatchSession writes the session without reading it.
FailDispatch(d) ==
    /\ At(d, "failed")
    /\ Put(job[d].id, [status |-> "failed", wait |-> 0, wf |-> TRUE])
    /\ Done(d)
    /\ UNCHANGED workflowVars /\ KeepRest /\ KeepClaims /\ NoIncident

-----------------------------------------------------------------------------
(* updateSessionStatus: a read, an await, a write of the whole record.     *)

ReadSession(a) ==
    /\ At(a, "read")
    /\ ReadThrough(job[a].id)
    /\ IF Seen(job[a].id) = None
       THEN GotoPc(a, job[a].then)
       ELSE TurnsTo(a, [job[a] EXCEPT !.pc = "write", !.rec = Seen(job[a].id)])
    /\ UNCHANGED workflowVars /\ KeepRest /\ KeepClaims /\ NoIncident

\* A start also records the workflow id.
WriteSession(a) ==
    /\ At(a, "write")
    /\ Put(job[a].id, [job[a].rec EXCEPT
            !.status = job[a].to,
            !.wf = @ \/ (job[a].then = "done" /\ job[a].to # "cancelled")])
    /\ TurnsTo(a, [job[a] EXCEPT !.pc = job[a].then, !.rec = None,
                                 !.id = Nobody])
    /\ UNCHANGED workflowVars /\ KeepRest /\ KeepClaims /\ NoIncident

-----------------------------------------------------------------------------
(* The requests.                                                           *)

Request(r) == At(r, "idle") /\ Incident

Manual(r) ==
    /\ r = "start" /\ flow.manual /\ Request(r)
    /\ GotoPc(r, "guard")
    /\ UNCHANGED <<storeVars, workflowVars>> /\ KeepRest /\ KeepClaims

\* cancel and remove begin with findOne, the record the rest decides on.
Open(r) ==
    /\ r \in {"cancel", "remove"} /\ Request(r)
    /\ \E s \in Sessions :
        /\ Seen(s) # None
        /\ ReadThrough(s)
        /\ r = "cancel" => IsLive(Seen(s))
        /\ TurnsTo(r, [job[r] EXCEPT !.pc = r, !.id = s, !.rec = Seen(s)])
        /\ touched' = touched \cup {s}
    /\ UNCHANGED workflowVars /\ KeepTouched /\ KeepClaims

\* Without a workflow id there is nobody to signal; a workflow that is over
\* cannot be.
Cancel(r) ==
    /\ At(r, "cancel")
    /\ \/ /\ job[r].rec.wf /\ CancelSignal(job[r].id)
          /\ Update(r, job[r].id, "cancelled", "done")
       \/ /\ job[r].rec.wf /\ ~Running(job[r].id)
          /\ Done(r) /\ UNCHANGED wf
       \/ /\ ~job[r].rec.wf
          /\ Update(r, job[r].id, "cancelled", "done") /\ UNCHANGED wf
    /\ UNCHANGED <<flow, buf, storeVars>>
    /\ KeepRest /\ KeepClaims /\ NoIncident

\* The workflow is cancelled (its cleanup activities are cancelled with it),
\* then the session is dropped from Redis.
Remove(r) ==
    /\ At(r, "remove")
    /\ IF /\ IsLive(job[r].rec) /\ job[r].rec.wf /\ Running(job[r].id)
       THEN Terminate(job[r].id) ELSE UNCHANGED wf
    /\ GotoPc(r, "drop")
    /\ UNCHANGED <<flow, buf, storeVars>>
    /\ KeepRest /\ KeepClaims /\ NoIncident

Drop(r) ==
    /\ At(r, "drop")
    /\ Invalidate(job[r].id)
    /\ Done(r)
    /\ UNCHANGED workflowVars /\ KeepRest /\ KeepClaims /\ NoIncident

-----------------------------------------------------------------------------
(* The environment.                                                        *)

Work(s) ==
    /\ WorkflowStep(s)
    /\ workersUp \/ buf[s] # Idle
    /\ UNCHANGED job /\ KeepRest /\ KeepClaims /\ NoIncident

WorkFails(s) ==
    /\ \/ ActivityFails(s) /\ Incident
       \/ ExecutionTimeout(s) /\ NoIncident
    /\ UNCHANGED job /\ KeepRest /\ KeepClaims

\* The consumer crashes; its delivery may be followed by another.
Crash(d) ==
    /\ job[d].pc \notin {"idle", "done"} /\ Incident
    /\ Done(d)
    /\ UNCHANGED <<storeVars, workflowVars>> /\ KeepRest /\ KeepClaims

RedisLost ==
    /\ Incident /\ Flush /\ flushed' = TRUE
    /\ UNCHANGED <<workflowVars, job, workersUp, touched>> /\ KeepClaims

WorkersDown ==
    /\ workersUp /\ Incident /\ workersUp' = FALSE
    /\ UNCHANGED <<storeVars, workflowVars, job, flushed, touched>> /\ KeepClaims

WorkersBack ==
    /\ ~workersUp /\ workersUp' = TRUE
    /\ UNCHANGED <<storeVars, workflowVars, job, flushed, touched>> /\ KeepClaims
    /\ NoIncident

DeliveryStep(d) ==
    \/ Take(d) \/ ResumeWait(d) \/ Complete(d) \/ Matched(d)
    \/ Claim(d) \/ FailDispatch(d) \/ Crash(d)

RequestStep(r) ==
    \/ Manual(r) \/ CreateSession(r) \/ Open(r) \/ Cancel(r) \/ Remove(r) \/ Drop(r)

Next ==
    \/ \E d \in Deliveries : DeliveryStep(d)
    \/ \E r \in Requests : RequestStep(r)
    \/ \E a \in Actors : \/ Guard(a) \/ StartWorkflow(a) \/ StartFails(a)
                         \/ Verdict(a) \/ ReadSession(a) \/ WriteSession(a)
    \/ \E s \in Sessions : Work(s) \/ WorkFails(s)
    \/ RedisLost \/ WorkersDown \/ WorkersBack

\* Workers poll again after an outage, and a workflow whose activities and
\* timers are due goes on.
Fairness ==
    /\ \A s \in Sessions : WF_vars(Work(s))
    /\ WF_vars(WorkersBack)

Spec == Init /\ [][Next]_vars /\ Fairness

-----------------------------------------------------------------------------
(* Properties.                                                             *)

TypeOK ==
    /\ \A s \in Sessions : /\ redis[s] = None \/ redis[s].status \in Statuses
                           /\ rows[s] = None \/ rows[s].status \in Statuses
                           /\ wf[s].pc \in PCs
                           /\ wf[s].node \in NodesOf(flow)
                           /\ wf[s].done \subseteq NodesOf(flow)
                           /\ buf[s].op \in Ops \cup {"none"}
    /\ index \subseteq Sessions
    /\ \A a \in Actors : job[a].pc \in JobPCs
    /\ claimed \subseteq Messages

\* However often a trigger message is delivered, and whatever crashes in
\* between, its journey is started once, and once more for every claim that
\* was let through because Redis did not answer (EVO-1896).
OneStartPerMessage == \A m \in Messages : starts[m] <= 1 + outages

\* The guard against a second run sees every workflow that executes nodes:
\* no interleaving of the writers of the session hides it, short of a
\* request that ends the session, and of a Redis that lost its index while
\* another session restored its own entry (EVO-1691).
RunningIsVisible ==
    \A s \in Sessions :
        (/\ wf[s].pc \in {"log", "register", "parked", "unwait",
                           "record", "idle"}
         /\ s \notin touched
         /\ ~flushed)
        => s \in Listed /\ IsLive(Seen(s))

\* A contact goes through a journey once per trigger, and is seen to.
OneVisibleRun == TypeOK /\ OneStartPerMessage /\ RunningIsVisible

\* Once the workflow has taken the cancel signal no further node is started,
\* whichever activity was in progress and whichever wait it was in.
NoNodeAfterCancel ==
    [][\A s \in Sessions :
         wf[s].status = "failed" => (wf'[s].pc = "log" => wf[s].pc = "log")]_vars

\* A journey whose waits all have a timer and which reaches an exit ends,
\* whatever completions are lost, whatever fails and whoever else writes
\* its session.
TimedFlow(f) ==
    \A n \in NodesOf(f) : /\ f.kind[n] # "event"
                          /\ f.succ[n] = {} => f.kind[n] \in {"exit", "transfer"}

TimedJourneyEnds ==
    \A s \in Sessions :
        (wf[s].pc = "queued" /\ TimedFlow(flow)) ~> (wf[s].pc \in Over)
=============================================================================

-------------------------- MODULE JourneyWorkflow --------------------------
(***************************************************************************)
(* JourneyExecutionWorkflow: one Temporal workflow per session, which      *)
(* walks the nodes of a journey.  Every write to the session store is an   *)
(* activity that reads the record and writes it back, so it is two steps   *)
(* here: the activity's copy is in buf.  An activity outlives the workflow *)
(* that waits for it when the workflow is terminated or cancelled.         *)
(*                                                                         *)
(* Of a node only its kind is kept: what it does to the control of the     *)
(* workflow.  "event", "timed" and "time" are the waits for a signal       *)
(* without a limit, for a signal or a timer, and for a timer alone; every  *)
(* other node, the trigger and the scheduled action included (its result   *)
(* carries shouldPause among the variables, where the workflow does not    *)
(* look), is an "action".  Which branch a node takes is a choice.          *)
(***************************************************************************)
EXTENDS JourneyStore

CONSTANTS
    Flows       \* journeys: [kind |-> ..., succ |-> ...] over nodes 1 .. n,
                \* and manual: somebody may start it by hand

\* A journey is entered at its first node, and its edges end at its nodes.
ASSUME FlowsAssumption ==
    \A f \in Flows :
        /\ 1 \in DOMAIN f.kind
        /\ \A n \in DOMAIN f.kind : f.succ[n] \subseteq DOMAIN f.kind

VARIABLES
    flow,           \* the journey
    wf,             \* the workflow of each session
    buf             \* the session activity in progress and the record it read

workflowVars == <<flow, wf, buf>>

Kind(s) == flow.kind[wf[s].node]
NodesOf(f) == DOMAIN f.kind

Idle == [op |-> "none", rec |-> None]

(***************************************************************************)
(* pc       what the workflow waits for                                    *)
(* node     state.currentNodeId                                            *)
(* status   state.status; only the cancel signal makes it "failed" here    *)
(* done     keys of waitCompletions                                        *)
(***************************************************************************)
Unstarted == [pc |-> "none", node |-> 1, status |-> "running", done |-> {}]

\* The activities that write the session.
Ops == {"enter", "log", "register", "unwait", "record", "finish", "fail"}
Over == {"closed", "left", "killed"}
PCs == Ops \cup Over \cup
         {"none", "queued", "parked", "idle"}

Started(s) == wf[s].pc # "none"
Running(s) == wf[s].pc \notin Over \cup {"none"}

WorkflowInit ==
    /\ flow \in Flows
    /\ wf = [s \in Sessions |-> Unstarted]
    /\ buf = [s \in Sessions |-> Idle]

Goto(s, pc) == wf' = [wf EXCEPT ![s].pc = pc]

-----------------------------------------------------------------------------
(* The session activities.                                                 *)

\* What the activity makes of the record it read.  A session without a
\* record is created; "enter" stands for initializeJourneySession and for
\* the update to status active that follows the choice of the entry node.
Patched(op, rec, node) ==
    CASE op = "enter"    -> [rec EXCEPT !.status = "active", !.wf = TRUE]
      [] op = "register" -> [rec EXCEPT !.status = "waiting", !.wait = node]
      [] op = "unwait"   -> [rec EXCEPT !.status = "active"]
      [] op = "finish"   -> [rec EXCEPT !.status = "completed"]
      [] op = "fail"     -> [rec EXCEPT !.status = "failed"]
      [] OTHER           -> rec

\* Mutant: the loop does not look at the status again.
LoopHeadAnyway(s) == IF Running(s) THEN "log" ELSE "finish"

\* The head of the loop: a node starts only while the status is running.
LoopHead(s) == IF wf[s].status = "running" THEN "log" ELSE "finish"

\* Where the workflow goes when the activity has returned.  After "log" the
\* node itself runs; "record" stands for the log of the completed node, the
\* update of the variables and the update of the current node.
After(s, op) ==
    CASE op = "enter"    -> LoopHead(s)
      [] op = "log"      -> IF Kind(s) \in {"event", "timed", "time"}
                            THEN "register" ELSE "record"
      [] op = "register" -> "parked"
      [] op = "unwait"   -> "record"
      [] op = "record"   ->
            IF Kind(s) \in {"exit", "transfer"}
            THEN IF wf[s].status = "running" THEN "left" ELSE "finish"
            ELSE IF flow.succ[wf[s].node] = {} THEN "idle" ELSE LoopHead(s)
      [] OTHER           -> "closed"

NextNodes(s, op) ==
    IF op = "record" /\ flow.succ[wf[s].node] # {}
       /\ Kind(s) \notin {"exit", "transfer"}
    THEN flow.succ[wf[s].node] ELSE {wf[s].node}

\* An exit node completes the journey when it runs.
StatusAfter(s, op) ==
    IF op = "log" /\ Kind(s) = "exit" THEN "completed" ELSE wf[s].status

\* The stale completion of a node is dropped when its wait begins, and a
\* used one when its wait has ended.
DoneAfter(s, op) ==
    IF op \in {"register", "unwait"} THEN wf[s].done \ {wf[s].node}
                                     ELSE wf[s].done

GoOn(s, op) ==
    \E n \in NextNodes(s, op) :
        wf' = [wf EXCEPT ![s].pc = After(s, op), ![s].node = n,
                         ![s].status = StatusAfter(s, op),
                         ![s].done = DoneAfter(s, op)]

\* The activity reads the session.  The wait activities write the table's
\* row first (registerWait and completeWait are direct updates).
ActivityReads(s) ==
    /\ wf[s].pc \in Ops
    /\ buf[s] = Idle
    /\ LET op == wf[s].pc
           at == Patched(op, rows[s], wf[s].node) IN
       /\ buf' = [buf EXCEPT ![s] = [op |-> op, rec |-> Seen(s)]]
       /\ IF op \in {"register", "unwait"} THEN UpdateRow(s, at)
                                           ELSE ReadThrough(s)
    /\ UNCHANGED <<flow, wf>>

\* It writes its copy back, whoever has written since, and the workflow goes
\* on if it still waits for it.
ActivityWrites(s) ==
    /\ buf[s] # Idle
    /\ Put(s, Patched(buf[s].op, buf[s].rec, wf[s].node))
    /\ buf' = [buf EXCEPT ![s] = Idle]
    /\ IF wf[s].pc = buf[s].op THEN GoOn(s, buf[s].op) ELSE UNCHANGED wf
    /\ UNCHANGED flow

\* The activity exhausts its attempts, the tracking activity beside it its
\* single one, or the node that runs after the log reports an error.  Only
\* the completion of a wait swallows the error; when the failure itself
\* cannot be written, the session stays as it is.
ActivityFails(s) ==
    /\ wf[s].pc \in Ops
    /\ buf' = [buf EXCEPT ![s] = Idle]
    /\ CASE wf[s].pc = "fail"   -> Goto(s, "left")
         [] wf[s].pc = "unwait" -> GoOn(s, "unwait")
         [] OTHER               -> Goto(s, "fail")
    /\ UNCHANGED <<flow, storeVars>>

-----------------------------------------------------------------------------
(* The control of the workflow.                                            *)

\* A worker takes the workflow from the task queue.  It loads the journey,
\* creates the session and picks the entry node; the trigger node that an
\* entry usually is runs within "enter".
Begin(s) ==
    /\ wf[s].pc = "queued"
    /\ Goto(s, "enter")
    /\ UNCHANGED <<flow, buf, storeVars>>

\* Mutant: the wait for a signal or a timer forgets its timer.
OnlyTime(s) == Kind(s) = "time"

HasTimer(s) == Kind(s) \in {"timed", "time"}

\* A wait ends by its timer, or by a completion of its node.
WaitEnds(s) ==
    /\ wf[s].pc = "parked"
    /\ \/ HasTimer(s)
       \/ Kind(s) # "time" /\ wf[s].node \in wf[s].done
    /\ Goto(s, "unwait")
    /\ UNCHANGED <<flow, buf, storeVars>>

\* Temporal ends a workflow 30 days after its start, before the 30 days a
\* wait without a limit would take: the session is not told.
ExecutionTimeout(s) ==
    /\ \/ wf[s].pc \in {"queued", "idle"}
       \/ wf[s].pc = "parked" /\ Kind(s) = "event"
    /\ Goto(s, "killed")
    /\ UNCHANGED <<flow, buf, storeVars>>

-----------------------------------------------------------------------------
(* What reaches a workflow from outside; none of these touches the store.  *)
(* (It accepts a pause and a resume too, which nothing in src sends.)      *)

Start(s)     == wf' = [wf EXCEPT ![s].pc = "queued"]
Terminate(s) == wf' = [wf EXCEPT ![s].pc = "killed"]

Signalled(s, w) == Running(s) /\ wf' = [wf EXCEPT ![s] = w]

CompleteWait(s, n) ==
    Signalled(s, [wf[s] EXCEPT !.done = @ \cup {n}])
CancelSignal(s) ==
    Signalled(s, [wf[s] EXCEPT !.status = "failed"])

WorkflowStep(s) ==
    \/ ActivityReads(s) \/ ActivityWrites(s) \/ Begin(s) \/ WaitEnds(s)
=============================================================================

---------------------------- MODULE CampaignControl ----------------------------
(***************************************************************************)
(* The control plane of one campaign: the requests of CampaignsController  *)
(* (execute, pause, resume, stop, cancel, schedule, update, remove and the *)
(* bulk actions), the campaign's rows in campaigns and campaign_executions,*)
(* and the Temporal workflow that each execute starts, which marks the     *)
(* campaign SENDING, publishes campaigns.pack and closes its execution row.*)
(* No request and no activity holds a transaction over two statements: a   *)
(* request is one action per await and the workflow one action per attempt *)
(* of an activity.                                                         *)
(*                                                                         *)
(* Each saved transition is also announced on campaigns.control, best      *)
(* effort (publishControl swallows its errors): what the announcement does *)
(* is modelled in CampaignSender, and nothing of it is kept here.          *)
(***************************************************************************)
EXTENDS Integers, Sequences, FiniteSets, FiniteSetsExt

CONSTANTS
    Clients,       \* HTTP requests in progress at the same time
    MaxRuns,       \* bound: workflows started
    MaxRequests,   \* bound: requests made
    MaxAttempts,   \* maximumAttempts of the activity retry policy
    MaxFaults,     \* bound: failed activity attempts and failed row inserts
    MaxCrashes     \* bound: requests cut off by an error or a crash

ASSUME ControlAssumption ==
    /\ IsFiniteSet(Clients)
    /\ MaxRuns \in Nat
    /\ MaxRequests \in Nat
    /\ MaxAttempts \in Nat \ {0}
    /\ MaxFaults \in Nat
    /\ MaxCrashes \in Nat

VARIABLES
    status,      \* campaigns.status
    deleted,     \* campaigns.deleted_at is set
    rows,        \* campaign_executions, in the order of created_at
    started,     \* number of workflows started; they are numbered from 1
    wf,          \* each workflow's next activity and failed attempts of it
    late,        \* the activity that outlives a cancelled workflow, or "none"
    packs,       \* campaigns.pack messages each workflow has published
    req,         \* the request each client is waiting for
    requests,    \* requests made so far
    overlapped,  \* history: two requests have been in progress at once
    faults, crashes

campaignVars == <<status, deleted>>
wfVars       == <<started, wf, late, packs>>
countVars    == <<requests, overlapped, faults, crashes>>
vars == <<campaignVars, rows, wfVars, req, countVars>>

-----------------------------------------------------------------------------
(* The data.                                                               *)

Runs == 1 .. MaxRuns

Status == {"DRAFT", "SCHEDULED", "SENDING", "PAUSED", "STOPPED", "COMPLETED"}

ActiveStatuses == {"RUNNING", "PAUSED"}
ExecutionStatus == ActiveStatuses \cup {"completed", "failed", "CANCELLED"}

\* The workflow's activities: the hand-off, then those of its catch block.
HandOff == {"load", "sending", "publish", "close"}
Activities == HandOff \cup {"stop", "fail"}
Ended == {"done", "failed", "cancelled"}

Live(r) == wf[r].step \in Activities

ActiveRows == {i \in DOMAIN rows : rows[i].state \in ActiveStatuses}

\* Mutant: a paused execution does not count as active.
ActiveUnlessPaused ==
    LET running == {i \in DOMAIN rows : rows[i].state = "RUNNING"} IN
    IF running = {} THEN 0 ELSE Max(running)

\* getActiveExecution: the newest active row, 0 for null.
ActiveExecution == IF ActiveRows = {} THEN 0 ELSE Max(ActiveRows)

\* The transitions validateStatusTransition allows to PATCH.
ValidTransitions == [
    DRAFT     |-> {"DRAFT", "SCHEDULED", "SENDING"},
    SCHEDULED |-> {"SCHEDULED", "DRAFT", "SENDING"},
    SENDING   |-> {"SENDING", "PAUSED", "STOPPED", "COMPLETED"},
    PAUSED    |-> {"PAUSED", "SENDING", "STOPPED"},
    STOPPED   |-> {"STOPPED"},
    COMPLETED |-> {"COMPLETED"}]

SavingOps == {"schedule", "pause", "resume", "stop", "cancel", "update", "edit"}
Ops == SavingOps \cup {"execute", "remove"}

\* Mutant: a stopped campaign can be resumed.
AcceptedFromStopped(op, to) ==
    CASE op = "schedule" -> {"DRAFT"}
      [] op = "pause"    -> {"SENDING"}
      [] op = "resume"   -> {"PAUSED", "STOPPED"}
      [] op \in {"stop", "cancel"} -> {"DRAFT", "SCHEDULED", "SENDING", "PAUSED"}
      [] op = "update"   -> {s \in Status : to \in ValidTransitions[s]}
      [] OTHER           -> Status

\* Statuses from which an operation on the entity is accepted.  A bulk pause or
\* resume is the same read, test and save as the single one, a bulk delete the
\* same as remove: see FirstStep.
AcceptedFrom(op, to) ==
    CASE op = "schedule" -> {"DRAFT"}
      [] op = "pause"    -> {"SENDING"}
      [] op = "resume"   -> {"PAUSED"}
      [] op \in {"stop", "cancel"} -> {"DRAFT", "SCHEDULED", "SENDING", "PAUSED"}
      [] op = "update"   -> {s \in Status : to \in ValidTransitions[s]}
      [] OTHER           -> Status

\* The status an operation saves, given the one it read: a PATCH of other
\* fields ("edit") saves the entity with the status it was read with.
SavedStatus(op, to, seen) ==
    CASE op = "schedule" -> "SCHEDULED"
      [] op = "pause"    -> "PAUSED"
      [] op = "resume"   -> "SENDING"
      [] op \in {"stop", "cancel"} -> "STOPPED"
      [] op = "update"   -> to
      [] OTHER           -> seen

\* What the controller writes to the execution row after the save.
MarkedState(op) ==
    CASE op = "pause"  -> "PAUSED"
      [] op = "resume" -> "RUNNING"
      [] OTHER         -> "CANCELLED"

\* Where a request starts; the bulk actions skip the execution rows and the
\* workflow and act on the entity alone.
FirstStep(op) ==
    CASE op = "execute" -> {"exists"}
      [] op \in {"pause", "resume"} -> {"active", "find"}
      [] op \in {"stop", "cancel"}  -> {"active"}
      [] OTHER -> {"find"}

Steps == {"idle", "exists", "active", "start", "create", "compensate",
          "signal", "cancel", "find", "save", "mark"}

NoRequest == [op |-> "edit", to |-> "DRAFT", at |-> "idle",
              exec |-> 0, run |-> 0, seen |-> "DRAFT"]

-----------------------------------------------------------------------------
TypeOK ==
    /\ status \in Status
    /\ deleted \in BOOLEAN
    /\ rows \in Seq([run : Runs, state : ExecutionStatus])
    /\ started \in 0 .. MaxRuns
    /\ wf \in [Runs -> [step : Activities \cup Ended \cup {"none"},
                        tries : 0 .. MaxAttempts - 1]]
    /\ late \in [Runs -> (Activities \ {"load"}) \cup {"none"}]
    /\ packs \in [Runs -> Nat]
    /\ req \in [Clients -> [op : Ops, to : Status, at : Steps,
                            exec : 0 .. Len(rows), run : 0 .. started,
                            seen : Status]]
    /\ requests \in 0 .. MaxRequests
    /\ overlapped \in BOOLEAN
    /\ faults \in 0 .. MaxFaults
    /\ crashes \in 0 .. MaxCrashes

Init ==
    /\ status = "DRAFT"
    /\ deleted = FALSE
    /\ rows = <<>>
    /\ started = 0
    /\ wf = [r \in Runs |-> [step |-> "none", tries |-> 0]]
    /\ late = [r \in Runs |-> "none"]
    /\ packs = [r \in Runs |-> 0]
    /\ req = [c \in Clients |-> NoRequest]
    /\ requests = 0
    /\ overlapped = FALSE
    /\ faults = 0
    /\ crashes = 0

-----------------------------------------------------------------------------
(* Requests.  A request that is refused or fails returns to "idle".        *)

Open == {c \in Clients : req[c].at # "idle"}
Executing == {c \in Open : req[c].op = "execute"}

At(c, step) == req[c].at = step
GoTo(c, step) == req' = [req EXCEPT ![c].at = step]
Return(c) == req' = [req EXCEPT ![c] = NoRequest]

Begin(c) ==
    /\ At(c, "idle")
    /\ requests < MaxRequests
    /\ \E op \in Ops, to \in Status :
          /\ op # "update" => to = "DRAFT"
          /\ op = "execute" => started + Cardinality(Executing) < MaxRuns
          /\ \E at \in FirstStep(op) :
                req' = [req EXCEPT ![c] =
                            [NoRequest EXCEPT !.op = op, !.to = to, !.at = at]]
    /\ requests' = requests + 1
    /\ overlapped' = (overlapped \/ Open # {})
    /\ UNCHANGED <<campaignVars, rows, wfVars, faults, crashes>>

\* execute: the campaign must exist.
CheckExists(c) ==
    /\ At(c, "exists")
    /\ IF deleted THEN Return(c) ELSE GoTo(c, "active")
    /\ UNCHANGED <<campaignVars, rows, wfVars, countVars>>

\* execute is refused when there is an active execution, pause and resume when
\* there is none; stop goes on without one.
ReadActive(c) ==
    /\ At(c, "active")
    /\ req[c].op # "cancel"
    /\ LET e == ActiveExecution IN
       \/ req[c].op = "execute" /\ IF e = 0 THEN GoTo(c, "start") ELSE Return(c)
       \/ /\ req[c].op \in {"pause", "resume"}
          /\ IF e = 0 THEN Return(c)
                      ELSE req' = [req EXCEPT ![c].at = "signal", ![c].exec = e]
       \/ /\ req[c].op = "stop"
          /\ IF e = 0 THEN GoTo(c, "find")
                      ELSE req' = [req EXCEPT ![c].at = "cancel", ![c].exec = e,
                                              ![c].run = rows[e].run]
    /\ UNCHANGED <<campaignVars, rows, wfVars, countVars>>

\* cancel names a workflow, or takes that of the active execution.
ReadActiveToCancel(c) ==
    /\ At(c, "active")
    /\ req[c].op = "cancel"
    /\ LET e == ActiveExecution
           own == IF e = 0 THEN 0 ELSE rows[e].run
       IN \E r \in 1 .. started \cup {own} :
             IF r = 0 THEN Return(c)
                      ELSE req' = [req EXCEPT ![c].at = "cancel", ![c].exec = e,
                                              ![c].run = r]
    /\ UNCHANGED <<campaignVars, rows, wfVars, countVars>>

\* pause and resume signal the workflow, which only notes it in its result; the
\* signal throws when the workflow has ended.
Signal(c) ==
    /\ At(c, "signal")
    /\ IF Live(rows[req[c].exec].run) THEN GoTo(c, "find") ELSE Return(c)
    /\ UNCHANGED <<campaignVars, rows, wfVars, countVars>>

\* A cancelled workflow schedules no further activity, the ones of its catch
\* block included; the attempt in flight is not told and may still take effect.
EndCancelled(r) ==
    /\ wf' = [wf EXCEPT ![r] = [step |-> "cancelled", tries |-> 0]]
    /\ \E left \in {"none"} \cup ({wf[r].step} \ {"load"}) :
          late' = [late EXCEPT ![r] = left]

\* Mutant: the workflow is signalled and not cancelled.
SignalCancel(c) ==
    /\ At(c, "cancel")
    /\ IF Live(req[c].run) THEN GoTo(c, "find") ELSE Return(c)
    /\ UNCHANGED <<campaignVars, rows, wfVars, countVars>>

\* signal + cancel; both throw when the workflow has ended.
CancelWorkflow(c) ==
    /\ At(c, "cancel")
    /\ IF Live(req[c].run)
       THEN EndCancelled(req[c].run) /\ GoTo(c, "find")
       ELSE Return(c) /\ UNCHANGED <<wf, late>>
    /\ UNCHANGED <<campaignVars, rows, started, packs, countVars>>

StartWorkflow(c) ==
    /\ At(c, "start")
    /\ started' = started + 1
    /\ wf' = [wf EXCEPT ![started + 1] = [step |-> "load", tries |-> 0]]
    /\ req' = [req EXCEPT ![c].at = "create", ![c].run = started + 1]
    /\ UNCHANGED <<campaignVars, rows, late, packs, countVars>>

CreateExecution(c) ==
    /\ At(c, "create")
    /\ rows' = Append(rows, [run |-> req[c].run, state |-> "RUNNING"])
    /\ Return(c)
    /\ UNCHANGED <<campaignVars, wfVars, countVars>>

CreateFails(c) ==
    /\ At(c, "create")
    /\ faults < MaxFaults
    /\ faults' = faults + 1
    /\ GoTo(c, "compensate")
    /\ UNCHANGED <<campaignVars, rows, wfVars, requests, overlapped, crashes>>

\* Mutant: the failed insert is answered without reverting the start.
NoCompensation(c) ==
    /\ At(c, "compensate")
    /\ Return(c)
    /\ UNCHANGED <<campaignVars, rows, wfVars, countVars>>

\* The started workflow is cancelled; a failure of that is ignored.
Compensate(c) ==
    /\ At(c, "compensate")
    /\ IF Live(req[c].run) THEN EndCancelled(req[c].run) ELSE UNCHANGED <<wf, late>>
    /\ Return(c)
    /\ UNCHANGED <<campaignVars, rows, started, packs, countVars>>

Find(c) ==
    /\ At(c, "find")
    /\ IF ~deleted /\ status \in AcceptedFrom(req[c].op, req[c].to)
       THEN req' = [req EXCEPT ![c].at = "save", ![c].seen = status]
       ELSE Return(c)
    /\ UNCHANGED <<campaignVars, rows, wfVars, countVars>>

AfterSave(c) == IF req[c].exec = 0 THEN Return(c) ELSE GoTo(c, "mark")

\* save() reloads the row and writes every column in which the entity differs:
\* status and, since the entity was read undeleted, deleted_at.
Save(c) ==
    /\ At(c, "save")
    /\ req[c].op # "remove"
    /\ status' = SavedStatus(req[c].op, req[c].to, req[c].seen)
    /\ deleted' = FALSE
    /\ AfterSave(c)
    /\ UNCHANGED <<rows, wfVars, countVars>>

SoftRemove(c) ==
    /\ At(c, "save")
    /\ req[c].op = "remove"
    /\ deleted' = TRUE
    /\ Return(c)
    /\ UNCHANGED <<status, rows, wfVars, countVars>>

MarkExecution(c) ==
    /\ At(c, "mark")
    /\ rows' = [rows EXCEPT ![req[c].exec].state = MarkedState(req[c].op)]
    /\ Return(c)
    /\ UNCHANGED <<campaignVars, wfVars, countVars>>

\* An await throws, or the API process dies, between two steps of a request.
RequestFails(c) ==
    /\ c \in Open
    /\ crashes < MaxCrashes
    /\ crashes' = crashes + 1
    /\ Return(c)
    /\ UNCHANGED <<campaignVars, rows, wfVars, requests, overlapped, faults>>

Handle(c) ==
    \/ CheckExists(c) \/ ReadActive(c) \/ ReadActiveToCancel(c) \/ Signal(c)
    \/ CancelWorkflow(c) \/ StartWorkflow(c) \/ CreateExecution(c) \/ CreateFails(c)
    \/ Compensate(c) \/ Find(c) \/ Save(c) \/ SoftRemove(c) \/ MarkExecution(c)
    \/ RequestFails(c)

-----------------------------------------------------------------------------
(* The workflow.                                                           *)

SetState(r, state) ==
    rows' = [i \in DOMAIN rows |-> IF rows[i].run = r
                                   THEN [rows[i] EXCEPT !.state = state]
                                   ELSE rows[i]]

\* What one attempt of activity a of workflow r writes.
Effect(r, a) ==
    /\ status' = CASE a = "sending" -> "SENDING"
                   [] a = "stop"    -> "STOPPED"
                   [] OTHER         -> status
    /\ CASE a = "close" -> SetState(r, "completed")
         [] a = "fail"  -> SetState(r, "failed")
         [] OTHER       -> UNCHANGED rows
    /\ packs' = [packs EXCEPT ![r] = IF a = "publish" THEN @ + 1 ELSE @]

\* Mutant: the execution row is closed before the hand-off.
CloseThenPublish(a) ==
    CASE a = "load"    -> "sending"
      [] a = "sending" -> "close"
      [] a = "close"   -> "publish"
      [] a = "publish" -> "done"
      [] a = "stop"    -> "fail"
      [] a = "fail"    -> "failed"

\* The workflow's next step after an activity has returned.
StepAfter(a) ==
    CASE a = "load"    -> "sending"
      [] a = "sending" -> "publish"
      [] a = "publish" -> "close"
      [] a = "close"   -> "done"
      [] a = "stop"    -> "fail"
      [] a = "fail"    -> "failed"

\* ... and after its last attempt has failed: the catch block, once.
StepWhenExhausted(a) == IF a \in HandOff THEN "stop" ELSE "failed"

Proceed(r) == wf' = [wf EXCEPT ![r] = [step |-> StepAfter(@.step), tries |-> 0]]

\* An attempt that failed, or whose result was lost, is retried.
Retry(r) ==
    wf' = [wf EXCEPT ![r] =
              IF wf[r].tries + 1 < MaxAttempts
              THEN [wf[r] EXCEPT !.tries = @ + 1]
              ELSE [step |-> StepWhenExhausted(wf[r].step), tries |-> 0]]

Fault == faults < MaxFaults /\ faults' = faults + 1

\* getCampaignData throws for a deleted campaign; the UPDATEs do not look.
NotFound(r) == wf[r].step = "load" /\ deleted

AttemptSucceeds(r) ==
    /\ Live(r) /\ ~NotFound(r)
    /\ Effect(r, wf[r].step)
    /\ Proceed(r)
    /\ UNCHANGED <<deleted, started, late, req, countVars>>

LoadFails(r) ==
    /\ NotFound(r)
    /\ Retry(r)
    /\ UNCHANGED <<campaignVars, rows, started, late, packs, req, countVars>>

\* The worker dies, or the database or the broker refuses, before the write.
AttemptFails(r) ==
    /\ Live(r) /\ Fault
    /\ Retry(r)
    /\ UNCHANGED <<campaignVars, rows, started, late, packs, req, requests,
                   overlapped, crashes>>

\* The write is made and the activity's completion never reaches Temporal.
ResultLost(r) ==
    /\ Live(r) /\ ~NotFound(r) /\ Fault
    /\ Effect(r, wf[r].step)
    /\ Retry(r)
    /\ UNCHANGED <<deleted, started, late, req, requests, overlapped, crashes>>

\* Mutant: the attempt is repeated although its workflow has ended.
LateRepeated(r) ==
    /\ late[r] # "none"
    /\ Effect(r, late[r])
    /\ UNCHANGED <<deleted, started, wf, late, req, countVars>>

\* The attempt in flight of a cancelled workflow ends, with or without effect.
LateEffect(r) ==
    /\ late[r] # "none"
    /\ \/ Effect(r, late[r])
       \/ UNCHANGED <<status, rows, packs>>
    /\ late' = [late EXCEPT ![r] = "none"]
    /\ UNCHANGED <<deleted, started, wf, req, countVars>>

Work(r) == AttemptSucceeds(r) \/ LoadFails(r) \/ AttemptFails(r) \/ ResultLost(r)

\* The tracker completes the campaign once every page of a pack has reported,
\* whatever the status is (CampaignTracker models how).
TrackerCompletes ==
    /\ \E r \in Runs : packs[r] > 0
    /\ ~deleted
    /\ status # "COMPLETED"
    /\ status' = "COMPLETED"
    /\ UNCHANGED <<deleted, rows, wfVars, req, countVars>>

Next ==
    \/ \E c \in Clients : Begin(c) \/ Handle(c)
    \/ \E r \in Runs : Work(r) \/ LateEffect(r)
    \/ TrackerCompletes

Spec == Init /\ [][Next]_vars

-----------------------------------------------------------------------------
(* Properties.                                                             *)

\* No two requests were ever in progress together and none was cut off.
Undisturbed == ~overlapped /\ crashes = 0

\* A campaign has one active execution: the gate of execute
\* (campaigns.controller.ts:576-581) holds against rows that workflows close
\* and requests re-open while it runs.  Only requests that overlap can pass it
\* together.
OneActiveExecution == ~overlapped => Cardinality(ActiveRows) <= 1

\* An execution row says completed only of a workflow that has handed its
\* campaign to the packer (campaign-execution.workflow.ts:157-173), through
\* retries, lost results, cancellations and attempts that outlive them.
CompletedHandedOff ==
    \A i \in DOMAIN rows : rows[i].state = "completed" => packs[rows[i].run] > 0

\* A workflow publishes campaigns.pack once, and once more only for a fault
\* (the packer repacks for each message, so every duplicate is a full send).
OnePackPerFault == \A r \in Runs : packs[r] <= 1 + faults

\* A campaign is handed over to the packer, and no more often than faults explain.
HandedOverOnce == CompletedHandedOff /\ OnePackPerFault

\* An execution reported cancelled belongs to a workflow that was cancelled:
\* nobody is told "cancelled" while the hand-off goes on.  (After a lost result
\* two workflows may be alive, and cancel may name the one it does not mark.)
CancelledIsCancelled ==
    Undisturbed /\ faults = 0 => \A i \in DOMAIN rows :
        rows[i].state = "CANCELLED" => wf[rows[i].run].step = "cancelled"

\* "Prevent orphan workflow when persistence fails" (campaigns.controller.ts:606):
\* once execute has answered, a workflow that still runs has an execution row.
NoOrphanWorkflow ==
    Undisturbed /\ Open = {} => \A r \in Runs :
        Live(r) => \E i \in DOMAIN rows : rows[i].run = r

\* The rows of the executions tell of the workflows, so that the gate, cancel
\* and the owner judge by what really runs.
RowsFollowWorkflows ==
    TypeOK /\ OneActiveExecution /\ CancelledIsCancelled /\ NoOrphanWorkflow

\* STOPPED is final: no sequence of requests, however they overlap, takes the
\* campaign out of it.  What can is only what was on its way when it was
\* stopped (a request that had read an earlier status, a workflow not yet or not
\* completely cancelled), the tracker, and the workflow of a later execute.
StopIsFinal ==
    [][status = "STOPPED" /\ status' # "STOPPED" =>
        \/ status' = "COMPLETED" /\ \E r \in Runs : packs[r] > 0
        \/ status' = "SENDING" /\ \E r \in Runs : "sending" \in {wf[r].step, late[r]}
        \/ \E c \in Open : req[c].at = "save" /\ req[c].seen # "STOPPED"]_vars
===============================================================================

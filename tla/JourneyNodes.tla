----------------------------- MODULE JourneyNodes -----------------------------
(***************************************************************************)
(* The activities that execute journey nodes                               *)
(* (modules/temporal/activities/action-nodes.activities.ts and nodes/),    *)
(* with the CRM client they share (shared/crm-client).                     *)
(*                                                                         *)
(* A slot is a node that a workflow executes.  Temporal gives a node two   *)
(* attempts of thirty seconds; an attempt that times out is not stopped    *)
(* and may still act while the second one runs.  The nodes catch their     *)
(* errors and answer success: false, which Temporal does not retry.        *)
(*                                                                         *)
(* The slots share one process: one circuit for the requests of the        *)
(* generic client, one read cache.  The legacy client (executeRequest) has *)
(* retries and no circuit.  All slots act on one contact, whose custom     *)
(* attributes are kept: the attribute of slot s is s itself.               *)
(***************************************************************************)
EXTENDS CircuitBreaker, FiniteSets, Sequences

CONSTANTS
    Slots,          \* the nodes under way at one time
    Workloads,      \* the assignments of nodes to slots that are considered
    Recycle,        \* whether a slot whose node is decided executes another
    MaxTroubles     \* outages, odd answers, slow attempts and crashes

Attempts == 1 .. 2                  \* maximumAttempts of the activity proxy
NoCopy == {"no copy"}               \* no answer in the read cache
OtherAttributes == {"other"}        \* what the contact had before

VARIABLES
    node,       \* the node each slot executes
    slot,       \* what Temporal knows of it, and what its writes did
    run,        \* the attempts under way in the worker process
    circuit,    \* the circuit breaker of the generic client
    crm,        \* whether the CRM answers
    attributes, \* the contact's custom attributes in the CRM
    cache,      \* the attributes in the cached contact, or NoCopy
    stale,      \* some attribute was written over a copy that was out of date
    outages,    \* the CRM was unavailable to a request of the generic client
    troubles    \* troubles so far

nodeVars == <<node, slot, run, circuit, crm, attributes, cache, stale, outages, troubles>>
remote == <<circuit, crm, attributes, cache, stale, outages>>

-------------------------------------------------------------------------------
(* What each node does to the outside world                                  *)
(* (modules/temporal/activities/nodes): what it refuses to run without, what *)
(* it reads first, what it writes, over which client, and whether it reads   *)
(* the effect back.  A profile has the fields                                *)
(*   lacks   the inputs that may be missing, each with the verdict given     *)
(*   reads   what is read before the write: over which client, and the       *)
(*           verdict when nothing is found and when nobody answers           *)
(*   write   the client of the write, "none" for a node of its own process   *)
(*   effects the writes of one run: one for every recipient                  *)
(*   check   the client that reads the effect back, or "none"                *)
(*   blind   the verdict when that reading back fails                        *)
(*   lenient the node succeeds although its write was refused                *)
(*   declines the CRM may answer that it did nothing                         *)

Verdicts == {"success", "skipped", "error"}

Write(client) ==
    [lacks |-> << >>, reads |-> << >>, write |-> client, effects |-> 1,
     check |-> "none", blind |-> "success", lenient |-> FALSE, declines |-> FALSE]

Local == Write("none")

(* contextSkip: the verdict of a node that needs a conversation and was      *)
(* triggered without one.                                                    *)
NoConversation == [conversation |-> "skipped"]
NoConfiguration == [config |-> "skipped", conversation |-> "skipped"]

(* contactsService.findById, through the read cache of the generic client.   *)
Contact(missing) == [client |-> "generic", cached |-> TRUE, missing |-> missing, failed |-> "error"]
(* The same read with noCache.                                               *)
FreshContact == [client |-> "generic", cached |-> FALSE, missing |-> "error", failed |-> "error"]
(* A lookup over the legacy client, which answers an outage like an absence. *)
Lookup == [client |-> "legacy", cached |-> FALSE, missing |-> "skipped", failed |-> "skipped"]

AddLabel == [Write("generic") EXCEPT !.reads = <<Contact("skipped")>>, !.check = "generic"]
RemoveLabel == [Write("generic") EXCEPT !.reads = <<Contact("skipped"), FreshContact>>]
(* A contact update without fields is a success that writes nothing.         *)
UpdateContact ==
    [Write("generic") EXCEPT !.lacks = [config |-> "success"], !.reads = <<Contact("error")>>]
UpdateCustomAttribute == [Write("generic") EXCEPT !.reads = <<Contact("skipped")>>]

AssignAgent == [Write("legacy") EXCEPT !.lacks = NoConversation]
AssignTeam == [Write("legacy") EXCEPT !.lacks = NoConversation]
(* getInboxBot answers an outage with no bot: an assignment looks undone, a   *)
(* removal looks done.                                                       *)
AssignBot ==
    [Write("legacy") EXCEPT !.lacks = [config |-> "error"], !.check = "legacy", !.blind = "error"]
UnassignBot == [AssignBot EXCEPT !.blind = "success"]
MuteConversation == [Write("legacy") EXCEPT !.lacks = NoConversation]
ResolveConversation == [Write("legacy") EXCEPT !.lacks = NoConversation]
SnoozeConversation == [Write("legacy") EXCEPT !.lacks = NoConversation]
ChangePriority ==
    [Write("legacy") EXCEPT !.lacks = [conversation |-> "skipped", config |-> "error"]]

SendMessage == [Write("legacy") EXCEPT !.lacks = NoConfiguration]
SendTemplate == [SendMessage EXCEPT !.reads = <<Lookup>>]
SendCannedResponse == [Write("legacy") EXCEPT !.lacks = NoConfiguration, !.reads = <<Lookup>>]
SendEmailTeam == [Write("legacy") EXCEPT !.lacks = NoConfiguration]
(* One request for each address; one that succeeds is enough.                *)
SendTranscript ==
    [Write("legacy") EXCEPT !.lacks = [conversation |-> "skipped", config |-> "error"],
                            !.effects = 2]

AssignToPipeline == [Write("legacy") EXCEPT !.lacks = NoConfiguration]
MoveToPipelineStage == [Write("legacy") EXCEPT !.lacks = NoConfiguration, !.declines = TRUE]
CreatePipelineTask == [Write("legacy") EXCEPT !.lacks = NoConfiguration, !.declines = TRUE]

(* The action is saved in the database of the flow service; the CRM's copy   *)
(* may fail.                                                                 *)
ScheduledAction == [Write("legacy") EXCEPT !.lenient = TRUE]
SendWebhook == [Write("webhook") EXCEPT !.lacks = [config |-> "error"]]
(* The target journey is looked up and its workflow is started.              *)
TransferJourney == [Write("temporal") EXCEPT !.lacks = [config |-> "error"]]

(* Nodes that only touch the session's variables or choose an edge.  The     *)
(* conditional reads the contact.                                            *)
SetVariable == [Local EXCEPT !.lacks = [config |-> "error"]]
Split == [Local EXCEPT !.lacks = [config |-> "error"]]
ExitJourney == Local
Trigger == Local
Conditional == [Local EXCEPT !.lacks = [config |-> "error"], !.reads = <<Contact("success")>>]

Profiles ==
    [add_label |-> AddLabel, remove_label |-> RemoveLabel, update_contact |-> UpdateContact,
     update_custom_attribute |-> UpdateCustomAttribute, assign_agent |-> AssignAgent,
     assign_team |-> AssignTeam, assign_bot |-> AssignBot, unassign_bot |-> UnassignBot,
     mute_conversation |-> MuteConversation, resolve_conversation |-> ResolveConversation,
     snooze_conversation |-> SnoozeConversation, change_priority |-> ChangePriority,
     send_message |-> SendMessage, send_template |-> SendTemplate, send_canned_response |-> SendCannedResponse,
     send_email_team |-> SendEmailTeam, send_transcript |-> SendTranscript,
     assign_to_pipeline |-> AssignToPipeline, move_to_pipeline_stage |-> MoveToPipelineStage,
     create_pipeline_task |-> CreatePipelineTask, scheduled_action |-> ScheduledAction,
     send_webhook |-> SendWebhook, transfer_journey |-> TransferJourney,
     set_variable |-> SetVariable, split |-> Split, exit_journey |-> ExitJourney,
     trigger |-> Trigger, conditional |-> Conditional]

Nodes == DOMAIN Profiles

ASSUME NodesAssumption ==
    /\ Slots \cap (OtherAttributes \cup NoCopy) = {}
    /\ Workloads \subseteq [Slots -> Nodes]
    /\ MaxTroubles \in Nat

-------------------------------------------------------------------------------
IdleRun == [pc |-> "idle", read |-> 1, try |-> 1, left |-> 0, sent |-> FALSE, copy |-> {}]
FreeSlot == [phase |-> "free", lack |-> "nothing", verdict |-> "none", attempt |-> 0,
             applied |-> 0, repeats |-> 0, lied |-> FALSE, blind |-> FALSE]

Profile(s) == Profiles[node[s]]
IsAttribute(s) == node[s] = "update_custom_attribute"

(* Tries one request has: executeRequest makes three, requestGeneric four,   *)
(* a webhook one and its retryAttempts, the start of a workflow one.         *)
Tries == [legacy |-> 3, generic |-> 4, webhook |-> 2, temporal |-> 1]

Trouble == troubles < MaxTroubles /\ troubles' = troubles + 1
NoTrouble == UNCHANGED troubles

NodesInit ==
    /\ node \in Workloads
    /\ slot = [s \in Slots |-> FreeSlot]
    /\ run = [s \in Slots |-> [a \in Attempts |-> IdleRun]]
    /\ circuit = ClosedCircuit
    /\ crm = "up"
    /\ attributes = OtherAttributes
    /\ cache = NoCopy
    /\ stale = FALSE
    /\ outages = FALSE
    /\ troubles = 0

-------------------------------------------------------------------------------
(* The activity.                                                             *)

Advances(s, a, changed) == run' = [run EXCEPT ![s][a] = changed]
Alive(s, a) == run[s][a].pc /= "idle"

(* The attempt whose result Temporal still takes.                            *)
Awaited(s, a) == slot[s].phase = "running" /\ slot[s].attempt = a

(* Mutant: a node that throws instead of answering success: false, so that   *)
(* Temporal tries it again.                                                  *)
AnsweredThrown(s, a, verdict, known) ==
    IF Awaited(s, a)
    THEN IF verdict = "error" /\ a = 1 THEN [known EXCEPT !.phase = "queued"]
         ELSE [known EXCEPT !.phase = "decided", !.verdict = verdict]
    ELSE known

(* Mutant: a skipped node answers success: true.                             *)
AnsweredSkipped(s, a, verdict, known) ==
    IF Awaited(s, a)
    THEN [known EXCEPT !.phase = "decided",
                       !.verdict = IF verdict = "skipped" THEN "success" ELSE verdict]
    ELSE known

Answered(s, a, verdict, known) ==
    IF Awaited(s, a) THEN [known EXCEPT !.phase = "decided", !.verdict = verdict] ELSE known

(* The attempt ends with a verdict; what is left of the slot is known.       *)
Finish(s, a, verdict, known) ==
    /\ Advances(s, a, IdleRun)
    /\ slot' = [slot EXCEPT ![s] = Answered(s, a, verdict, known)]

(* A workflow schedules a node.  Its attribute is one the contact lacks.     *)
Begin(s) ==
    /\ slot[s].phase = "free" \/ (Recycle /\ slot[s].phase = "decided")
    /\ \A a \in Attempts : ~Alive(s, a)
    /\ \E lack \in {"nothing"} \cup DOMAIN Profile(s).lacks :
        slot' = [slot EXCEPT ![s] = [FreeSlot EXCEPT !.phase = "queued", !.lack = lack]]
    /\ attributes' = attributes \ {s}
    /\ cache' = cache \ {s}
    /\ UNCHANGED <<node, run, circuit, crm, stale, outages, troubles>>

StartAttempt(s) ==
    /\ slot[s].phase = "queued"
    /\ slot[s].attempt < 2
    /\ LET a == slot[s].attempt + 1 IN
        /\ slot' = [slot EXCEPT ![s] = [@ EXCEPT !.phase = "running", !.attempt = a]]
        /\ Advances(s, a, [IdleRun EXCEPT !.pc = "check"])
    /\ UNCHANGED <<node, remote, troubles>>

(* Mutant: the activity has no timeout, so that only a result ends it.       *)
TimesOutOnce(s) ==
    /\ slot[s].phase = "running" /\ Alive(s, slot[s].attempt)
    /\ Trouble
    /\ slot' = [slot EXCEPT ![s].phase = "queued", ![s].repeats = @ + Profile(s).effects]
    /\ UNCHANGED <<node, run, remote>>

(* startToCloseTimeout: the attempt is slow, or its worker is gone.  The     *)
(* slow one goes on.  After the second the activity has failed.              *)
TimesOut(s) ==
    /\ slot[s].phase = "running"
    /\ IF Alive(s, slot[s].attempt) THEN Trouble ELSE NoTrouble
    /\ LET known == slot[s]
           again == [known EXCEPT !.phase = "queued", !.repeats = @ + Profile(s).effects]
           over == [known EXCEPT !.phase = "decided", !.verdict = "error"]
       IN  slot' = [slot EXCEPT ![s] = IF known.attempt < 2 THEN again ELSE over]
    /\ UNCHANGED <<node, run, remote>>

(* Required inputs come first.                                               *)
Check(s, a) ==
    /\ run[s][a].pc = "check"
    /\ IF slot[s].lack /= "nothing"
       THEN Finish(s, a, Profile(s).lacks[slot[s].lack], slot[s])
       ELSE /\ Advances(s, a, [run[s][a] EXCEPT !.pc = "read", !.left = Profile(s).effects])
            /\ UNCHANGED slot
    /\ UNCHANGED <<node, remote, troubles>>

-------------------------------------------------------------------------------
(* Requests.                                                                 *)

(* requestGeneric asks the circuit before it calls execute: an open circuit  *)
(* refuses, whether or not it is due for a reset.                            *)
Refused(client) == client = "generic" /\ circuit.state = "OPEN"

(* What a request leaves of the circuit: every answer, a 4xx too, is a       *)
(* success, only unavailability after the last try is a failure.  A request  *)
(* that finds the circuit open never gets to execute, which alone would half *)
(* open it.                                                                  *)
Counted(client, answered) ==
    /\ circuit' = IF client /= "generic" THEN circuit
                  ELSE IF answered THEN Succeeded(circuit)
                  ELSE Failed(circuit)
    /\ outages' = (outages \/ (client = "generic" /\ ~answered))

(* A request that is turned down by a CRM that is there.                     *)
Rejected(client) == Counted(client, TRUE)

(* An outage lasts longer than the retries of a read, which are one step.    *)
OutOfReach(client) == Refused(client) \/ crm = "down"

Unanswered(client) ==
    IF Refused(client) THEN UNCHANGED <<circuit, outages>> ELSE Counted(client, FALSE)

Read(s, a) ==
    LET r == run[s][a]
        reads == Profile(s).reads
        read == reads[r.read]
        found(copy) == Advances(s, a, [r EXCEPT !.read = @ + 1, !.copy = copy])
    IN
    /\ r.pc = "read"
    /\ \/ /\ r.read > Len(reads)
          /\ IF Profile(s).write = "none" THEN Finish(s, a, "success", slot[s])
             ELSE Advances(s, a, [r EXCEPT !.pc = "write"]) /\ UNCHANGED slot
          /\ UNCHANGED <<circuit, outages, cache>>
       \/ /\ r.read <= Len(reads) /\ read.cached /\ cache /= NoCopy
          /\ found(cache)
          /\ UNCHANGED <<slot, circuit, outages, cache>>
       \/ /\ r.read <= Len(reads) /\ (~read.cached \/ cache = NoCopy)
          /\ \/ /\ OutOfReach(read.client)
                /\ Unanswered(read.client)
                /\ Finish(s, a, read.failed, slot[s])
                /\ UNCHANGED cache
             \/ /\ ~OutOfReach(read.client)
                /\ Counted(read.client, TRUE)
                /\ \/ /\ found(attributes)
                      /\ cache' = IF read.cached THEN attributes ELSE cache
                      /\ UNCHANGED slot
                   \/ /\ Finish(s, a, read.missing, slot[s])
                      /\ UNCHANGED cache
    /\ UNCHANGED <<node, crm, attributes, stale, troubles>>

(* Mutant: the attributes the contact has are not found in the answer, so    *)
(* that the new one replaces them all.                                       *)
MergedAlone(s, copy) == {s}

(* PATCH replaces the column, so the node sends the attributes of its copy   *)
(* and its own.                                                              *)
Merged(s, copy) == copy \cup {s}

(* What a write that took effect does to the CRM.                            *)
Effect(s, a) ==
    IF IsAttribute(s)
    THEN /\ attributes' = Merged(s, run[s][a].copy)
         /\ stale' = (stale \/ ~(attributes \subseteq run[s][a].copy \cup {s}))
    ELSE UNCHANGED <<attributes, stale>>
NoEffect == UNCHANGED <<attributes, stale>>

(* Mutant: the recipients are not counted down.                              *)
ThenOn(s, a, ok, known) ==
    /\ Advances(s, a, [run[s][a] EXCEPT !.left = @ + 1, !.try = 1])
    /\ slot' = [slot EXCEPT ![s] = known]

(* After the last try of one request: the next recipient, or the end.        *)
Then(s, a, ok, known) ==
    LET r == run[s][a]
        sent == r.sent \/ ok
    IN  IF r.left > 1
        THEN /\ Advances(s, a, [r EXCEPT !.left = @ - 1, !.try = 1, !.sent = sent])
             /\ slot' = [slot EXCEPT ![s] = known]
        ELSE IF sent /\ Profile(s).check /= "none"
        THEN /\ Advances(s, a, [r EXCEPT !.pc = "verify"])
             /\ slot' = [slot EXCEPT ![s] = known]
        ELSE Finish(s, a, IF sent \/ Profile(s).lenient THEN "success" ELSE "error", known)

(* A try that no usable answer followed: another one, or the client gives up. *)
TryAgain(s, a, client, known) ==
    IF run[s][a].try < Tries[client]
    THEN /\ Advances(s, a, [run[s][a] EXCEPT !.try = @ + 1])
         /\ slot' = [slot EXCEPT ![s] = known]
         /\ UNCHANGED <<circuit, outages>>
    ELSE /\ Then(s, a, FALSE, known)
         /\ Counted(client, FALSE)

(* One try of the write, and what becomes of it: it is refused by the        *)
(* circuit; done; done although no answer arrives; answered 2xx and not      *)
(* done; rejected with a 4xx; declined; or not done for want of the CRM.     *)
WriteTry(s, a) ==
    LET client == Profile(s).write
        known == slot[s]
        applied == [known EXCEPT !.applied = @ + 1]
    IN
    /\ run[s][a].pc = "write"
    /\ \/ /\ run[s][a].try = 1 /\ Refused(client)
          /\ Then(s, a, FALSE, known)
          /\ NoEffect /\ NoTrouble /\ UNCHANGED <<circuit, outages>>
       \/ /\ run[s][a].try > 1 \/ ~Refused(client)
          /\ \/ /\ crm = "up"
                /\ \/ /\ Then(s, a, TRUE, applied)
                      /\ Effect(s, a) /\ NoTrouble /\ Counted(client, TRUE)
                   \/ /\ TryAgain(s, a, client, [applied EXCEPT !.repeats = @ + 1])
                      /\ Effect(s, a) /\ Trouble
                   \/ /\ Then(s, a, TRUE, [known EXCEPT !.lied = TRUE])
                      /\ NoEffect /\ Trouble /\ Counted(client, TRUE)
                   \/ /\ client /= "webhook"
                      /\ Then(s, a, FALSE, known)
                      /\ NoEffect /\ Trouble /\ Rejected(client)
                   \/ /\ Profile(s).declines
                      /\ Finish(s, a, "skipped", known)
                      /\ NoEffect /\ NoTrouble /\ UNCHANGED <<circuit, outages>>
             \/ /\ crm = "down"
                /\ TryAgain(s, a, client, known)
                /\ NoEffect /\ NoTrouble
    /\ UNCHANGED <<node, crm, cache>>

(* verifyEffect: the resource is read back, without the cache.  A reading    *)
(* that fails confirms nothing, and must not fail the node.                  *)
Verify(s, a) ==
    LET client == Profile(s).check IN
    /\ run[s][a].pc = "verify"
    /\ \/ /\ OutOfReach(client)
          /\ Unanswered(client)
          /\ Finish(s, a, Profile(s).blind, [slot[s] EXCEPT !.blind = TRUE])
       \/ /\ ~OutOfReach(client)
          /\ Counted(client, TRUE)
          /\ Finish(s, a, IF slot[s].applied > 0 THEN "success" ELSE "error", slot[s])
    /\ UNCHANGED <<node, crm, attributes, cache, stale, troubles>>

-------------------------------------------------------------------------------
(* The environment.                                                          *)

Outage ==
    /\ crm = "up" /\ crm' = "down" /\ Trouble
    /\ UNCHANGED <<node, slot, run, circuit, attributes, cache, stale, outages>>

Recovery ==
    /\ crm = "down" /\ crm' = "up"
    /\ UNCHANGED <<node, slot, run, circuit, attributes, cache, stale, outages, troubles>>

(* The cached contact expires after thirty seconds.                          *)
Expire ==
    /\ cache /= NoCopy /\ cache' = NoCopy
    /\ UNCHANGED <<node, slot, run, circuit, crm, attributes, stale, outages, troubles>>

(* The worker process ends; a new one has a closed circuit and no cache.     *)
WorkerDies ==
    /\ Trouble
    /\ run' = [s \in Slots |-> [a \in Attempts |-> IdleRun]]
    /\ circuit' = ClosedCircuit
    /\ cache' = NoCopy
    /\ UNCHANGED <<node, slot, crm, attributes, stale, outages>>

RunStep(s, a) == Check(s, a) \/ Read(s, a) \/ WriteTry(s, a) \/ Verify(s, a)

NodesStep ==
    \/ \E s \in Slots : Begin(s) \/ StartAttempt(s) \/ TimesOut(s)
    \/ \E s \in Slots, a \in Attempts : RunStep(s, a)
    \/ Outage \/ Recovery \/ Expire \/ WorkerDies

NodesSpec == NodesInit /\ [][NodesStep]_nodeVars

(* Temporal dispatches attempts and times out those whose worker is gone; a  *)
(* worker runs the attempt that is awaited.  Nothing is asked of the CRM.    *)
Fairness ==
    \A s \in Slots :
        /\ WF_nodeVars(StartAttempt(s))
        /\ WF_nodeVars(TimesOut(s) /\ NoTrouble)
        /\ WF_nodeVars(\E a \in Attempts : Awaited(s, a) /\ RunStep(s, a))

FairNodes == NodesSpec /\ Fairness

-------------------------------------------------------------------------------
RunRecords ==
    [pc : {"idle", "check", "read", "write", "verify"}, read : 1 .. 3, try : 1 .. 4,
     left : 0 .. 2, sent : BOOLEAN, copy : SUBSET (Slots \cup OtherAttributes)]
SlotRecords ==
    [phase : {"free", "queued", "running", "decided"},
     lack : {"nothing", "config", "conversation"}, verdict : Verdicts \cup {"none"},
     attempt : 0 .. 2, applied : Nat, repeats : Nat, lied : BOOLEAN, blind : BOOLEAN]

NodesTyped ==
    /\ node \in [Slots -> Nodes]
    /\ slot \in [Slots -> SlotRecords]
    /\ \A s \in Slots, a \in Attempts : run[s][a] \in RunRecords
    /\ circuit \in Circuits
    /\ crm \in {"up", "down"}
    /\ attributes \subseteq Slots \cup OtherAttributes
    /\ cache \subseteq Slots \cup OtherAttributes \cup NoCopy
    /\ stale \in BOOLEAN /\ outages \in BOOLEAN
    /\ troubles \in 0 .. MaxTroubles

Acts(s) == Profile(s).write /= "none"

(* A node that acts outside reports success only when its effect was         *)
(* written, "a node that cannot run ... must NOT report success"             *)
(* (base.node.ts).  The exceptions are named: a scheduled action whose CRM   *)
(* copy is refused, a contact update without fields, and a 2xx that was a    *)
(* lie and that the node does not, or could not, read back.                  *)
NoSilentSuccess ==
    \A s \in Slots :
        slot[s].verdict = "success" /\ Acts(s) =>
            \/ slot[s].applied > 0
            \/ slot[s].lied /\ (Profile(s).check = "none" \/ slot[s].blind)
            \/ Profile(s).lenient
            \/ slot[s].lack /= "nothing" /\ Profile(s).lacks[slot[s].lack] = "success"

(* An effect is repeated only because an answer was lost or because Temporal *)
(* gave up waiting for an attempt that was still acting.                     *)
OneEffectPerInterruption ==
    \A s \in Slots : slot[s].applied <= Profile(s).effects + slot[s].repeats

(* What a node reports is what it did: not less, not more often, and a CRM   *)
(* that answers, if only to refuse, is not taken for one that is away        *)
(* (EVO-1918).                                                               *)
ReportsMatchEffects ==
    /\ NodesTyped
    /\ NoSilentSuccess
    /\ OneEffectPerInterruption
    /\ circuit /= ClosedCircuit => outages

(* A custom attribute that a node wrote, and those the contact had, are lost *)
(* only to a node that wrote over an out-of-date copy of the contact: one    *)
(* read up to thirty seconds ago, or before another node's write.            *)
AttributesLostOnlyToStaleCopies ==
    ~stale => /\ OtherAttributes \subseteq attributes
              /\ \A s \in Slots : IsAttribute(s) /\ slot[s].applied > 0 => s \in attributes

(* Every scheduled node gets a verdict, whatever hangs, is lost or crashes:  *)
(* the journey behind it is never left waiting.                              *)
NodeDecided == \A s \in Slots : slot[s].phase = "queued" ~> slot[s].phase = "decided"

===============================================================================

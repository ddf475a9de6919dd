--------------------------- MODULE SessionVariables ---------------------------
(***************************************************************************)
(* The variables of one journey session: what the nodes that compute       *)
(* variables and the node that branches on them read and write.            *)
(*                                                                         *)
(* A workflow walks the nodes of its journey.  Before and after a node it  *)
(* runs activities on the session record; those after it run in parallel   *)
(* (Promise.all), and each reads the record, awaits and writes all of it   *)
(* back: Redis, then the row.  A node that increases a variable reads the  *)
(* row; the interpolation of {{variables}} reads Redis first; the workflow *)
(* keeps variables of its own, which no node reads.                        *)
(*                                                                         *)
(* Variables: "count", which nodes increase, and "goal", which the trigger *)
(* maps from its event.  Values are numerals of one digit, so contains,    *)
(* starts_with and ends_with agree; a text of another kind is Token.       *)
(***************************************************************************)
EXTENDS Integers, Sequences, Functions

CONSTANTS
    Programs,       \* the journeys considered: sequences of nodes
    MaxNodes,       \* nodes one session executes at most
    MaxUpsets       \* failed calls, lost Redis data and changes of the facts

Missing == -1       \* undefined or null
Blank == -2         \* the empty string
Token == -3         \* a {{token}} nothing resolved: text that is no number

Names == {"count", "goal"}
Values == Nat \cup {Missing, Blank, Token}

\* extractValueFromPath: the properties of the trigger's event, else its traits.
MappedValue(event) == IF event.properties # Missing THEN event.properties ELSE event.traits

(* A journey has a first node.  What a node sets or maps is a value; an      *)
(* increase is by a number.                                                  *)
ASSUME ProgramsAssumption ==
    \A p \in Programs :
        /\ 1 \in DOMAIN p
        /\ \A n \in DOMAIN p :
              /\ p[n].kind = "set" => p[n].value \in Values
              /\ p[n].kind = "increase" => p[n].value \in Nat
              /\ p[n].kind = "trigger" => MappedValue(p[n].value) \in Values

NoVariables == [n \in Names |-> Missing]

VARIABLES
    program,        \* the journey
    flow,           \* the workflow: its place, its variables, what it loaded
    redis,          \* the variables in the cached session; {} when there is none
    row,            \* the variables in the row of the session
    task,           \* the activities on the session record under way
    facts,          \* the contact's attribute and the conversation's stages
    during,         \* the values each fact had since the node began
    overwritten,    \* old variables were put back, or the session and its row differ
    blind,          \* a load failed that the branching node goes on without
    total,          \* what "count" would be if every node counted
    wrong,          \* a path was taken that the facts did not justify
    upsets          \* upsets so far

sessionVars == <<program, flow, redis, row, task, facts, during, overwritten,
                 blind, total, wrong, upsets>>

Tasks == {"log", "vars", "place", "starter"}
IdleTask == [pc |-> "idle", copy |-> NoVariables, left |-> 0, try |-> 1]

\* What get() returns: Redis first, the row on a miss.
Current == IF redis = {} THEN row ELSE CHOOSE v \in redis : TRUE

\* {...old, ...new}: the variables new defines replace the old ones.
Merge(old, new) == [n \in Names |-> IF new[n] = Missing THEN old[n] ELSE new[n]]

Here == program[flow.at]
Upset == upsets < MaxUpsets /\ upsets' = upsets + 1
NoUpset == UNCHANGED upsets

\* The session starts with the defaults of the journey's variables.
SessionInit(pc, defaults) ==
    /\ program \in Programs
    /\ flow = [pc |-> pc, at |-> 1, vars |-> defaults, steps |-> 0,
               goal |-> Missing, contact |-> Missing, stage |-> {}, handle |-> 0]
    /\ redis = {defaults}
    /\ row = defaults
    /\ \E pending \in BOOLEAN :
           task = [t \in Tasks |-> IF t = "starter" /\ pending
                                  THEN [IdleTask EXCEPT !.pc = "read", !.left = 1] ELSE IdleTask]
    /\ facts \in [contact : {Missing, 1}, stage : {{}, {1, 2}}]
    /\ during = [contact |-> {facts.contact}, stage |-> {facts.stage}]
    /\ overwritten = FALSE
    /\ blind = FALSE
    /\ total = defaults["count"]
    /\ wrong = FALSE
    /\ upsets = 0

-------------------------------------------------------------------------------
(* Activities on the session record.                                         *)

\* Activities the workflow starts, each with the sets it makes.
Launched(ts) ==
    [t \in Tasks |-> IF t \in ts THEN [IdleTask EXCEPT !.pc = "read",
                                                       !.left = IF t = "log" THEN 2 ELSE 1]
                                 ELSE task[t]]

Settled(ts) == \A t \in ts : task[t].pc = "idle"

\* get(): a miss copies the row into Redis.
TaskReads(t) ==
    /\ task[t].pc = "read"
    /\ redis' = {Current}
    /\ task' = [task EXCEPT ![t].pc = "redis",
                            ![t].copy = IF t = "vars" THEN Merge(Current, flow.vars) ELSE Current]
    /\ NoUpset
    /\ UNCHANGED <<program, flow, row, facts, during, overwritten, blind, total, wrong>>

\* Whether a writer that sets no variable would change them all the same.
Stale(t) == t # "vars" /\ task[t].copy # Current

TaskCaches(t) ==
    /\ task[t].pc = "redis"
    /\ redis' = {task[t].copy}
    /\ overwritten' = (overwritten \/ Stale(t))
    /\ task' = [task EXCEPT ![t].pc = "row"]
    /\ NoUpset
    /\ UNCHANGED <<program, flow, row, facts, during, blind, total, wrong>>

\* logNodeExecution sets the record it has just set a second time.  Between
\* the two writes of a set the cached session may have become another one.
TaskPersists(t) ==
    /\ task[t].pc = "row"
    /\ row' = task[t].copy
    /\ overwritten' = (overwritten \/ task[t].copy # Current)
    /\ task' = [task EXCEPT ![t].left = @ - 1, ![t].pc = IF task[t].left > 1 THEN "redis" ELSE "idle"]
    /\ NoUpset
    /\ UNCHANGED <<program, flow, redis, facts, during, blind, total, wrong>>

\* A failed read or write.  logNodeExecution and the start of the journey
\* swallow it; an update of the session is tried twice and then ends the
\* journey.
TaskFails(t) ==
    /\ task[t].pc # "idle"
    /\ Upset
    /\ task' = [task EXCEPT ![t] = IF t \in {"log", "starter"} \/ task[t].try = 2 THEN IdleTask
                                   ELSE [IdleTask EXCEPT !.pc = "read", !.left = 1, !.try = 2]]
    /\ flow' = IF t \in {"vars", "place"} /\ task[t].try = 2 THEN [flow EXCEPT !.pc = "failed"] ELSE flow
    /\ UNCHANGED <<program, redis, row, facts, during, overwritten, blind, total, wrong>>

-------------------------------------------------------------------------------
(* The walk over the nodes.                                                  *)

Proceeds(pc) == flow' = [flow EXCEPT !.pc = pc]
RecordKept == UNCHANGED <<program, redis, row, facts, overwritten>>

\* The start of a node is logged before the node is executed.
StartNode ==
    /\ flow.pc = "start"
    /\ flow.steps < MaxNodes
    /\ flow' = [flow EXCEPT !.pc = "started", !.steps = @ + 1]
    /\ task' = Launched({"log"})
    /\ during' = [contact |-> {facts.contact}, stage |-> {facts.stage}]
    /\ NoUpset
    /\ UNCHANGED <<blind, total, wrong>> /\ RecordKept

Execute ==
    /\ flow.pc = "started"
    /\ Settled({"log"})
    /\ Proceeds(IF Here.kind = "exit" THEN "ended" ELSE "node")
    /\ NoUpset
    /\ UNCHANGED <<task, during, blind, total, wrong>> /\ RecordKept

\* The node succeeded: its variables join those of the workflow, and three
\* activities record it at once; the tracking one leaves the session alone.
Succeed(vars, handle) ==
    /\ flow' = [flow EXCEPT !.pc = "recording", !.vars = Merge(flow.vars, vars), !.handle = handle]
    /\ task' = [Launched({"log", "vars"}) EXCEPT !["starter"] = task["starter"]]

\* The node answered success: false: the journey stops.
NodeFails == Proceeds("failed") /\ UNCHANGED task

Assign(name, value) == [NoVariables EXCEPT ![name] = value]

\* The trigger node maps a value of its event to "goal"; what the event does
\* not carry leaves the variable alone.
ExecuteTrigger ==
    /\ flow.pc = "node" /\ Here.kind = "trigger"
    /\ Succeed(Assign("goal", MappedValue(Here.value)), 0)
    /\ NoUpset
    /\ UNCHANGED <<during, blind, total, wrong>> /\ RecordKept

\* SetVariable with operation set.  An undefined value sets nothing: the
\* result of an activity travels without it.
ExecuteSet ==
    /\ flow.pc = "node" /\ Here.kind = "set"
    /\ Succeed(Assign("count", Here.value), 0)
    /\ total' = IF Here.value = Missing THEN total ELSE Here.value
    /\ NoUpset
    /\ UNCHANGED <<during, blind, wrong>> /\ RecordKept

\* resolveArithmeticBase: an unset or blank variable counts from 0.
Base(value) == IF value \in {Missing, Blank} THEN 0 ELSE value

\* Mutant: a row that cannot be read counts as a session without variables.
IncreaseOrRestart ==
    /\ flow.pc = "node" /\ Here.kind = "increase"
    /\ \/ /\ Succeed(Assign("count", Base(row["count"]) + Here.value), 0)
          /\ NoUpset
       \/ Upset /\ Succeed(Assign("count", Here.value), 0)
    /\ total' = Base(total) + Here.value
    /\ UNCHANGED <<during, blind, wrong>> /\ RecordKept

\* SetVariable with operation increase: a read of the row, and no catch.
Increase ==
    /\ flow.pc = "node" /\ Here.kind = "increase"
    /\ \/ /\ row["count"] # Token
          /\ Succeed(Assign("count", Base(row["count"]) + Here.value), 0)
          /\ total' = Base(total) + Here.value
          /\ NoUpset
       \/ row["count"] = Token /\ NodeFails /\ NoUpset /\ UNCHANGED total
       \/ Upset /\ NodeFails /\ UNCHANGED total
    /\ UNCHANGED <<during, blind, wrong>> /\ RecordKept
===============================================================================

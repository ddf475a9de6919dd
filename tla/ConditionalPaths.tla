--------------------------- MODULE ConditionalPaths ---------------------------
(***************************************************************************)
(* The node that branches (nodes/conditional.node.ts) and the choice of    *)
(* the next node by the workflow, over the variables of SessionVariables.  *)
(*                                                                         *)
(* The node loads what its conditions need, one load after the other:      *)
(* {{variables}} of the values compared with, from the cached session; the *)
(* contact and the conversation, from the CRM; the session's variables,    *)
(* from the row.  A contact that cannot be loaded fails the node; a        *)
(* conversation or a session that cannot counts as empty.                  *)
(***************************************************************************)
EXTENDS SessionVariables

\* The value of a condition that names a variable.
Reference == -4

Branching == flow.pc = "node" /\ Here.kind = "branch"

ConditionsOf(n) == UNION {Range(path.conditions) : path \in Range(n.paths)}
Needs(fact) == \E c \in ConditionsOf(Here) : c.of = fact

-------------------------------------------------------------------------------
(* Comparisons.                                                              *)

\* Number(v), where it is one.
Numeric(v) == v >= 0 \/ v = Blank
Number(v) == IF v = Blank THEN 0 ELSE v

\* A prefix, a suffix or a part of a text of one character.
PartOf(e, v) == e = v \/ e = Blank

\* compareValues of a value that is absent.
CompareAbsent(op, e) == op = "is_empty" \/ (op = "not_equals" /\ e # Missing)

\* compareValues.  The number 0 is falsy and counts as empty.
Compare(v, op, e) ==
    IF v = Missing THEN CompareAbsent(op, e)
    ELSE \/ op = "equals" /\ v = e
         \/ op = "not_equals" /\ v # e
         \/ op \in {"contains", "starts_with", "ends_with"} /\ PartOf(e, v)
         \/ op = "not_contains" /\ ~PartOf(e, v)
         \/ op = "greater_than" /\ Numeric(v) /\ Numeric(e) /\ Number(v) > Number(e)
         \/ op = "less_than" /\ Numeric(v) /\ Numeric(e) /\ Number(v) < Number(e)
         \/ op = "is_empty" /\ v \in {0, Blank}
         \/ op = "is_not_empty" /\ v \notin {0, Blank}

\* compareConversationStage: without a stage nothing holds, not even
\* not_equals.
CompareStage(stages, op, e) ==
    /\ e # Missing /\ stages # {}
    /\ \/ op = "equals" /\ e \in stages
       \/ op = "not_equals" /\ e \notin stages

Expected(c, goal) == IF c.value = Reference THEN IF goal = Missing THEN Token ELSE goal
                                            ELSE c.value

Holds(c, contact, stage, vars, goal) ==
    \/ c.of = "stage" /\ CompareStage(stage, c.op, Expected(c, goal))
    \/ c.of = "contact" /\ Compare(contact, c.op, Expected(c, goal))
    \/ c.of = "count" /\ Compare(vars["count"], c.op, Expected(c, goal))

\* evaluatePath: no condition always holds; OR, and AND for everything else.
PathHolds(path, contact, stage, vars, goal) ==
    LET holds(c) == Holds(c, contact, stage, vars, goal)
    IN IF path.any /\ path.conditions # <<>> THEN \E c \in Range(path.conditions) : holds(c)
                                             ELSE \A c \in Range(path.conditions) : holds(c)

\* The first path that holds, or 0: the else path.
Matched(contact, stage, vars, goal) ==
    LET holding == {p \in DOMAIN Here.paths : PathHolds(Here.paths[p], contact, stage, vars, goal)}
    IN IF holding = {} THEN 0 ELSE CHOOSE p \in holding : \A q \in holding : p <= q

-------------------------------------------------------------------------------
(* Loads.                                                                    *)

\* interpolateValue: the cached session, else the token as it stands.
Interpolate ==
    /\ Branching
    /\ \/ flow' = [flow EXCEPT !.pc = "contact", !.goal = Current["goal"]] /\ NoUpset /\ UNCHANGED blind
       \/ Upset /\ flow' = [flow EXCEPT !.pc = "contact", !.goal = Missing] /\ blind' = TRUE
    /\ UNCHANGED <<task, during, total, wrong>> /\ RecordKept

\* Mutant: a contact that cannot be loaded counts as one without attributes.
LoadContactOrNothing ==
    /\ flow.pc = "contact"
    /\ \/ flow' = [flow EXCEPT !.pc = "stage", !.contact = IF Needs("contact") THEN facts.contact ELSE Missing]
          /\ NoUpset
       \/ Upset /\ flow' = [flow EXCEPT !.pc = "stage", !.contact = Missing]
    /\ UNCHANGED <<task, during, blind, total, wrong>> /\ RecordKept

LoadContact ==
    /\ flow.pc = "contact"
    /\ \/ /\ flow' = [flow EXCEPT !.pc = "stage", !.contact = IF Needs("contact") THEN facts.contact ELSE Missing]
          /\ NoUpset
       \/ Needs("contact") /\ Upset /\ Proceeds("failed")
    /\ UNCHANGED <<task, during, blind, total, wrong>> /\ RecordKept

LoadConversation ==
    /\ flow.pc = "stage"
    /\ \/ /\ flow' = [flow EXCEPT !.pc = "decide", !.stage = IF Needs("stage") THEN facts.stage ELSE {}]
          /\ NoUpset /\ UNCHANGED blind
       \/ Needs("stage") /\ Upset /\ blind' = TRUE /\ flow' = [flow EXCEPT !.pc = "decide", !.stage = {}]
    /\ UNCHANGED <<task, during, total, wrong>> /\ RecordKept

\* Each fact as it was at some time since the node began, the variables as
\* the workflow knows them.
Justified(path) ==
    \E contact \in during.contact, stage \in during.stage :
        path = Matched(contact, stage, [flow.vars EXCEPT !["count"] = total], flow.vars["goal"])

\* Takes the path that what was loaded calls for.
TakePath(vars) ==
    LET path == Matched(flow.contact, flow.stage, vars, flow.goal)
    IN /\ Succeed(NoVariables, path)
       /\ wrong' = (wrong \/ (~Justified(path) /\ ~overwritten /\ ~blind'))

\* The session's variables, from the row, and the choice of a path.
Decide ==
    /\ flow.pc = "decide"
    /\ \/ NoUpset /\ blind' = blind /\ TakePath(row)
       \/ Upset /\ blind' = TRUE /\ TakePath(NoVariables)
    /\ UNCHANGED <<during, total>> /\ RecordKept

-------------------------------------------------------------------------------
(* The way on.                                                               *)

\* The edge for the handle, the first edge when there is none.
EdgeTaken ==
    LET fitting == {e \in DOMAIN Here.edges : Here.kind = "branch" /\ Here.edges[e].handle = flow.handle}
    IN IF fitting = {} THEN 1 ELSE CHOOSE e \in fitting : \A d \in fitting : e <= d

Target == Here.edges[EdgeTaken].target

\* Both records are written; the session then moves to the next node, or the
\* journey stays where it is, active.
Move ==
    /\ flow.pc = "recording"
    /\ Settled({"log", "vars"})
    /\ IF Here.edges # <<>> /\ Target \in DOMAIN program
       THEN /\ flow' = [flow EXCEPT !.pc = "moving", !.at = Target]
            /\ task' = Launched({"place"})
       ELSE Proceeds("stays") /\ UNCHANGED task
    /\ NoUpset
    /\ UNCHANGED <<during, blind, total, wrong>> /\ RecordKept

Arrive ==
    /\ flow.pc = "moving"
    /\ Settled({"place"})
    /\ Proceeds("start")
    /\ NoUpset
    /\ UNCHANGED <<task, during, blind, total, wrong>> /\ RecordKept

(* The outside world: the contact or the conversation changes while a node   *)
(* branches on them, Redis loses its data.                                   *)
FactChanges ==
    /\ Upset
    /\ Here.kind = "branch" /\ (Needs("contact") \/ Needs("stage"))
    /\ \/ \E v \in {Missing, 1} : facts' = [facts EXCEPT !.contact = v]
       \/ \E s \in {{}, {1}, {1, 2}} : facts' = [facts EXCEPT !.stage = s]
    /\ during' = [contact |-> during.contact \cup {facts'.contact}, stage |-> during.stage \cup {facts'.stage}]
    /\ UNCHANGED <<program, flow, redis, row, task, overwritten, blind, total, wrong>>

SessionForgotten ==
    /\ Upset
    /\ redis # {}
    /\ redis' = {}
    /\ UNCHANGED <<program, flow, row, task, facts, during, overwritten, blind, total, wrong>>

WalkStep ==
    \/ StartNode \/ Execute \/ ExecuteTrigger \/ ExecuteSet \/ Increase
    \/ Interpolate \/ LoadContact \/ LoadConversation \/ Decide \/ Move \/ Arrive

SessionStep ==
    /\ flow.pc # "failed"
    /\ \/ WalkStep
       \/ \E t \in Tasks : TaskReads(t) \/ TaskCaches(t) \/ TaskPersists(t) \/ TaskFails(t)
       \/ FactChanges
       \/ SessionForgotten

\* A session from its start, whatever the defaults of its variables.
SessionSpec ==
    /\ \E defaults \in [Names -> Values] : SessionInit("start", defaults)
    /\ [][SessionStep]_sessionVars

-------------------------------------------------------------------------------
(* Every node that increases the variable counts: what the workflow holds is *)
(* what the nodes executed so far add up to, unless an activity that sets no *)
(* variable has put old ones back into the session.  The node reads the row  *)
(* and writes through the workflow, which nothing makes atomic.              *)
EveryIncreaseCounts == overwritten \/ flow.vars["count"] = total

(* A branching node takes the first path whose conditions hold of the facts, *)
(* each at some time since the node began.  What it could not load does not  *)
(* count as absent: only the conversation, the session and the variables of  *)
(* the values compared with are allowed to be missing.                       *)
PathsFollowFacts == ~wrong

(* A journey counts right and branches right.                                *)
CountsAndPathsAreRight == EveryIncreaseCounts /\ PathsFollowFacts
===============================================================================

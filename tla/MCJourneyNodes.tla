---------------------------- MODULE MCJourneyNodes ----------------------------
(* Instances for TLC of the nodes of a journey: every node kind beside       *)
(* another of its kind or beside one whose requests trip the circuit; and,   *)
(* in behaviours of their own, sessions whose nodes count and branch, the    *)
(* tracking of journeys, and the start of the workers that execute them.     *)
EXTENDS JourneyNodes, ConditionalPaths, JourneyTracking, TemporalWorkers, TLC

CONSTANTS s1, s2

MCSlots == {s1, s2}
Pair(a, b) == (s1 :> a @@ s2 :> b)

(* Each kind of node with the worker to itself, and the pairs that share the *)
(* contact, its cached copy and the circuit.                                 *)
MCWorkloads ==
    {Pair(n, "exit_journey") : n \in Nodes} \cup
    {Pair("update_custom_attribute", "update_custom_attribute"),
     Pair("update_custom_attribute", "add_label"),
     Pair("assign_bot", "remove_label")}

(* Journeys.  An edge leads from a path (0 is the else path) to a node.      *)
To(handle, target) == [handle |-> handle, target |-> target]
Node(kind, value, edges) == [kind |-> kind, value |-> value, paths |-> <<>>, edges |-> edges]
Branch(paths, edges) == [kind |-> "branch", value |-> 0, paths |-> paths, edges |-> edges]
If(of, op, value) == [of |-> of, op |-> op, value |-> value]
AllOf(conditions) == [any |-> FALSE, conditions |-> conditions]
AnyOf(conditions) == [any |-> TRUE, conditions |-> conditions]
Exit == Node("exit", 0, <<>>)

(* Counts rounds until the count is what the trigger's event asked for.      *)
Rounds == <<Node("trigger", [properties |-> Missing, traits |-> 1], <<To(0, 2)>>),
            Node("increase", 1, <<To(0, 3)>>),
            Branch(<<AllOf(<<If("count", "equals", Reference)>>)>>, <<To(1, 4), To(0, 2)>>),
            Exit>>

(* Branches on the contact, the conversation and the count together.         *)
Facts == <<Branch(<<AllOf(<<If("contact", "is_not_empty", Missing), If("stage", "not_equals", 2)>>),
                    AnyOf(<<If("contact", "not_equals", 1), If("count", "greater_than", 0),
                            If("unknown", "equals", 1)>>)>>,
                  <<To(0, 2), To(1, 3)>>),
           Node("increase", 1, <<>>),
           Exit>>

(* Counts on from a default; counts on from a value that is no number.       *)
FromDefault == <<Node("increase", 1, <<To(0, 2)>>), Node("increase", 1, <<>>)>>
NoNumber == <<Node("set", Token, <<To(0, 2)>>), Node("increase", 1, <<>>)>>

MCPrograms == {Rounds, Facts, FromDefault, NoNumber}

(* A behaviour is one of the nodes, of a session, of the tracking or of the  *)
(* workers.                                                                  *)
QuietSession ==
    program = Rounds /\ facts.contact = 1 /\ facts.stage = {} /\ task["starter"].pc = "idle"

EitherInit ==
    /\ NodesInit
    /\ TrackingInit
    /\ WorkersInit
    /\ \/ SessionInit("none", NoVariables) /\ QuietSession
       \/ /\ node = Pair("exit_journey", "exit_journey")
          /\ \/ SessionInit("tracked", NoVariables) /\ QuietSession
             \/ SessionInit("workers", NoVariables) /\ QuietSession
             \/ /\ \/ SessionInit("start", NoVariables) /\ program # FromDefault
                   \/ SessionInit("start", Assign("count", 1)) /\ program = FromDefault
                /\ program # Facts => facts.contact = 1 /\ facts.stage = {}
                /\ program # Rounds => task["starter"].pc = "idle"
    /\ flow.pc # "workers" => production /\ start["campaign"] = "off"

EitherNext ==
    \/ flow.pc = "none" /\ NodesStep /\ UNCHANGED <<sessionVars, trackingVars, workerVars>>
    \/ flow.pc = "tracked" /\ TrackingStep /\ UNCHANGED <<nodeVars, sessionVars, workerVars>>
    \/ flow.pc = "workers" /\ WorkersStep /\ UNCHANGED <<nodeVars, sessionVars, trackingVars>>
    \/ /\ flow.pc \notin {"none", "tracked", "workers"}
       /\ SessionStep
       /\ UNCHANGED <<nodeVars, trackingVars, workerVars>>

EitherSpec ==
    EitherInit /\ [][EitherNext]_<<nodeVars, sessionVars, trackingVars, workerVars>> /\ Fairness
===============================================================================

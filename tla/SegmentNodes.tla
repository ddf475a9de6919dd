------------------------------ MODULE SegmentNodes ------------------------------
(***************************************************************************)
(* What the nodes of a segment definition ask of the stored events, as     *)
(* SegmentClickHouseQueryBuilderService turns them into queries and        *)
(* SegmentAssignmentService joins them: the computation of a segment scans *)
(* events (SegmentComputation), these operators say what it makes of them. *)
(*                                                                         *)
(* A definition is a record [join, nodes]; a node is its kind:             *)
(*   "performed"  Performed, LastPerformed, Email, message nodes, user     *)
(*                properties: an event of its kind is there                *)
(*   "recent"     Performed with a time window                             *)
(*   "counted"    Performed with times                                     *)
(*   "has"        a label or a custom attribute, as the last event says    *)
(*   "has_not"    the negated conditions, over every contact with an event *)
(*   "everyone"   every contact with an event                              *)
(*   "bucket"     RandomBucket, Web and SMS: no assignment knows them      *)
(* A log is a sequence of events [contact, kind] in the order of both      *)
(* occurred_at and processing_time.                                        *)
(***************************************************************************)
EXTENDS Naturals, Sequences, FiniteSets

EventKinds == {"did", "on", "off", "deleted"}
NodeKinds == {"performed", "recent", "counted", "has", "has_not", "everyone", "bucket"}

(* segmentHasTimeWindows.                                                    *)
HasTimeWindows(def) == \E i \in DOMAIN def.nodes : def.nodes[i] = "recent"

(* The condition of the node's query.                                        *)
Matches(node, kind) ==
    CASE node \in {"performed", "recent", "counted"} -> kind = "did"
      [] node = "has" -> kind \in {"on", "off"}
      [] OTHER -> TRUE

(* The contacts that the store knows as deleted, and those whose last event  *)
(* about the label or attribute set it: subqueries over the whole table,     *)
(* here the positions of the log in P.                                       *)
DeletedIn(log, P) == {log[i].contact : i \in {j \in P : log[j].kind = "deleted"}}
SetIn(log, P) ==
    {log[i].contact : i \in {j \in P :
        /\ log[j].kind = "on"
        /\ \A k \in P : log[k].contact = log[j].contact /\ log[k].kind = "off" => k < j}}

(* The value of a matching event, TRUE when it is not ''.  The count of a    *)
(* node with times becomes 'true' or 'false', and neither is ''.             *)
Value(node, e, deleted, set) ==
    /\ node \notin {"counted", "bucket"} => e.contact \notin deleted
    /\ node = "has" => e.kind = "on"
    /\ node = "has_not" => e.contact \notin set

(* The rows a query inserts: for every contact the latest matching event     *)
(* among the positions in P (argMaxState by occurred_at).                    *)
NoRow == [at |-> 0, value |-> FALSE]
Row(node, log, P, contact, deleted, set) ==
    LET found == {i \in P : log[i].contact = contact /\ Matches(node, log[i].kind)} IN
    IF found = {} THEN NoRow
    ELSE LET last == CHOOSE i \in found : \A j \in found : j <= i
         IN  [at |-> last, value |-> Value(node, log[last], deleted, set)]

(* resolvedSegmentToAssignment: what the rows of one contact, one per node,  *)
(* assign it.  A contact is assigned something once any node has a row.      *)
IsAssigned(def, rows) == \E i \in DOMAIN def.nodes : def.nodes[i] /= "bucket" /\ rows[i].at > 0
Assignment(def, rows) ==
    LET Holds(i) == def.nodes[i] /= "bucket" /\ rows[i].at > 0 /\ rows[i].value IN
    IF def.join = "and" THEN \A i \in DOMAIN def.nodes : Holds(i)
                        ELSE \E i \in DOMAIN def.nodes : Holds(i)

-------------------------------------------------------------------------------
(* What a definition says of a contact when every event in P is read at      *)
(* once, left[i] being how far the time window of node i has moved on.       *)
Meaning(def, log, P, left, contact) ==
    LET rows == [i \in DOMAIN def.nodes |->
                    Row(def.nodes[i], log, IF def.nodes[i] = "recent" THEN P \ 1 .. left[i] ELSE P,
                        contact, DeletedIn(log, P), SetIn(log, P))]
    IN  Assignment(def, rows)
===============================================================================

-------------------------- MODULE MCSegmentComputation --------------------------
(* Instances of SegmentComputation for TLC: two contacts, the second known   *)
(* by its deletion only; two definitions, one of them with a time window.    *)
EXTENDS SegmentComputation, TLC

CONSTANTS c1, c2

MCContacts == {c1, c2}
MCDefinitions == {[join |-> "and", nodes |-> <<"has_not", "everyone">>],
                  [join |-> "or", nodes |-> <<"recent", "has">>]}
MCEvents == [contact : {c1}, kind : EventKinds] \cup [contact : {c2}, kind : {"deleted"}]

(* An edit or a mishap, not both.                                            *)
MCFairSpec ==
    /\ SegmentInit
    /\ [][SegmentNext /\ edits' + mishaps' <= 1]_segmentVars
    /\ WF_segmentVars(Begin \/ Proceed)
===============================================================================

---------------------------- MODULE MCEntityCache -----------------------------
(***************************************************************************)
(* The users of the entity cache, and the custom domains beside them, for  *)
(* TLC.  A behaviour follows one of the four: a short link with its two    *)
(* layers of cache, a segment with Redis only, a domain and its link, the  *)
(* click count of a link, or the journeys and one event that may start     *)
(* them: either requests and mishaps around one purchase, or any trigger   *)
(* and any event with none.                                                *)
(***************************************************************************)
EXTENDS SegmentsApi, CustomDomains, ClickCounts, JourneyTriggers

NoFilter == [k \in {} |-> ""]

Text(n) == [sort |-> "text", val |-> n]

Number(n) == [sort |-> "number", val |-> n]

Trigger(type, filters, action) ==
    [type |-> type, filters |-> filters, action |-> action, op |-> "any", operand |-> NoValue]

Testing(type, filters, op, operand) ==
    [type |-> type, filters |-> filters, action |-> "", op |-> op, operand |-> operand]

Bought == [eventName |-> "bought"]

OnPurchase == Trigger("event", Bought, "")

MCTriggers ==
    {OnPurchase}
    \cup {Testing("event", Bought, op, w) :
            op \in {"Equals", "NotContains", "GreaterThan", "Exists"}, w \in {Text(1), Number(1)}}
    \cup {Trigger("segment", [segmentId |-> "s"], a) : a \in {"", "entered", "exited"}}
    \cup {Trigger("label", [labelId |-> "vip"], a) : a \in {"", "removed"}}
    \cup {Trigger("label", [labelId |-> "l3", labelName |-> "new"], ""), Trigger("event", NoFilter, "")}
    \cup {Testing(type, NoFilter, op, Text(1)) :
            type \in {"contactcreated", "contactupdated"}, op \in {"equals", "not_equals", "exists"}}
    \cup {Trigger("customattribute", f, "") :
            f \in {[attributeName |-> "plan"], [attributeName |-> "plan", attributeValue |-> "pro"]}}
    \cup {Trigger("pipelinestagechanged", f, "") :
            f \in {NoFilter, [to_stage_id |-> "won"]}}
    \cup {Trigger("webhook", NoFilter, ""), Trigger("manual", NoFilter, "")}

Occurs(name, payload, value) ==
    [contact |-> TRUE, name |-> name, payload |-> payload, value |-> value]

Purchase == Occurs("bought", NoFilter, Number(2))

Anonymous == [Purchase EXCEPT !.contact = FALSE]

Any == CHOOSE j \in JourneyIds : TRUE

MCTriggerEvents ==
    {Purchase, Anonymous, [Purchase EXCEPT !.name = ""]}
    \cup {Occurs(name, NoFilter, v) :
            name \in {"bought", "contact.created", "contact_updated", "webhook.journey_trigger"},
            v \in {NoValue, Text(0), Text(1), Text(2)}}
    \cup {Occurs(name, [segmentId |-> s], NoValue) :
            name \in {"segment_entered", "segment_exited"}, s \in {"s", "other"}}
    \cup {Occurs(name, f, NoValue) :
            name \in {"contact.label.added", "label_removed"},
            f \in {[labelId |-> "vip"], [labelId |-> "l1", labelName |-> "vip"],
                   [labelId |-> "l2", labelName |-> "new"]}}
    \cup {Occurs("custom_attribute_changed", [attributeName |-> "plan", attributeValue |-> v], NoValue) :
            v \in {"pro", "free"}}
    \cup {Occurs("pipeline.stage_changed", [to_stage_id |-> s], NoValue) : s \in {"won", "lost"}}

Init ==
    /\ kind \in {"link", "segment", "domain", "clicks", "journeys"}
    /\ CacheInit
    /\ DomainInit
    /\ CountInit
    /\ TriggersInit
    /\ IF kind = "journeys" /\ wired[Any] = OnPurchase
       THEN edits = 0 /\ mishaps = 0
       ELSE edits = MaxEdits /\ mishaps = MaxMishaps /\ \A j \in JourneyIds : cached[j] = "none"
    /\ kind # "journeys" => wired[Any] = OnPurchase /\ \A j \in JourneyIds : journeys[j] = "none"

\* Slots and processes are alike: a request takes the first free slot, and the
\* first request of all the first process.
Free == CHOOSE r \in Requests : job[r] = Idle

Processes == IF started = 0 THEN {CHOOSE i \in Instances : TRUE} ELSE Instances

CacheNext ==
    \/ /\ \E r \in Requests : job[r] = Idle
       /\ \E i \in Processes : Comes(Free, i)
    \/ \E r \in Requests : Lookup(r) \/ LinkStep(r) \/ SegmentStep(r) \/ AnnounceNew(r)
    \/ Expiry

Next ==
    \/ CacheNext /\ UNCHANGED <<domainVars, countVars, triggerVars>>
    \/ /\ kind = "domain"
       /\ \E c \in Callers : DomainStep(c)
       /\ UNCHANGED <<cacheVars, countVars, triggerVars>>
    \/ kind = "clicks" /\ CountStep /\ UNCHANGED <<cacheVars, domainVars, triggerVars>>
    \/ /\ kind = "journeys"
       /\ TriggerStep
       /\ wired[Any] = OnPurchase => dispatch'.event \in {NoEvent, Purchase, Anonymous}
       /\ UNCHANGED <<cacheVars, domainVars, countVars>>

vars == <<cacheVars, domainVars, countVars, triggerVars>>

Spec == Init /\ [][Next]_vars

\* Requests run to their end.
FairSpec ==
    /\ Spec
    /\ \A r \in Requests :
        WF_vars((Lookup(r) \/ LinkStep(r) \/ SegmentStep(r) \/ AnnounceNew(r))
                /\ UNCHANGED <<domainVars, countVars, triggerVars>>)
===============================================================================

--------------------------- MODULE JourneyTriggers ----------------------------
(***************************************************************************)
(* Which journeys an event starts: the journeys API (JourneysService over  *)
(* JourneyCacheService), the list of active journeys the trigger processor *)
(* reads, and the handlers of services/triggers that decide whether an     *)
(* event matches.  What starting a journey then does is the subject of     *)
(* module Journeys.                                                        *)
(*                                                                         *)
(* Of a journey the row keeps whether it is active; its trigger is chosen  *)
(* at the start.  One event is followed; the editors are requests of the   *)
(* API, one action per await.  A key and its index entry that are written  *)
(* one after the other are written in one step, and either may fail.       *)
(*                                                                         *)
(* Ids and names are short strings.  The value a filter tests is a record  *)
(* [sort, val]: text is a prefix of one long word, val its length.         *)
(***************************************************************************)
EXTENDS Naturals, FiniteSets

CONSTANTS
    JourneyIds,     \* journeys
    Editors,        \* slots of API requests in progress
    Triggers,       \* the triggers a journey may have
    TriggerEvents,  \* the events that may arrive
    MaxEdits,       \* bound: API requests
    MaxMishaps      \* bound: failing calls and lost Redis data

VARIABLES
    journeys,       \* row of each journey: "none", "on" or "off"
    wired,          \* the trigger of each journey
    cached,         \* Redis entry of each journey: "none", "on" or "off"
    listed,         \* the ids in the Redis index
    edit,           \* what each request is doing
    edits,          \* requests so far
    mishaps,        \* mishaps so far
    dispatch,       \* the trigger processor at work
    excused         \* history: journeys whose cache entry cannot be trusted

triggerVars == <<journeys, wired, cached, listed, edit, edits, mishaps, dispatch, excused>>

-------------------------------------------------------------------------------
(* The handlers.                                                            *)

Undefined == "undefined"

\* The things that a trigger of each type can name, and those it has to name.
Filters(type) ==
    CASE type = "event" -> {"eventName"}
      [] type = "segment" -> {"segmentId"}
      [] type = "label" -> {"labelId", "labelName"}
      [] type = "customattribute" -> {"attributeName", "attributeValue"}
      [] type = "pipelinestagechanged" -> {"pipeline_id", "from_stage_id", "to_stage_id"}
      [] OTHER -> {}

Needed(type) == Filters(type) \cap {"eventName", "segmentId", "labelId", "attributeName"}

\* Only events and new or changed contacts are tested; actions are the editor's.
ASSUME TriggersAssumption ==
    \A t \in Triggers :
        /\ DOMAIN t.filters \subseteq Filters(t.type)
        /\ \A k \in DOMAIN t.filters : t.filters[k] # Undefined
        /\ t.type \notin {"event", "contactcreated", "contactupdated"} => t.op = "any"
        /\ t.type = "segment" => t.action \in {"", "entered", "exited"}
        /\ t.type = "label" => t.action \in {"", "applied", "removed"}

ASSUME PayloadsAssumption ==
    \A e \in TriggerEvents : \A k \in DOMAIN e.payload : e.payload[k] # Undefined

Field(f, k) == IF k \in DOMAIN f THEN f[k] ELSE Undefined

NoValue == [sort |-> "missing", val |-> 0]

Blank(v) == v.sort = "missing" \/ v = [sort |-> "text", val |-> 0]

\* "word".includes("wo"): only of texts.
Includes(v, w) == v.sort = "text" /\ w.sort = "text" /\ w.val <= v.val

\* Number(v): a text that is not empty is no number, nor is a missing value.
IsNumber(v) == v.sort = "number" \/ v = [sort |-> "text", val |-> 0]

Numbers(v, w) == IsNumber(v) /\ IsNumber(w)

\* One property an event trigger asks for.
PropertyMatches(v, op, w) ==
    CASE op = "Equals" -> v = w
      [] op = "NotEquals" -> v # w
      [] op = "Contains" -> Includes(v, w)
      [] op = "NotContains" -> v.sort = "text" /\ ~Includes(v, w)
      [] op = "GreaterThan" -> Numbers(v, w) /\ v.val > w.val
      [] op = "GreaterThanOrEqual" -> Numbers(v, w) /\ v.val >= w.val
      [] op = "LessThan" -> Numbers(v, w) /\ v.val < w.val
      [] op = "LessThanOrEqual" -> Numbers(v, w) /\ v.val <= w.val
      [] op = "Exists" -> ~Blank(v)
      [] op = "NotExists" -> Blank(v)
      [] OTHER -> FALSE

\* One field of the contact a trigger asks for.
ContactFieldMatches(v, op, w) ==
    CASE op = "equals" -> v = w
      [] op = "not_equals" -> v # w
      [] op = "contains" -> Includes(v, w)
      [] op = "not_contains" -> v.sort = "text" /\ ~Includes(v, w)
      [] op = "exists" -> ~Blank(v)
      [] op = "not_exists" -> Blank(v)
      [] OTHER -> FALSE

EventMatches(e, t) ==
    /\ Field(t.filters, "eventName") # Undefined
    /\ e.name = t.filters["eventName"]
    /\ t.op # "any" => PropertyMatches(e.value, t.op, t.operand)

WebhookMatches(e) == e.name = "webhook.journey_trigger"

ContactCreatedMatches(e, t) ==
    /\ e.name \in {"contact.created", "contact_created"}
    /\ t.op # "any" => ContactFieldMatches(e.value, t.op, t.operand)

ContactUpdatedMatches(e, t) ==
    /\ e.name \in {"contact.updated", "contact_updated"}
    /\ t.op # "any" => ContactFieldMatches(e.value, t.op, t.operand)

\* A trigger without an action is one for contacts that enter.
SegmentMatches(e, t) ==
    /\ e.name \in {"segment_entered", "segment_exited"}
    /\ Field(t.filters, "segmentId") # Undefined
    /\ Field(e.payload, "segmentId") = t.filters["segmentId"]
    /\ (t.action # "exited") = (e.name = "segment_entered")

\* The label counts by its id or by its name, and two missing names are equal.
LabelMatches(e, t) ==
    /\ e.name \in {"label_added", "contact.label.added",
                   "label_removed", "contact.label.removed"}
    /\ Field(t.filters, "labelId") # Undefined
    /\ Field(e.payload, "labelId") # Undefined
    /\ \/ t.filters["labelId"] \in {e.payload["labelId"], Field(e.payload, "labelName")}
       \/ Field(e.payload, "labelName") = Field(t.filters, "labelName")
    /\ (t.action # "removed") = (e.name \in {"label_added", "contact.label.added"})

CustomAttributeMatches(e, t) ==
    /\ e.name \in {"contact.custom_attribute.changed", "custom_attribute_changed"}
    /\ Field(t.filters, "attributeName") # Undefined
    /\ Field(e.payload, "attributeName") = t.filters["attributeName"]
    /\ Field(t.filters, "attributeValue") \in {Undefined, Field(e.payload, "attributeValue")}

\* Every filter is optional.
PipelineMatches(e, t) ==
    /\ e.name = "pipeline.stage_changed"
    /\ \A k \in {"pipeline_id", "from_stage_id", "to_stage_id"} :
        Field(t.filters, k) \in {Undefined, Field(e.payload, k)}

\* The handler of the trigger's type; a type without one matches nothing.
Matches(e, t) ==
    CASE t.type = "event" -> EventMatches(e, t)
      [] t.type = "webhook" -> WebhookMatches(e)
      [] t.type = "contactcreated" -> ContactCreatedMatches(e, t)
      [] t.type = "contactupdated" -> ContactUpdatedMatches(e, t)
      [] t.type = "segment" -> SegmentMatches(e, t)
      [] t.type = "label" -> LabelMatches(e, t)
      [] t.type = "customattribute" -> CustomAttributeMatches(e, t)
      [] t.type = "pipelinestagechanged" -> PipelineMatches(e, t)
      [] OTHER -> FALSE

\* An event without a contact or without a name starts nothing.
IsDispatchable(e) == e.contact /\ e.name # ""

-------------------------------------------------------------------------------
(* The cache of the journeys.                                               *)

Vacant == [op |-> "none", ids |-> {}, pc |-> "free", copies |-> [j \in {} |-> "none"]]

Mishap == mishaps < MaxMishaps /\ mishaps' = mishaps + 1

Active(copies) == {j \in DOMAIN copies : copies[j] = "on"}

Rows(ids) == [j \in ids |-> journeys[j]]

Stored == {j \in JourneyIds : journeys[j] # "none"}

\* Journeys that are left out when another one is the first of an empty index.
LeftOut(ids) == IF listed # {} THEN {} ELSE Stored \ ids

Overwritten(copies) ==
    [j \in JourneyIds |-> IF j \in DOMAIN copies THEN copies[j] ELSE cached[j]]

\* set() of each copy: the key, then the index; neither failure is reported.
SetEach(copies) ==
    \/ /\ cached' = Overwritten(copies)
       /\ listed' = listed \cup DOMAIN copies
       /\ excused' = excused \cup LeftOut(DOMAIN copies)
       /\ UNCHANGED mishaps
    \/ /\ Mishap
       /\ excused' = excused \cup DOMAIN copies \cup LeftOut(DOMAIN copies)
       /\ \/ UNCHANGED cached /\ listed' = listed \cup DOMAIN copies
          \/ cached' = Overwritten(copies) /\ UNCHANGED listed

\* getAll() answers from Redis only when every listed entry is there: the
\* look-up of the missing ones fails, and a failure counts as an empty list.
AllCached == listed # {} /\ \A j \in listed : cached[j] # "none"

\* Redis loses one journey's entry, or the index.
RedisLoses ==
    /\ Mishap
    /\ \/ \E j \in JourneyIds :
            /\ cached[j] # "none"
            /\ cached' = [cached EXCEPT ![j] = "none"]
            /\ UNCHANGED listed
       \/ /\ listed # {}
          /\ listed' = {}
          /\ UNCHANGED cached
    /\ UNCHANGED <<journeys, wired, edit, edits, dispatch, excused>>

-------------------------------------------------------------------------------
(* The requests of the API.                                                 *)

\* Journeys that a request or the trigger processor holds a copy of.
Held == (UNION {edit[r].ids : r \in Editors}) \cup
        (IF dispatch.pc \in {"warm", "refill"} THEN DOMAIN dispatch.list ELSE {})

\* The first free slot is taken: they are alike.
EditBegins(r, op, ids, pc, copies) ==
    /\ edit[r].pc = "free"
    /\ r = CHOOSE q \in Editors : edit[q].pc = "free"
    /\ edits < MaxEdits
    /\ edits' = edits + 1
    /\ edit' = [edit EXCEPT ![r] = [op |-> op, ids |-> ids, pc |-> pc, copies |-> copies]]
    /\ excused' = excused \cup (ids \cap Held)
    /\ dispatch' = [dispatch EXCEPT
            !.moved = IF dispatch.pc \in {"refill", "match"} THEN @ \cup ids ELSE @]
    /\ UNCHANGED <<journeys, wired, cached, listed, mishaps>>

CreateJourney(r) ==
    \E j \in JourneyIds \ Stored, onOff \in {"on", "off"} :
        /\ j \notin Held
        /\ EditBegins(r, "create", {j}, "save", [k \in {j} |-> onOff])

\* update and updateJourneyVariables are alike here.
EditJourney(r) ==
    \E j \in JourneyIds, op \in {"open", "update", "toggle", "remove", "duplicate", "fire"} :
        EditBegins(r, op, {j}, "look", Vacant.copies)

ListJourneys(r) == EditBegins(r, "list", JourneyIds, "look", Vacant.copies)

EditEnds(r) == edit' = [edit EXCEPT ![r] = Vacant]

\* Where an operation goes on once it has its journey; the manual trigger asks
\* for an active one.
GoesOn(r, copies) ==
    CASE edit[r].op \in {"update", "toggle", "remove", "duplicate"} ->
            edit' = [edit EXCEPT ![r].pc = "save", ![r].copies = copies]
      [] edit[r].op = "fire" /\ Active(copies) # {} ->
            edit' = [edit EXCEPT ![r].pc = "start", ![r].copies = copies]
      [] OTHER -> EditEnds(r)

\* findOne: Redis, else the row, which is cached; findAll: the same of all.
LookUp(r) ==
    /\ edit[r].pc = "look"
    /\ LET ids == edit[r].ids
           hit == IF edit[r].op = "list" THEN AllCached
                  ELSE \A j \in ids : cached[j] # "none"
       IN  IF hit THEN GoesOn(r, [j \in ids |-> cached[j]])
           ELSE IF ids \cap Stored = {} THEN EditEnds(r)
           ELSE edit' = [edit EXCEPT ![r].pc = "fill", ![r].copies = Rows(ids \cap Stored)]
    /\ UNCHANGED <<journeys, wired, cached, listed, edits, mishaps, dispatch, excused>>

Fill(r) ==
    /\ edit[r].pc = "fill"
    /\ SetEach(edit[r].copies)
    /\ GoesOn(r, edit[r].copies)
    /\ UNCHANGED <<journeys, wired, edits, dispatch>>

Toggled(onOff) == IF onOff = "on" THEN "off" ELSE "on"

\* save() writes the whole copy, and inserts a row that was removed meanwhile;
\* a duplicate is a new row that nothing caches.
SaveJourney(r) ==
    /\ edit[r].pc = "save"
    /\ LET j == CHOOSE k \in edit[r].ids : TRUE
           copy == edit[r].copies[j]
           saved == IF edit[r].op = "toggle" THEN Toggled(copy) ELSE copy
       IN  \/ /\ edit[r].op \in {"create", "update", "toggle"}
              /\ journeys' = [journeys EXCEPT ![j] = saved]
              /\ edit' = [edit EXCEPT ![r].pc = "cache", ![r].copies[j] = saved]
           \/ /\ edit[r].op = "remove"
              /\ journeys' = [journeys EXCEPT ![j] = "none"]
              /\ edit' = [edit EXCEPT ![r].pc = "invalidate"]
           \/ /\ edit[r].op = "duplicate"
              /\ \E k \in JourneyIds \ (Stored \cup Held) :
                    journeys' = [journeys EXCEPT ![k] = "off"]
              /\ EditEnds(r)
    /\ UNCHANGED <<wired, cached, listed, edits, mishaps, dispatch, excused>>

\* No id is left for a duplicate: it is out of this model.
NoId(r) ==
    /\ edit[r].pc = "save" /\ edit[r].op = "duplicate"
    /\ JourneyIds = Stored \cup Held
    /\ EditEnds(r)
    /\ UNCHANGED <<journeys, wired, cached, listed, edits, mishaps, dispatch, excused>>

CacheJourney(r) ==
    /\ edit[r].pc = "cache"
    /\ SetEach(edit[r].copies)
    /\ EditEnds(r)
    /\ UNCHANGED <<journeys, wired, edits, dispatch>>

\* invalidate() reports its failure, when the row is gone already.
InvalidateJourney(r) ==
    /\ edit[r].pc = "invalidate"
    /\ \/ /\ cached' = [j \in JourneyIds |->
                            IF j \in edit[r].ids THEN "none" ELSE cached[j]]
          /\ listed' = listed \ edit[r].ids
          /\ UNCHANGED <<mishaps, excused>>
       \/ /\ Mishap
          /\ excused' = excused \cup edit[r].ids
          /\ UNCHANGED <<cached, listed>>
    /\ EditEnds(r)
    /\ UNCHANGED <<journeys, wired, edits, dispatch>>

\* The manual trigger starts the journey for the contact it names.
StartNamed(r) ==
    /\ edit[r].pc = "start"
    /\ EditEnds(r)
    /\ UNCHANGED <<journeys, wired, cached, listed, edits, mishaps, dispatch, excused>>

EditStep(r) ==
    \/ CreateJourney(r) \/ EditJourney(r) \/ ListJourneys(r)
    \/ LookUp(r) \/ Fill(r) \/ SaveJourney(r) \/ NoId(r) \/ CacheJourney(r)
    \/ InvalidateJourney(r) \/ StartNamed(r)

-------------------------------------------------------------------------------
(* The trigger processor.                                                   *)

NoEvent == [contact |-> FALSE, name |-> "", payload |-> [k \in {} |-> ""], value |-> NoValue]

Booting == [pc |-> "boot", event |-> NoEvent, list |-> Vacant.copies,
            started |-> {}, moved |-> {}, failed |-> FALSE]

\* Rows that were read while somebody works on them may be old when cached.
ReadsRows(ids, pc) ==
    /\ dispatch' = [dispatch EXCEPT !.pc = pc, !.list = Rows(ids)]
    /\ excused' = excused \cup (ids \cap Held)

\* Mutant: nothing is warmed, and only an empty cache is filled.
WarmNothing ==
    /\ dispatch.pc = "boot"
    /\ dispatch' = [dispatch EXCEPT !.pc = "idle"]
    /\ UNCHANGED <<journeys, wired, cached, listed, edit, edits, mishaps, excused>>

\* warmActiveJourneysCache, before the consumer runs.
Warm ==
    /\ dispatch.pc = "boot"
    /\ ReadsRows(Active(journeys), "warm")
    /\ UNCHANGED <<journeys, wired, cached, listed, edit, edits, mishaps>>

Warmed ==
    /\ dispatch.pc = "warm"
    /\ SetEach(dispatch.list)
    /\ dispatch' = [dispatch EXCEPT !.pc = "idle"]
    /\ UNCHANGED <<journeys, wired, edit, edits>>

EventArrives(e) ==
    /\ dispatch.pc = "idle"
    /\ dispatch' = [Booting EXCEPT !.pc = IF IsDispatchable(e) THEN "list" ELSE "done",
                                   !.event = e]
    /\ UNCHANGED <<journeys, wired, cached, listed, edit, edits, mishaps, excused>>

\* findActive: what Redis lists, when some of it is active; else the rows.
FindActive ==
    /\ dispatch.pc = "list"
    /\ LET inRedis == [j \in {k \in listed : cached[k] = "on"} |-> "on"]
           busy == UNION {edit[r].ids : r \in Editors}
       IN  IF AllCached /\ inRedis # Vacant.copies
           THEN /\ dispatch' = [dispatch EXCEPT !.pc = "match", !.list = inRedis, !.moved = busy]
                /\ UNCHANGED excused
           ELSE /\ dispatch' = [dispatch EXCEPT
                        !.pc = "refill", !.moved = busy,
                        !.list = Rows(IF listed = {} THEN Stored ELSE Active(journeys))]
                /\ excused' = excused \cup busy
    /\ UNCHANGED <<journeys, wired, cached, listed, edit, edits, mishaps>>

Refill ==
    /\ dispatch.pc = "refill"
    /\ IF dispatch.list = Vacant.copies
       THEN UNCHANGED <<cached, listed, mishaps, excused>>
       ELSE SetEach(dispatch.list)
    /\ dispatch' = [dispatch EXCEPT
            !.pc = "match", !.list = [j \in Active(dispatch.list) |-> "on"]]
    /\ UNCHANGED <<journeys, wired, edit, edits>>

\* One journey of the list, in an order nobody promises.  An error in starting
\* one ends the analysis, and the message counts as handled.
MatchNext(j) ==
    /\ dispatch.pc = "match"
    /\ j \in DOMAIN dispatch.list
    /\ LET rest == [k \in DOMAIN dispatch.list \ {j} |-> dispatch.list[k]]
       IN  \/ /\ dispatch' = [dispatch EXCEPT !.list = rest,
                        !.started = IF Matches(dispatch.event, wired[j]) THEN @ \cup {j} ELSE @]
              /\ UNCHANGED mishaps
           \/ /\ Matches(dispatch.event, wired[j])
              /\ Mishap
              /\ dispatch' = [dispatch EXCEPT !.pc = "done", !.failed = TRUE]
    /\ UNCHANGED <<journeys, wired, cached, listed, edit, edits, excused>>

Analysed ==
    /\ dispatch.pc = "match"
    /\ dispatch.list = Vacant.copies
    /\ dispatch' = [dispatch EXCEPT !.pc = "done"]
    /\ UNCHANGED <<journeys, wired, cached, listed, edit, edits, mishaps, excused>>

DispatchStep ==
    \/ Warm \/ Warmed \/ FindActive \/ Refill \/ Analysed
    \/ \E e \in TriggerEvents : EventArrives(e)
    \/ \E j \in JourneyIds : MatchNext(j)

\* The worker boots over whatever Redis has kept of the current rows.
TriggersInit ==
    /\ journeys \in [JourneyIds -> {"none", "on", "off"}]
    /\ \E t \in Triggers : wired = [j \in JourneyIds |-> t]
    /\ cached \in {c \in [JourneyIds -> {"none", "on", "off"}] :
                    \A j \in JourneyIds : c[j] \in {"none", journeys[j]}}
    /\ listed \in SUBSET {j \in JourneyIds : cached[j] # "none"}
    /\ edit = [r \in Editors |-> Vacant]
    /\ edits \in {0, MaxEdits}
    /\ mishaps \in {0, MaxMishaps}
    /\ dispatch = Booting
    /\ excused = {}

\* A behaviour is followed until the event was analysed.
TriggerStep ==
    /\ dispatch.pc # "done"
    /\ DispatchStep \/ RedisLoses \/ \E r \in Editors : EditStep(r)

TriggersSpec == TriggersInit /\ [][TriggerStep]_triggerVars

-------------------------------------------------------------------------------
\* What each kind of event says: the trigger it belongs to, and its action.
Says(name) ==
    CASE name \in {"contact.created", "contact_created"} -> <<"contactcreated", "">>
      [] name \in {"contact.updated", "contact_updated"} -> <<"contactupdated", "">>
      [] name = "segment_entered" -> <<"segment", "entered">>
      [] name = "segment_exited" -> <<"segment", "exited">>
      [] name \in {"label_added", "contact.label.added"} -> <<"label", "applied">>
      [] name \in {"label_removed", "contact.label.removed"} -> <<"label", "removed">>
      [] name = "pipeline.stage_changed" -> <<"pipelinestagechanged", "">>
      [] name \in {"contact.custom_attribute.changed", "custom_attribute_changed"} ->
            <<"customattribute", "">>
      [] name = "webhook.journey_trigger" -> <<"webhook", "">>
      [] OTHER -> <<"event", "">>

\* What a trigger is meant for: its kind of event, the action that was chosen
\* (to begin with, entering a segment and getting a label), the things it
\* names (a label by its id, or by a name it was saved with or as), and the
\* test of a value.  One that names too little is meant for nothing.
Wants(e, t) ==
    /\ t.type \in {Says(e.name)[1], "event"}
    /\ t.type \in {"segment", "label"} =>
        Says(e.name)[2] = IF t.action # "" THEN t.action
                          ELSE IF t.type = "label" THEN "applied" ELSE "entered"
    /\ Needed(t.type) \subseteq DOMAIN t.filters
    /\ \A k \in DOMAIN t.filters \ {"labelName"} :
        \/ k = "eventName" /\ e.name = t.filters[k]
        \/ k # "eventName" /\ Field(e.payload, k) = t.filters[k]
        \/ k = "labelId" /\ Field(e.payload, "labelName") \in
                                {t.filters[k], Field(t.filters, "labelName")}
    /\ \/ t.op = "any"
       \/ t.type = "event" /\ PropertyMatches(e.value, t.op, t.operand)
       \/ t.type # "event" /\ ContactFieldMatches(e.value, t.op, t.operand)

\* Known not to be told apart: a label event without the id, which matches
\* nothing, or without the name of its label, which equals any missing name.
Unnamed(e) ==
    Says(e.name)[1] = "label" /\ ~({"labelId", "labelName"} \subseteq DOMAIN e.payload)

(* Once an event was analysed, the journeys it has started are the active   *)
(* ones meant for it: none was missed for want of a cache entry, none that  *)
(* was switched off or removed was started.  Left out are an analysis that  *)
(* failed, journeys worked on meanwhile, and those whose cache entry was    *)
(* lost, overtaken or never listed for a known reason.                      *)
EveryActiveJourneyStarts ==
    dispatch.pc = "done" /\ ~dispatch.failed /\ ~Unnamed(dispatch.event) =>
        \A j \in JourneyIds \ (excused \cup dispatch.moved) :
            j \in dispatch.started <=>
                /\ journeys[j] = "on"
                /\ IsDispatchable(dispatch.event)
                /\ Wants(dispatch.event, wired[j])
=============================================================================

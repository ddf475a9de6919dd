--------------------------- MODULE SegmentComputation ---------------------------
(***************************************************************************)
(* The computation of one segment (modules/segments/services).  It reads   *)
(* the segment's row, scans the events stored since the row's              *)
(* lastComputedAt into state rows, one query per node, turns those into    *)
(* assignments, announces who entered and who left, saves what it has      *)
(* announced, and writes lastComputedAt.                                   *)
(*                                                                         *)
(* The cron jobs and the API begin computations, here one at a time        *)
(* although nothing in the code sees to that.  Time is counted in events:  *)
(* the clock is the number of events stored so far.                        *)
(*                                                                         *)
(* Left out: events that reach the store later than the time they are      *)
(* stamped with, which a scan in between misses as it does those stored    *)
(* while a computation runs (Ingest); the condition computed_at <= now on  *)
(* state rows, which only overlapping computations can fail;               *)
(* contactsCount; and definitions nested in each other, whose And and Or   *)
(* are joined without parentheses.                                         *)
(***************************************************************************)
EXTENDS SegmentNodes, Integers

CONSTANTS
    Contacts,
    SegmentEvents, \* events [contact, kind] that may be stored
    Definitions,   \* definitions the segment may be given
    MaxEvents, MaxEdits,
    MaxMishaps     \* failed calls and crashes

ASSUME EventsAssumption == SegmentEvents \subseteq [contact : Contacts, kind : EventKinds]
ASSUME DefinitionsAssumption ==
    /\ \A d \in Definitions : d.nodes \in Seq(NodeKinds) /\ d.nodes /= << >>
                              /\ d.join \in {"and", "or"}
    /\ \E d \in Definitions : \A e \in Definitions : Len(e.nodes) <= Len(d.nodes)
ASSUME BoundsAssumption == MaxEvents \in Nat /\ MaxEdits \in Nat /\ MaxMishaps \in Nat

Never == -1
MaxNodes == CHOOSE n \in {Len(d.nodes) : d \in Definitions} :
                \A d \in Definitions : Len(d.nodes) <= n
Memberships == {"none", "in", "out"}

VARIABLES
    log,           \* the events stored
    definition, edited, last,  \* the segment's row: definition,
                   \* definitionUpdatedAt > lastComputedAt, lastComputedAt
    state,         \* computed_property_state_v2, by node and contact
    assigned,      \* computed_property_assignments_v2
    resolved,      \* resolved_segment_state
    cached,        \* the deleted contacts the process has cached; none: no cache
    work,          \* the computation that runs
    upto, window, by,  \* the scan behind the assignments: until when, what the
                   \* window of each node had left behind, for which definition
    told,          \* what listeners know of each contact
    repeated,      \* a contact was announced to enter or leave twice in a row
    excuses,       \* what has happened that makes assignments inexact
    edits, mishaps

segmentVars ==
    <<log, definition, edited, last, state, assigned, resolved, cached, work,
      upto, window, by, told, repeated, excuses, edits, mishaps>>
row == <<definition, edited, last>>
scan == <<upto, window, by>>
listeners == <<told, repeated>>
budgets == <<edits, mishaps>>

NoStates == [i \in 1 .. MaxNodes |-> [c \in Contacts |-> NoRow]]
Nobody == [c \in Contacts |-> "none"]

Idle == [pc |-> "idle", path |-> "single", def |-> CHOOSE d \in Definitions : TRUE,
         last |-> Never, now |-> Never, before |-> Nobody, node |-> 0]

Mishap == mishaps < MaxMishaps /\ mishaps' = mishaps + 1
Excuse(e, when) == excuses' = IF when THEN excuses \cup {e} ELSE excuses

SegmentInit ==
    /\ log = << >>
    /\ definition \in Definitions /\ edited = FALSE /\ last = Never
    /\ state = NoStates /\ assigned = Nobody /\ resolved = Nobody
    /\ cached = {}
    /\ work = Idle
    /\ upto = Never /\ window = [i \in 1 .. MaxNodes |-> 0] /\ by = definition
    /\ told = Nobody /\ repeated = FALSE
    /\ excuses = {}
    /\ edits = 0 /\ mishaps = 0

-------------------------------------------------------------------------------
(* Events and time.                                                          *)

(* Mutant: the signal of a deletion is not heeded.                           *)
UnheededSignal(here) == UNCHANGED cached

(* onContactDeletedIngested: the process that ingests a deletion drops its   *)
(* cache.  (It also does without one for a while, for deletions that reach   *)
(* the store late.)                                                          *)
Signal(here) == IF here THEN cached' = {} ELSE UNCHANGED cached

(* An event is stored.  One stored while a computation runs is before that   *)
(* one's lastComputedAt and after its scan.  A deletion ingested by another  *)
(* process than the one that computes is not signalled to it.                *)
Ingest ==
    /\ Len(log) < MaxEvents
    /\ \E e \in SegmentEvents, here \in BOOLEAN :
        /\ e.kind /= "deleted" => here
        /\ log' = Append(log, e)
        /\ IF e.kind = "deleted" THEN Signal(here) ELSE UNCHANGED cached
        /\ excuses' = excuses \cup (IF here \/ cached = {} THEN {} ELSE {"elsewhere"})
                              \cup (IF work.now /= Never THEN {"forgotten"} ELSE {})
    /\ UNCHANGED <<row, state, assigned, resolved, work, scan, listeners, budgets>>

(* The cache lasts for a time.                                               *)
CacheExpires ==
    /\ cached /= {}
    /\ cached' = {}
    /\ UNCHANGED <<log, row, state, assigned, resolved, work, scan, listeners, excuses,
                   budgets>>

(* SegmentsService.update sets definitionUpdatedAt; its lastComputedAt is    *)
(* undefined, which leaves the column as it is.                              *)
Edit ==
    /\ edits < MaxEdits
    /\ edits' = edits + 1
    /\ \E d \in Definitions \ {definition} : definition' = d
    /\ edited' = (last /= Never)
    /\ UNCHANGED <<log, last, state, assigned, resolved, cached, work, scan,
                   listeners, excuses, mishaps>>

-------------------------------------------------------------------------------
(* A computation.                                                            *)

At(phase) == work.pc = phase
Goes(changed) == work' = changed
GoesTo(phase) == Goes([work EXCEPT !.pc = phase])
Windowed == HasTimeWindows(work.def)

(* Mutant: only segments never computed, or edited, count as stale.          *)
BeginUnlessComputed ==
    /\ At("idle") /\ (last = Never \/ edited)
    /\ \E path \in {"single", "batch"} :
        LET windowed == HasTimeWindows(definition) IN
        /\ Goes([Idle EXCEPT !.pc = IF path = "single" /\ ~windowed THEN "clean" ELSE "prepare",
                             !.path = path, !.def = definition, !.last = last])
        /\ Excuse("forgotten",
                  ~windowed /\ (edited \/ (path = "batch" /\ edits > 0
                                           /\ (state /= NoStates \/ assigned /= Nobody))))
    /\ UNCHANGED <<log, row, state, assigned, resolved, cached, scan, listeners, budgets>>

(* computeSegment, of one segment, cleans up after an edit and before the    *)
(* first computation; computeAllSegments, of several, does not.  The row     *)
(* keeps its lastComputedAt through an edit, so that after the clean-up      *)
(* events from before it are not read again; and a batch after an edit goes  *)
(* on from what the definition before it, or half a clean-up, has left.      *)
Begin ==
    /\ At("idle")
    /\ \E path \in {"single", "batch"} :
        LET fresh == last = Never \/ edited
            windowed == HasTimeWindows(definition) IN
        /\ Goes([Idle EXCEPT !.pc = IF path = "single" /\ fresh /\ ~windowed
                                    THEN "clean" ELSE "prepare",
                             !.path = path, !.def = definition, !.last = last])
        /\ Excuse("forgotten",
                  ~windowed /\ (edited \/ (path = "batch" /\ edits > 0
                                           /\ (state /= NoStates \/ assigned /= Nobody))))
    /\ UNCHANGED <<log, row, state, assigned, resolved, cached, scan, listeners, budgets>>

(* cleanupOldSegmentData empties three tables with a command each; a process *)
(* that ends or fails in between leaves some of them (Partly).               *)
Clean ==
    /\ At("clean")
    /\ state' = NoStates /\ assigned' = Nobody /\ resolved' = Nobody /\ upto' = Never
    /\ GoesTo(IF Windowed THEN "scan" ELSE "prepare")
    /\ Excuse("unannounced", ~Windowed /\ resolved /= Nobody)
    /\ UNCHANGED <<log, row, cached, window, by, listeners, budgets>>

(* computeSegmentSingle takes the time and, when there are time windows,     *)
(* keeps what was announced before it cleans up.  A failed read keeps        *)
(* nothing.                                                                  *)
Prepare ==
    /\ At("prepare")
    /\ \E before \in {resolved, Nobody} :
        /\ IF before = resolved THEN UNCHANGED <<mishaps, excuses>>
           ELSE Windowed /\ Mishap /\ excuses' = excuses \cup {"unannounced"}
        /\ Goes([work EXCEPT !.now = Len(log), !.node = 1,
                             !.pc = IF Windowed THEN "clean" ELSE "scan",
                             !.before = IF Windowed THEN before ELSE Nobody])
    /\ UNCHANGED <<log, row, state, assigned, resolved, cached, scan, listeners, edits>>

(* Mutant: the first event after the last computation is not read.           *)
ScannedAfter(w) ==
    LET from == IF HasTimeWindows(w.def) \/ w.last = Never THEN 0 ELSE w.last + 1
    IN  {i \in DOMAIN log : from < i /\ i <= w.now}

(* executeStateComputation: the events of (lastComputedAt, now]; all until   *)
(* now at first, and always when there are time windows.                     *)
Scanned(w) ==
    LET from == IF HasTimeWindows(w.def) \/ w.last = Never THEN 0 ELSE w.last
    IN  {i \in DOMAIN log : from < i /\ i <= w.now}

(* getDeletedContacts: a cache that is not empty is used; one that is leaves *)
(* the query to read the store.  What is fetched is cached.                  *)
KnownDeleted == IF cached = {} THEN DeletedIn(log, DOMAIN log) ELSE cached

(* What a scan adds to the rows of a node (argMaxMerge): the later event     *)
(* wins, and between two readings of the same event either may.  The windows *)
(* have moved on since the last scan, by what the clock says.                *)
Scan ==
    LET w == work
        node == w.def.nodes[w.node]
        found == [c \in Contacts |->
                    Row(node, log, IF node = "recent" THEN Scanned(w) \ 1 .. window'[w.node]
                                                      ELSE Scanned(w),
                        c, KnownDeleted, SetIn(log, DOMAIN log))]
        old == state[w.node] IN
    /\ At("scan")
    /\ window' \in IF node = "recent"
                   THEN {[window EXCEPT ![w.node] = n] : n \in window[w.node] .. Len(log)}
                   ELSE {window}
    /\ \E kept \in SUBSET {c \in Contacts : found[c].at = old[c].at /\ found[c] /= old[c]} :
        state' = [state EXCEPT ![w.node] =
                    [c \in Contacts |-> IF c \in kept \/ found[c].at < old[c].at
                                        THEN old[c] ELSE found[c]]]
    /\ cached' = KnownDeleted
    /\ Goes([w EXCEPT !.node = @ + 1,
                      !.pc = IF w.node = Len(w.def.nodes) THEN "assign" ELSE "scan"])
    /\ UNCHANGED <<log, row, assigned, resolved, upto, by, listeners, excuses, budgets>>

(* computeAssignments: of the contacts with a state row of a node in use.    *)
Assign ==
    LET def == work.def
        rows(c) == [i \in DOMAIN def.nodes |-> state[i][c]] IN
    /\ At("assign")
    /\ assigned' = [c \in Contacts |->
                      IF ~IsAssigned(def, rows(c)) THEN assigned[c]
                      ELSE IF Assignment(def, rows(c)) THEN "in" ELSE "out"]
    /\ upto' = work.now /\ by' = def
    /\ GoesTo("announce")
    /\ UNCHANGED <<log, row, state, resolved, cached, window, listeners, excuses,
                   budgets>>

(* What listeners know once they are told of every contact whose membership  *)
(* is another in after than in before.                                       *)
Differs(before, after) == {c \in Contacts : (before[c] = "in") /= (after[c] = "in")}
Tell(before, after) ==
    LET changed == Differs(before, after)
        news(c) == IF after[c] = "in" THEN "in" ELSE "out" IN
    /\ told' = [c \in Contacts |-> IF c \in changed THEN news(c) ELSE told[c]]
    /\ repeated' = (repeated \/ \E c \in changed : told[c] = news(c))

(* The first computation announces nothing; listeners find what it assigned. *)
Find(after) == told' = after /\ UNCHANGED repeated

(* Mutant: what was saved is not asked for: nobody was in the segment.       *)
AnnounceFromNobody ==
    /\ At("announce")
    /\ IF resolved = Nobody THEN Find(assigned) ELSE Tell(Nobody, assigned)
    /\ GoesTo("save")
    /\ UNCHANGED <<log, row, state, assigned, resolved, cached, scan, excuses,
                   budgets>>

(* processSegmentChangeEvents compares the assignments with those saved.  It *)
(* says nothing when none are saved: it takes that for a first computation.  *)
(* A failed read counts as empty, a failed event is dropped.                 *)
Announce ==
    LET w == work
        before == IF Windowed THEN w.before ELSE resolved IN
    /\ At("announce")
    /\ \/ /\ IF before = Nobody THEN Find(assigned) ELSE Tell(before, assigned)
          /\ Excuse("unannounced", before = Nobody /\ w.last /= Never)
          /\ UNCHANGED mishaps
       \/ /\ before /= Nobody /\ Mishap
          /\ \/ UNCHANGED listeners
             \/ Tell(before, Nobody)
             \/ ~Windowed /\ Tell(Nobody, assigned)
          /\ excuses' = excuses \cup {"unannounced"}
    /\ GoesTo("save")
    /\ UNCHANGED <<log, row, state, assigned, resolved, cached, scan, edits>>

(* Mutant: what was announced is not saved.                                  *)
SaveNothing ==
    /\ At("save")
    /\ GoesTo("record")
    /\ UNCHANGED <<log, row, state, assigned, resolved, cached, scan, listeners,
                   excuses, budgets>>

(* saveResolvedSegmentState copies the assignments there are.                *)
Save ==
    /\ At("save")
    /\ resolved' = [c \in Contacts |-> IF assigned[c] = "none" THEN resolved[c]
                                                             ELSE assigned[c]]
    /\ GoesTo("record")
    /\ UNCHANGED <<log, row, state, assigned, cached, scan, listeners, excuses,
                   budgets>>

(* lastComputedAt is the time at the end; an edit made since the row was     *)
(* read is older than it, and so counts as computed.                         *)
Record ==
    /\ At("record")
    /\ last' = Len(log) /\ edited' = FALSE
    /\ Excuse("forgotten", definition /= work.def)
    /\ Goes(Idle)
    /\ UNCHANGED <<log, definition, state, assigned, resolved, cached, scan, listeners,
                   budgets>>

-------------------------------------------------------------------------------
(* Faults.                                                                   *)

(* A computation that ends here takes with it the only copy of what was      *)
(* saved before it cleaned up; or it has announced what it has not saved.    *)
Lost ==
    IF (work.before /= Nobody /\ ~At("record")) \/ At("save") \/ At("clean")
    THEN {"unannounced"} ELSE {}

Partly ==
    IF At("clean")
    THEN /\ state' = NoStates /\ upto' = Never /\ UNCHANGED resolved
         /\ assigned' \in {assigned, Nobody}
    ELSE UNCHANGED <<state, assigned, resolved, upto>>

(* A call throws.  The computation of one segment ends; that of several      *)
(* counts a failure, or a circuit that others opened, as a computation.      *)
Fail ==
    /\ work.pc \notin {"idle", "announce"} /\ Mishap
    /\ Partly
    /\ IF work.path = "batch" /\ ~At("record")
       THEN GoesTo("record") ELSE Goes(Idle)
    /\ excuses' = excuses \cup Lost \cup
         (IF work.path = "batch" /\ ~At("record") THEN {"forgotten"} ELSE {})
    /\ UNCHANGED <<log, row, cached, window, by, listeners, edits>>

(* A process that ends idle only loses its cache, as when that expires.      *)
ProcessDies ==
    /\ Mishap
    /\ ~At("idle") /\ Partly
    /\ work' = Idle
    /\ cached' = {}
    /\ excuses' = excuses \cup Lost
    /\ UNCHANGED <<log, row, window, by, listeners, edits>>

-------------------------------------------------------------------------------
Proceed ==
    \/ Clean \/ Prepare \/ Scan \/ Assign
    \/ Announce \/ Save \/ Record

SegmentNext ==
    \/ Ingest \/ CacheExpires \/ Edit \/ Begin \/ Proceed \/ Fail \/ ProcessDies

SegmentSpec == SegmentInit /\ [][SegmentNext]_segmentVars

(* The cron job begins a computation again and again, of every segment more  *)
(* than an hour old, and what has begun goes on.                             *)
FairSegments == SegmentSpec /\ WF_segmentVars(Begin \/ Proceed)

-------------------------------------------------------------------------------
SegmentTypeOK ==
    /\ log \in Seq(SegmentEvents)
    /\ definition \in Definitions /\ by \in Definitions /\ edited \in BOOLEAN
    /\ {last, upto} \subseteq {Never} \cup 0 .. Len(log)
    /\ window \in [1 .. MaxNodes -> 0 .. Len(log)]
    /\ state \in [1 .. MaxNodes -> [Contacts -> [at : 0 .. Len(log), value : BOOLEAN]]]
    /\ {assigned, resolved, told} \subseteq [Contacts -> Memberships]
    /\ cached \subseteq Contacts /\ repeated \in BOOLEAN
    /\ excuses \subseteq {"forgotten", "elsewhere", "unannounced"}
    /\ edits \in 0 .. MaxEdits /\ mishaps \in 0 .. MaxMishaps

Excused(these) == excuses \cap these /= {}
Read == 1 .. upto
Gone == DeletedIn(log, DOMAIN log)

(* Reading only what is new tells the same as reading everything: whenever   *)
(* there are assignments, a contact that was never deleted is in the segment *)
(* exactly when its definition holds over all events until the last scan,    *)
(* whatever computations failed or crashed halfway before.  Three things the *)
(* code lets happen undo this for good: an event stored while a computation  *)
(* runs, an edit, and a failure that a batch records as a computation.       *)
IncrementalIsExact ==
    upto /= Never /\ ~Excused({"forgotten"}) =>
        \A c \in Contacts \ Gone :
            assigned[c] = "in" <=> Meaning(by, log, Read, window, c)

(* A deleted contact leaves the segments that select among all contacts, and *)
(* those with time windows that count nothing (no count is ever empty, even  *)
(* of a deleted contact), unless the deletion was ingested by another        *)
(* process, whose signal does not reach the cache of this one.               *)
SelectsAmongAll(def) ==
    \/ HasTimeWindows(def) /\ \A i \in DOMAIN def.nodes : def.nodes[i] /= "counted"
    \/ \A i \in DOMAIN def.nodes : def.nodes[i] \in {"everyone", "has_not"}
DeletedLeave ==
    upto /= Never /\ SelectsAmongAll(by) /\ ~Excused({"forgotten", "elsewhere"}) =>
        \A c \in DeletedIn(log, Read) : assigned[c] /= "in"

(* The assignments are right, of the contacts that are and of those that     *)
(* are gone.                                                                 *)
AssignmentsExact == SegmentTypeOK /\ IncrementalIsExact /\ DeletedLeave

(* A contact is not announced to enter twice without leaving in between, nor *)
(* to leave twice, except when a read or a save failed or was undone.        *)
OneAnnouncementPerChange == repeated => Excused({"unannounced"})

(* What has been saved has been announced: no change slips between the       *)
(* assignments and what listeners know, except when a failed or empty        *)
(* earlier state is taken for a first computation.                           *)
SavedIsAnnounced ==
    /\ At("idle")
    /\ upto /= Never /\ resolved = assigned
    /\ ~Excused({"unannounced"})
    => Differs(told, assigned) = {}

(* Listeners hear of every change, once.                                     *)
ChangesAnnouncedOnce == SavedIsAnnounced /\ OneAnnouncementPerChange

(* Every event is in time part of an assignment by the current definition.   *)
EveryEventCounts ==
    Len(log) = MaxEvents ~>
        Excused({"forgotten"}) \/ (upto = MaxEvents /\ by = definition)
===============================================================================

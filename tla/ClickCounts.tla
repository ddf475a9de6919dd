------------------------------ MODULE ClickCounts -----------------------------
(***************************************************************************)
(* The click count of a link: every click is an event that reaches         *)
(* ClickHouse later or never, and syncClickCounts() copies the number of   *)
(* events to the row.                                                      *)
(***************************************************************************)
EXTENDS Naturals

CONSTANTS
    Syncs,          \* slots of synchronisations in progress
    MaxClicks       \* bound: clicks tracked

VARIABLES
    tracked,        \* link_clicked events of the link in ClickHouse
    count,          \* click_count of the row
    sync            \* what each synchronisation is doing

countVars == <<tracked, count, sync>>

\* base is a history of the count that was loaded: nothing reads it.
NoSync == [pc |-> "idle", base |-> 0, listed |-> 0, seen |-> 0]

CountInit == tracked = 0 /\ count = 0 /\ sync = [s \in Syncs |-> NoSync]

\* trackClickEvent: the redirect does not wait for the event.
TrackClick ==
    /\ tracked < MaxClicks
    /\ tracked' = tracked + 1
    /\ UNCHANGED <<count, sync>>

\* findAll() loads the rows ...
ListLinks(s) ==
    /\ sync[s].pc = "idle"
    /\ sync' = [sync EXCEPT ![s] = [NoSync EXCEPT !.pc = "live", !.base = count, !.listed = count]]
    /\ UNCHANGED <<tracked, count>>

\* ... and overwrites their counts with those of ClickHouse, if it can.
LiveCounts(s) ==
    /\ sync[s].pc = "live"
    /\ \/ sync' = [sync EXCEPT ![s].pc = "query",
                               ![s].listed = IF tracked > 0 THEN tracked ELSE @]
       \/ sync' = [sync EXCEPT ![s].pc = "query"]
    /\ UNCHANGED <<tracked, count>>

\* The synchronisation's own query, which can fail.
QueryCounts(s) ==
    /\ sync[s].pc = "query"
    /\ \/ sync' = [sync EXCEPT ![s].pc = "write", ![s].seen = tracked]
       \/ sync' = [sync EXCEPT ![s] = NoSync]
    /\ UNCHANGED <<tracked, count>>

\* Mutant: the events are added to the count of the row.
AddsUp(s) == count + sync[s].seen

Counted(s) == sync[s].seen

\* Only a count that differs from the listed one is written: a click that came
\* before the listing already shows in the listed one.
WriteCount(s) ==
    /\ sync[s].pc = "write"
    /\ count' = IF sync[s].seen > 0 /\ sync[s].seen # sync[s].listed
                THEN Counted(s) ELSE count
    /\ sync' = [sync EXCEPT ![s] = NoSync]
    /\ UNCHANGED tracked

CountStep ==
    \/ TrackClick
    \/ \E s \in Syncs : ListLinks(s) \/ LiveCounts(s) \/ QueryCounts(s) \/ WriteCount(s)

-------------------------------------------------------------------------------
(* A synchronisation writes no click that was not tracked, and takes a      *)
(* click back only when another one has overtaken it.                       *)
CountsFollowClicks ==
    [][ /\ count' <= tracked
        /\ count' < count =>
            \E s \in Syncs : sync[s].pc = "write" /\ sync'[s] = NoSync /\ sync[s].base # count
      ]_countVars
===============================================================================

------------------------------ MODULE ShortLinks ------------------------------
(***************************************************************************)
(* ClickTrackingService over the link cache: create, edit and delete a     *)
(* link, and the clicks that look it up by its code.                       *)
(***************************************************************************)
EXTENDS EntityCache

CONSTANTS Contents      \* what a link can say: its target, and whether it is active

NewLink == CHOOSE c \in Contents : TRUE

\* A click on the link: findByDomain finds no custom domain, then the code.
Click(r, i) == Begin(r, "click", i, "code", "ask")

Create(r, i) == row = None /\ started = 0 /\ Begin(r, "create", i, "id", "insert")

Change(r, i) == Begin(r, "change", i, "id", "ask")

Delete(r, i) == Begin(r, "delete", i, "id", "ask")

Arrive(r, i) == Click(r, i) \/ Create(r, i) \/ Change(r, i) \/ Delete(r, i)

\* No other process is told.
Elsewhere(i, v) ==
    memory' = [j \in Instances |-> IF j = i THEN memory[j] ELSE MarkAll(memory[j], v)]

\* update(): the whole copy is saved, which inserts a row deleted meanwhile.
SaveLink(r) ==
    /\ At(r, "save")
    /\ row' \in Contents \ {job[r].copy}
    /\ Elsewhere(job[r].at, row')
    /\ job' = [job EXCEPT ![r].pc = "find", ![r].copy = None]
    /\ UNCHANGED <<kind, redis, index, gap, started, callFaults>>

RemoveLink(r) ==
    /\ At(r, "remove")
    /\ row' = None
    /\ Elsewhere(job[r].at, None)
    /\ job' = [job EXCEPT ![r].pc = "find", ![r].copy = None]
    /\ UNCHANGED <<kind, redis, index, gap, started, callFaults>>

\* The code of the link is read from its row: a deleted link has none left.
FindCode(r) ==
    /\ At(r, "find")
    /\ IF row = None
       THEN /\ redis' = [redis EXCEPT !["code"] = Mark(@, None)]
            /\ memory' = [memory EXCEPT ![job[r].at]["code"] = Mark(@, None)]
            /\ Goto(r, "dropId")
       ELSE Goto(r, "dropCode") /\ UNCHANGED <<redis, memory>>
    /\ UNCHANGED <<kind, row, index, gap, started, callFaults>>

\* A failure answers 500 the first time; in the event listener it is fatal.
InvalidationFails(r) ==
    /\ CallFault
    /\ IF job[r].pass = 1
       THEN GiveUp(r) /\ Finish(r) /\ UNCHANGED <<row, index, gap>>
       ELSE Crash(r)

DropCode(r) ==
    /\ At(r, "dropCode")
    /\ \/ Forget(r, "code") /\ Goto(r, "dropId") /\ UNCHANGED <<row, index, gap, callFaults>>
       \/ InvalidationFails(r)
    /\ UNCHANGED <<kind, started>>

\* The event "updated" or "deleted" has the cache invalidated once more.
DropId(r) ==
    /\ At(r, "dropId")
    /\ \/ /\ Forget(r, "id")
          /\ Unlist
          /\ IF job[r].pass = 1
             THEN job' = [job EXCEPT ![r].pc = "find", ![r].pass = 2]
             ELSE Finish(r)
          /\ UNCHANGED <<row, callFaults>>
       \/ InvalidationFails(r)
    /\ UNCHANGED <<kind, started>>

\* create(): the row, the entry under the id, the one under the code, the event.
Insert(r) ==
    /\ At(r, "insert")
    /\ row' = NewLink
    /\ job' = [job EXCEPT ![r].pc = "setId", ![r].copy = NewLink]
    /\ UNCHANGED <<kind, redis, memory, index, gap, started, callFaults>>

SetId(r) ==
    /\ At(r, "setId")
    /\ \/ redis' = [redis EXCEPT !["id"] = Entry(job[r].copy)] /\ UNCHANGED callFaults
       \/ CallFault /\ UNCHANGED redis
    /\ Goto(r, "keepId")
    /\ UNCHANGED <<kind, row, memory, index, gap, started>>

KeepId(r) ==
    /\ At(r, "keepId")
    /\ memory' = [memory EXCEPT ![job[r].at]["id"] = Entry(job[r].copy)]
    /\ index' = index \cup {"this"}
    /\ Goto(r, "setCode")
    /\ UNCHANGED <<kind, row, redis, gap, started, callFaults>>

\* A failure here answers "Failed to create" for a link that exists.
SetCode(r) ==
    /\ At(r, "setCode")
    /\ \/ /\ redis' = [redis EXCEPT !["code"] = Entry(job[r].copy)]
          /\ Goto(r, "keepCode")
          /\ UNCHANGED callFaults
       \/ CallFault /\ Finish(r) /\ UNCHANGED redis
    /\ UNCHANGED <<kind, row, memory, index, gap, started>>

KeepCode(r) ==
    /\ At(r, "keepCode")
    /\ memory' = [memory EXCEPT ![job[r].at]["code"] = Entry(job[r].copy)]
    /\ job' = [job EXCEPT ![r].pc = "announce", ![r].copy = None]
    /\ UNCHANGED <<kind, row, redis, index, gap, started, callFaults>>

LinkStep(r) ==
    \/ SaveLink(r) \/ RemoveLink(r) \/ FindCode(r) \/ DropCode(r) \/ DropId(r)
    \/ Insert(r) \/ SetId(r) \/ KeepId(r) \/ SetCode(r) \/ KeepCode(r)
===============================================================================

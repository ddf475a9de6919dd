----------------------------- MODULE SegmentsApi ------------------------------
(***************************************************************************)
(* SegmentsService and SegmentComputationService over the segment cache:   *)
(* create, read, list, edit, recompute and remove a segment.  The index of *)
(* the cache also holds another segment, which never changes.              *)
(*                                                                         *)
(* At the end, what a cache has to do for its entity, be it a segment or a *)
(* short link.                                                             *)
(***************************************************************************)
EXTENDS ShortLinks

NewSegment == [definition |-> 1, computed |-> FALSE]

Definitions == 1 .. 2

Segments == [definition : Definitions, computed : BOOLEAN]

ASSUME ValuesAssumption == None \notin Contents \cup Segments /\ Contents # {}

CreateSegment(r, i) ==
    row = None /\ started = 0 /\ Begin(r, "create", i, "id", "insertSegment")

\* One segment or each of a page: a look-up of its own.
FindOne(r, i) == Begin(r, "read", i, "id", "ask")

\* update() and recompute() look the segment up first.
Edit(r, i) == Begin(r, "edit", i, "id", "ask")

Recompute(r, i) == Begin(r, "recompute", i, "id", "ask")

\* The computation of a job or of the cron reads the row.
ComputeSegment(r, i) == Begin(r, "compute", i, "id", "compute")

RemoveSegment(r, i) == Begin(r, "delete", i, "id", "check")

GetAll(r, i) == Begin(r, "list", i, "id", "members")

ClearCaches(r, i) == Begin(r, "clear", i, "id", "clear")

Call(r, i) ==
    \/ CreateSegment(r, i) \/ FindOne(r, i) \/ Edit(r, i) \/ Recompute(r, i)
    \/ ComputeSegment(r, i) \/ RemoveSegment(r, i) \/ GetAll(r, i) \/ ClearCaches(r, i)

\* Only the columns that change are written; a segment that is gone is not
\* inserted again.
UpdateRow(v) == row' = IF row = None THEN None ELSE v

Update(r) ==
    /\ At(r, "update")
    /\ \E d \in Definitions : UpdateRow([row EXCEPT !.definition = d])
    /\ job' = [job EXCEPT ![r].pc = "reread", ![r].copy = None]
    /\ UNCHANGED <<kind, redis, memory, index, gap, started, callFaults>>

Compute(r) ==
    /\ At(r, "compute")
    /\ UpdateRow([row EXCEPT !.computed = TRUE])
    /\ job' = [job EXCEPT ![r].pc = "drop", ![r].copy = None]
    /\ UNCHANGED <<kind, redis, memory, index, gap, started, callFaults>>

Reread(r) ==
    /\ At(r, "reread")
    /\ IF row = None THEN Finish(r)
       ELSE job' = [job EXCEPT ![r].pc = "cache", ![r].copy = row]
    /\ UNCHANGED <<kind, row, redis, memory, index, gap, started, callFaults>>

\* cacheSegment: a Redis that fails is only logged.
CacheSegment(r) ==
    /\ At(r, "cache")
    /\ \/ redis' = [redis EXCEPT !["id"] = Entry(job[r].copy)] /\ UNCHANGED callFaults
       \/ CallFault /\ redis' = MarkAll(redis, row)
    /\ IF job[r].op = "create"
       THEN job' = [job EXCEPT ![r].pc = "announce", ![r].copy = None]
       ELSE Finish(r)
    /\ UNCHANGED <<kind, row, memory, index, gap, started>>

\* What each operation goes on with after the invalidation.
AfterDrop(r) ==
    CASE job[r].op = "delete" -> Goto(r, "erase")
      [] job[r].op = "recompute" -> Goto(r, "reread")
      [] OTHER -> Finish(r)

\* The removal erases the row even when the invalidation has failed.
DropSegment(r) ==
    /\ At(r, "drop")
    /\ \/ /\ redis' = [redis EXCEPT !["id"] = None]
          /\ Unlist
          /\ AfterDrop(r)
          /\ UNCHANGED callFaults
       \/ /\ CallFault
          /\ IF job[r].op = "delete"
             THEN redis' = MarkAll(redis, None) /\ Goto(r, "erase")
             ELSE redis' = MarkAll(redis, row) /\ Finish(r)
          /\ UNCHANGED <<index, gap>>
    /\ UNCHANGED <<kind, row, memory, started>>

\* remove(): the row, the segment's data in ClickHouse, the cache, the row again.
CheckRow(r) ==
    /\ At(r, "check")
    /\ IF row = None THEN Finish(r) ELSE Goto(r, "clean")
    /\ UNCHANGED <<kind, row, redis, memory, index, gap, started, callFaults>>

\* A clean-up that fails skips the invalidation, not the removal.
Clean(r) ==
    /\ At(r, "clean")
    /\ \/ Goto(r, "drop") /\ UNCHANGED <<redis, callFaults>>
       \/ CallFault /\ Goto(r, "erase") /\ redis' = MarkAll(redis, None)
    /\ UNCHANGED <<kind, row, memory, index, gap, started>>

\* The listener of the removed row invalidates the id "undefined".
Erase(r) ==
    /\ At(r, "erase")
    /\ row' = None
    /\ Finish(r)
    /\ UNCHANGED <<kind, redis, memory, index, gap, started, callFaults>>

InsertSegment(r) ==
    /\ At(r, "insertSegment")
    /\ row' = NewSegment
    /\ job' = [job EXCEPT ![r].pc = "cache", ![r].copy = NewSegment]
    /\ UNCHANGED <<kind, redis, memory, index, gap, started, callFaults>>

\* getAll: what the index lists; one listed entity without an entry makes the
\* query for the missing ones fail, and the caller gets nothing at all.
Members(r) ==
    /\ At(r, "members")
    /\ \/ /\ IF index = {} THEN Goto(r, "all") ELSE Finish(r)
          /\ UNCHANGED callFaults
       \/ CallFault /\ Finish(r)
    /\ UNCHANGED <<kind, row, redis, memory, index, gap, started>>

ReadAll(r) ==
    /\ At(r, "all")
    /\ job' = [job EXCEPT ![r].pc = "index", ![r].copy = row]
    /\ UNCHANGED <<kind, row, redis, memory, index, gap, started, callFaults>>

\* The listing may be older than a creation that has emptied the index since.
BuildIndex(r) ==
    /\ At(r, "index")
    /\ index' = index \cup {"other"} \cup (IF job[r].copy = None THEN {} ELSE {"this"})
    /\ gap' = (("this" \notin index') /\ (gap \/ row # None))
    /\ IF job[r].copy = None THEN Finish(r) ELSE Goto(r, "cache")
    /\ UNCHANGED <<kind, row, redis, memory, started, callFaults>>

ClearAll(r) ==
    /\ At(r, "clear")
    /\ redis' = [k \in Keys |-> None]
    /\ index' = {}
    /\ gap' = FALSE
    /\ Finish(r)
    /\ UNCHANGED <<kind, row, memory, started, callFaults>>

SegmentStep(r) ==
    \/ Update(r) \/ Compute(r) \/ Reread(r) \/ CacheSegment(r) \/ DropSegment(r)
    \/ CheckRow(r) \/ Clean(r) \/ Erase(r) \/ InsertSegment(r)
    \/ Members(r) \/ ReadAll(r) \/ BuildIndex(r) \/ ClearAll(r)

-------------------------------------------------------------------------------
(* The entity is there or not; nothing is cached.                            *)
CacheInit ==
    /\ row \in CASE kind = "link" -> {None, NewLink}
                 [] kind = "segment" -> {None, NewSegment}
                 [] OTHER -> {None}
    /\ redis = [k \in Keys |-> None]
    /\ memory = [i \in Instances |-> [k \in Keys |-> None]]
    /\ index = {}
    /\ gap = FALSE
    /\ job = [r \in Requests |-> Idle]
    /\ started = 0
    /\ callFaults = 0

Comes(r, i) == (kind = "link" /\ Arrive(r, i)) \/ (kind = "segment" /\ Call(r, i))

CacheStep ==
    \/ \E r \in Requests, i \in Instances : Comes(r, i)
    \/ \E r \in Requests : Lookup(r) \/ LinkStep(r) \/ SegmentStep(r) \/ AnnounceNew(r)
    \/ Expiry

CacheSpec == kind \in {"link", "segment"} /\ CacheInit /\ [][CacheStep]_cacheVars

(* Once every request has ended, a cached value is that of the row, in      *)
(* Redis and in every process, unless it was already old when it was        *)
(* written or the code had no way left to remove it.                        *)
CachesAgree ==
    Quiet =>
        /\ \A k \in Keys : redis[k] # None => redis[k].outdated \/ redis[k].copy = row
        /\ \A i \in Instances, k \in Keys :
            memory[i][k] # None => memory[i][k].outdated \/ memory[i][k].copy = row

(* Real-time processing learns of the segments from getAll(): an index that *)
(* is in use lists the segment, unless it was invalidated since the index   *)
(* was built, or the index was built from an older listing.                 *)
ListsEverySegment ==
    kind = "segment" /\ Quiet /\ row # None /\ index # {} => "this" \in index \/ gap

(* Neither the cached values nor the index contradict the table for good.    *)
CachesFollowTable == CachesAgree /\ ListsEverySegment
===============================================================================

----------------------------- MODULE EntityCache ------------------------------
(***************************************************************************)
(* BaseCacheService and its two users that matter here: LinkCacheService   *)
(* (Redis for a day and the memory of each process for an hour after the   *)
(* last use, under the link's id and under its code) and                   *)
(* SegmentCacheService (Redis only, under the id).  One entity, its row in *)
(* Postgres, what the caches hold of it, the Redis index of all ids, and   *)
(* the requests that read and fill the caches: one action per await.       *)
(*                                                                         *)
(* A cached entry carries a history mark, outdated: the value was no       *)
(* longer that of the row when it was written, or the code has lost every  *)
(* chance to remove it.  No action reads the mark.                         *)
(***************************************************************************)
EXTENDS Naturals, FiniteSets

CONSTANTS
    Instances,      \* processes, each with its own memory
    Requests,       \* slots of requests in progress
    MaxRequests,    \* bound: requests that are started
    MaxCallFaults,      \* bound: calls that fail
    None            \* no row, no entry

VARIABLES
    kind,           \* the cache under study: "link" or "segment"
    row,            \* the row of the entity in Postgres, or None
    redis,          \* Redis entry under each key, or None
    memory,         \* entry of each process under each key, or None
    index,          \* ids in the Redis index of the cache
    gap,            \* history: the index omits the entity, and why is known
    job,            \* what each request is doing
    started,        \* requests started so far
    callFaults      \* calls that failed so far

cacheVars == <<kind, row, redis, memory, index, gap, job, started, callFaults>>

Keys == {"id", "code"}

\* enableL2Cache
HasMemory == kind = "link"

Idle == [op |-> "none", at |-> "nowhere", key |-> "id", pc |-> "idle",
         copy |-> None, pass |-> 1]

Quiet == \A r \in Requests : job[r] = Idle

At(r, pc) == job[r].pc = pc

Goto(r, pc) == job' = [job EXCEPT ![r].pc = pc]

Finish(r) == job' = [job EXCEPT ![r] = Idle]

CallFault == callFaults < MaxCallFaults /\ callFaults' = callFaults + 1

\* An entry that exists and no longer agrees with the row is lost for good.
Mark(entry, v) ==
    IF entry = None THEN None
    ELSE [entry EXCEPT !.outdated = @ \/ entry.copy # v]

MarkAll(entries, v) == [k \in Keys |-> Mark(entries[k], v)]

\* A segment's removal has nothing to invalidate after the row is gone.
Doomed == \E r \in Requests : At(r, "erase")

Entry(v) == [copy |-> v, outdated |-> v # row \/ Doomed]

-------------------------------------------------------------------------------
(* A request arrives; a look-up ends in the step its operation goes on with. *)

Begin(r, op, i, key, pc) ==
    /\ job[r] = Idle
    /\ started < MaxRequests
    /\ started' = started + 1
    /\ job' = [job EXCEPT ![r] = [Idle EXCEPT !.op = op, !.at = i, !.key = key,
                                              !.pc = pc]]
    /\ UNCHANGED <<kind, row, redis, memory, index, gap, callFaults>>

After(op) ==
    CASE op = "change" -> "save"
      [] op = "delete" -> "remove"
      [] op = "edit" -> "update"
      [] op = "recompute" -> "compute"
      [] OTHER -> "found"

Found(r, v) ==
    IF After(job[r].op) = "found" THEN Finish(r)
    ELSE job' = [job EXCEPT ![r].pc = After(job[r].op), ![r].copy = v]

\* The memory of the process first.
HeldBy(r) == IF HasMemory THEN memory[job[r].at][job[r].key] ELSE None

AskMemory(r) ==
    /\ At(r, "ask")
    /\ IF HeldBy(r) # None THEN Found(r, HeldBy(r).copy) ELSE Goto(r, "redis")
    /\ UNCHANGED <<kind, row, redis, memory, index, gap, started, callFaults>>

\* A Redis that fails counts as a miss for get(); getByShortCode() falls back
\* on the database and caches nothing.
AskRedis(r) ==
    /\ At(r, "redis")
    /\ \/ LET entry == redis[job[r].key]
          IN  /\ IF entry = None THEN Goto(r, "load")
                 ELSE IF HasMemory
                 THEN job' = [job EXCEPT ![r].pc = "keep", ![r].copy = entry.copy]
                 ELSE Found(r, entry.copy)
              /\ UNCHANGED callFaults
       \/ /\ CallFault
          /\ Goto(r, IF job[r].key = "id" THEN "load" ELSE "reload")
    /\ UNCHANGED <<kind, row, redis, memory, index, gap, started>>

\* The database; an entity that is not there is a 404.
Load(r) ==
    /\ At(r, "load")
    /\ IF row = None THEN Finish(r)
       ELSE job' = [job EXCEPT ![r].pc = "put", ![r].copy = row]
    /\ UNCHANGED <<kind, row, redis, memory, index, gap, started, callFaults>>

\* SETEX with the cache's time to live.
Put(r) ==
    /\ At(r, "put")
    /\ \/ /\ redis' = [redis EXCEPT ![job[r].key] = Entry(job[r].copy)]
          /\ IF HasMemory THEN Goto(r, "keep") ELSE Found(r, job[r].copy)
          /\ UNCHANGED callFaults
       \/ /\ CallFault
          /\ IF job[r].key = "code" THEN Goto(r, "reload")
             ELSE IF HasMemory THEN Goto(r, "keep") ELSE Found(r, job[r].copy)
          /\ UNCHANGED redis
    /\ UNCHANGED <<kind, row, memory, index, gap, started>>

Keep(r) ==
    /\ At(r, "keep")
    /\ memory' = [memory EXCEPT ![job[r].at][job[r].key] = Entry(job[r].copy)]
    /\ Found(r, job[r].copy)
    /\ UNCHANGED <<kind, row, redis, index, gap, started, callFaults>>

Reload(r) ==
    /\ At(r, "reload")
    /\ IF row = None THEN Finish(r) ELSE Found(r, row)
    /\ UNCHANGED <<kind, row, redis, memory, index, gap, started, callFaults>>

Lookup(r) == AskMemory(r) \/ AskRedis(r) \/ Load(r) \/ Put(r) \/ Keep(r) \/ Reload(r)

-------------------------------------------------------------------------------
(* Invalidation.                                                            *)

\* Mutant: the key is deleted in Redis, the memory of the process forgotten.
OnlyInRedis(r, key) ==
    /\ redis' = [redis EXCEPT ![key] = None]
    /\ UNCHANGED memory

\* DEL, and the memory of the process that runs the request: no other.
Forget(r, key) ==
    /\ redis' = [redis EXCEPT ![key] = None]
    /\ memory' = [memory EXCEPT ![job[r].at][key] = None]

\* After a failed invalidation whatever is still cached stays.
GiveUp(r) ==
    /\ redis' = MarkAll(redis, row)
    /\ memory' = [memory EXCEPT ![job[r].at] = MarkAll(@, row)]

\* removeFromIndex: getAll() lists what is left of the index.
Unlist ==
    /\ index' = index \ {"this"}
    /\ gap' = (gap \/ index' # {})

\* Mutant: the index survives the creation of an entity.
KeepsIndex(r) ==
    /\ Forget(r, "id")
    /\ UNCHANGED <<index, gap>>

\* invalidateAll: the id keys of the index, and the index.
DropIndexed(r) ==
    /\ IF "this" \in index THEN Forget(r, "id") ELSE UNCHANGED <<redis, memory>>
    /\ index' = {}
    /\ gap' = FALSE

\* A rejected promise of an event listener is handled by nobody and ends the
\* process, with its memory and its requests.
Crash(r) ==
    /\ memory' = [memory EXCEPT ![job[r].at] = [k \in Keys |-> None]]
    /\ redis' = MarkAll(redis, row)
    /\ gap' = (gap \/ index # {})
    /\ job' = [q \in Requests |-> IF job[q].at = job[r].at THEN Idle ELSE job[q]]
    /\ UNCHANGED <<row, index>>

\* The event "created" reaches the cache of the process.
AnnounceNew(r) ==
    /\ At(r, "announce")
    /\ \/ DropIndexed(r) /\ Finish(r) /\ UNCHANGED <<row, callFaults>>
       \/ CallFault /\ Crash(r)
    /\ UNCHANGED <<kind, started>>

RedisExpires(k) ==
    /\ redis[k] # None
    /\ redis' = [redis EXCEPT ![k] = None]
    /\ UNCHANGED <<kind, row, memory, index, gap, job, started, callFaults>>

MemoryExpires(i, k) ==
    /\ HasMemory
    /\ memory[i][k] # None
    /\ memory' = [memory EXCEPT ![i][k] = None]
    /\ UNCHANGED <<kind, row, redis, index, gap, job, started, callFaults>>

IndexExpires ==
    /\ index # {}
    /\ index' = {}
    /\ gap' = FALSE
    /\ UNCHANGED <<kind, row, redis, memory, job, started, callFaults>>

Expiry ==
    \/ \E k \in Keys : RedisExpires(k) \/ \E i \in Instances : MemoryExpires(i, k)
    \/ IndexExpires
===============================================================================

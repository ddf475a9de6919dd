---------------------------- MODULE JourneyStore ----------------------------
(***************************************************************************)
(* The store of journey sessions: one Redis record per session, a Redis    *)
(* index of the session ids, and the journey_sessions table behind them.   *)
(* JourneySessionCacheService extends BaseCacheService: reads go Redis,    *)
(* then table; writes go Redis, index, table, and always write the whole   *)
(* record.  Every writer reads a record, changes its copy and writes all   *)
(* of it back, with an await in between.                                   *)
(*                                                                         *)
(* A record keeps what the journey code decides on: the session's status,  *)
(* the node it waits for and whether the workflow id is known.  waitingFor *)
(* is only ever read together with status "waiting", so a completed wait   *)
(* keeps its node here.                                                    *)
(***************************************************************************)
EXTENDS Naturals, FiniteSets

CONSTANTS Sessions      \* the session ids that may be drawn

VARIABLES
    redis,              \* Redis value of each session's key, or None
    index,              \* the ids in the Redis index
    rows                \* row of each session in journey_sessions, or None

storeVars == <<redis, index, rows>>

None == [status |-> "none", wait |-> 0, wf |-> FALSE]

Statuses == {"active", "waiting", "completed", "failed", "cancelled"}

\* The value get(id) returns: Redis first, the table on a miss.
Seen(id) == IF redis[id] # None THEN redis[id] ELSE rows[id]

\* The statuses that block a new run of the journey for the contact.
IsLive(rec) == rec.status \in {"active", "waiting"}

\* The ids getAll() returns: the index, or every row while the index is empty.
Listed == IF index # {} THEN index ELSE {id \in Sessions : rows[id] # None}

StoreInit ==
    /\ redis = [id \in Sessions |-> None]
    /\ index = {}
    /\ rows = [id \in Sessions |-> None]

\* get() copies the row it had to read into Redis, not into the index.
ReadThrough(id) ==
    /\ redis' = [redis EXCEPT ![id] = Seen(id)]
    /\ UNCHANGED <<index, rows>>

\* getAll() reads the listed records and rebuilds the index from the table
\* when it is empty.
ReadAll ==
    /\ redis' = [id \in Sessions |->
                    IF id \in Listed THEN Seen(id) ELSE redis[id]]
    /\ index' = Listed
    /\ UNCHANGED rows

\* Mutant: a write that does not list the session.
PutUnlisted(id, rec) ==
    /\ redis' = [redis EXCEPT ![id] = rec]
    /\ rows' = [rows EXCEPT ![id] = rec]
    /\ UNCHANGED index

\* set(): Redis, index, table.
Put(id, rec) ==
    /\ redis' = [redis EXCEPT ![id] = rec]
    /\ index' = index \cup {id}
    /\ rows' = [rows EXCEPT ![id] = rec]

\* A direct repository.update({id}, ...): the table only, and only a row
\* that exists.
UpdateRow(id, rec) ==
    /\ rows' = IF rows[id] = None THEN rows ELSE [rows EXCEPT ![id] = rec]
    /\ UNCHANGED <<redis, index>>

\* invalidate(): Redis and index; the row stays.
Invalidate(id) ==
    /\ redis' = [redis EXCEPT ![id] = None]
    /\ index' = index \ {id}
    /\ UNCHANGED rows

\* Redis loses its data: a flush, an eviction, the 24 h expiry of the keys.
Flush ==
    /\ redis' = [id \in Sessions |-> None]
    /\ index' = {}
    /\ UNCHANGED rows
=============================================================================

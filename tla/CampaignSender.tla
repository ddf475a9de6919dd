---------------------------- MODULE CampaignSender ----------------------------
(***************************************************************************)
(* The campaign sender: consumers of campaigns.send that dispatch every    *)
(* PENDING contact of a page to the CRM, record the outcome on the         *)
(* contact's row and report the page on campaigns.tracked.  Rows are the   *)
(* only lock: updates are conditional on the row still being PENDING.      *)
(* Before each contact, and during the backoff of a retry, the campaign's  *)
(* status is rechecked through a cache that the handlers of a replica      *)
(* share; a control message or a timeout drops the cached value.           *)
(* Every await of send() ends an action, so the handlers of all replicas   *)
(* interleave there, and may fail, crash or lose their channel there.      *)
(***************************************************************************)
EXTENDS Integers, FiniteSets, Sequences, Delivery

CONSTANTS
    Hosts,            \* sender replicas
    Workers,          \* message handlers (prefetch slots)
    HostOf,           \* the replica each handler runs on
    Pages,            \* pages of the packed audience
    ContactsOf,       \* contactIds of each page, in order
    RetryCount,       \* DISPATCH_RETRY_COUNT
    ControlReliable,  \* no control message is lost
    MaxOwnerActions,  \* bound: pauses, resumes, stops, removals
    MaxRepacks,       \* bound: times the audience is computed and packed again
    MaxFaults         \* bound: failures, crashes, channel losses, lost replies

ASSUME SenderAssumption ==
    /\ IsFiniteSet(Workers)
    /\ HostOf \in [Workers -> Hosts]
    /\ RetryCount \in Nat
    /\ ControlReliable \in BOOLEAN
    /\ MaxOwnerActions \in Nat
    /\ MaxRepacks \in Nat
    /\ MaxFaults \in Nat

Elements(s) == {s[i] : i \in DOMAIN s}

Members(p) == Elements(ContactsOf[p])
Contacts == UNION {Members(p) : p \in Pages}

\* The audience holds a contact once (SELECT DISTINCT), and the packer's cursor
\* puts each of its rows on one page.
ASSUME PagesAssumption ==
    /\ \A p \in Pages : ContactsOf[p] \in Seq(Members(p))
    /\ \A p \in Pages : \A i, j \in DOMAIN ContactsOf[p] :
           ContactsOf[p][i] = ContactsOf[p][j] => i = j
    /\ \A p, q \in Pages : Members(p) \cap Members(q) # {} => p = q

VARIABLES
    status,    \* campaigns.status
    gone,      \* what was removed under the campaign: nothing, itself, its template
    rows,      \* campaigns_contacts: row id and status of each contact
    repacks,   \* completed recomputations of the audience
    packing,   \* progress of the recomputation under way
    sendQ,     \* the campaigns.send queue
    dead,      \* its dead-letter queue
    reports,   \* reports published on campaigns.tracked
    control,   \* campaigns.control messages not yet consumed
    cache,     \* statusCache of each replica, one campaign's entry
    pc,        \* next step of each handler
    msg,       \* the copy each handler is processing
    owned,     \* FALSE once the copy went back to the queue under the handler
    todo,      \* rows read as PENDING and not yet processed
    seen,      \* status read from the database and not yet cached
    tries,     \* dispatch attempts made for the current contact
    counts,    \* counts read for the report
    sends,     \* messages the CRM accepted for each contact
    aborted,   \* pages some handler acknowledged without processing them all
    dropped,   \* pages discarded as terminal failures
    owner,     \* owner actions so far
    faults     \* faults so far

campaignVars == <<status, gone, control, owner>>
audienceVars == <<rows, repacks, packing>>
brokerVars   == <<sendQ, dead>>
handlerVars  == <<pc, msg, owned, todo, seen, tries, counts>>
outputVars   == <<reports, aborted, dropped>>
vars == <<campaignVars, audienceVars, brokerVars, cache, handlerVars, sends,
          outputVars, faults>>

-----------------------------------------------------------------------------
Statuses == {"SENDING", "PAUSED", "STOPPED", "COMPLETED"}
Dispatchable == {"SENDING"}
RowStatuses == {"NONE", "PENDING", "SENT", "FAILED", "SKIPPED"}

Message == Messages(Pages)
NoMessage == [body |-> "none", attempt |-> 0]
NoCounts == [sent |-> 0, failed |-> 0]

PCs == {"idle", "load", "cache", "template", "rows", "next", "refresh",
        "resolve", "dispatch", "backoff", "repoll", "markSent", "markFailed",
        "markSkipped", "publish", "ack"}

TypeOK ==
    /\ status \in Statuses
    /\ gone \in {"nothing", "campaign", "template"}
    /\ rows \in [Contacts -> [id : 0 .. MaxRepacks, status : RowStatuses]]
    /\ repacks \in 0 .. MaxRepacks
    /\ packing \in {"idle", "cleared", "populated"}
    /\ sendQ \in [Message -> Nat]
    /\ dead \in [Message -> Nat]
    /\ reports \subseteq [page : Pages, sent : Nat, failed : Nat]
    /\ control \in 0 .. MaxOwnerActions
    /\ cache \in [Hosts -> Statuses \cup {"none"}]
    /\ pc \in [Workers -> PCs]
    /\ \A w \in Workers : pc[w] # "idle" => msg[w] \in Message
    /\ owned \in [Workers -> BOOLEAN]
    /\ \A w \in Workers : todo[w] \subseteq [contact : Contacts, id : 0 .. MaxRepacks]
    /\ seen \in [Workers -> Statuses]
    /\ tries \in [Workers -> 0 .. RetryCount]
    /\ counts \in [Workers -> [sent : Nat, failed : Nat]]
    /\ sends \in [Contacts -> Nat]
    /\ aborted \cup dropped \subseteq Pages
    /\ owner \in 0 .. MaxOwnerActions
    /\ faults \in 0 .. MaxFaults

\* The campaign has just been packed.
Init ==
    /\ status = "SENDING"
    /\ gone = "nothing"
    /\ rows = [c \in Contacts |-> [id |-> 0, status |-> "PENDING"]]
    /\ repacks = 0
    /\ packing = "idle"
    /\ sendQ = [m \in Message |-> IF m.attempt = 0 THEN 1 ELSE 0]
    /\ dead = NoCopies(Message)
    /\ reports = {}
    /\ control = 0
    /\ cache = [h \in Hosts |-> "none"]
    /\ pc = [w \in Workers |-> "idle"]
    /\ msg = [w \in Workers |-> NoMessage]
    /\ owned = [w \in Workers |-> FALSE]
    /\ todo = [w \in Workers |-> {}]
    /\ seen = [w \in Workers |-> "SENDING"]
    /\ tries = [w \in Workers |-> 0]
    /\ counts = [w \in Workers |-> NoCounts]
    /\ sends = [c \in Contacts |-> 0]
    /\ aborted = {}
    /\ dropped = {}
    /\ owner = 0
    /\ faults = 0

-----------------------------------------------------------------------------
(* The environment.                                                        *)

OwnerAct ==
    /\ owner < MaxOwnerActions
    /\ owner' = owner + 1
    /\ UNCHANGED <<audienceVars, brokerVars, cache, handlerVars, sends,
                   outputVars, faults>>

\* The status is saved first; the control message is published best effort.
OwnerSets(from, to) ==
    /\ OwnerAct
    /\ gone # "campaign"
    /\ status \in from
    /\ status' = to
    /\ control' \in IF ControlReliable THEN {control + 1} ELSE {control, control + 1}
    /\ UNCHANGED gone

Pause  == OwnerSets({"SENDING"}, "PAUSED")
Resume == OwnerSets({"PAUSED"}, "SENDING")
Stop   == OwnerSets({"SENDING", "PAUSED"}, "STOPPED")

RemoveUnder(what) ==
    /\ OwnerAct
    /\ gone = "nothing"
    /\ gone' = what
    /\ UNCHANGED <<status, control>>

\* The tracker completes the campaign once every page was reported.
Complete ==
    /\ \A p \in Pages : \E r \in reports : r.page = p
    /\ status # "COMPLETED"
    /\ status' = "COMPLETED"
    /\ UNCHANGED <<gone, control, owner, audienceVars, brokerVars, cache,
                   handlerVars, sends, outputVars, faults>>

\* A redelivered campaigns.pack, or an explicit request, computes the audience
\* again: the rows are deleted, then inserted anew with new ids; the packer
\* goes on to publish the pages.  No transaction spans these steps.
ClearAudience ==
    /\ repacks < MaxRepacks
    /\ packing = "idle"
    /\ gone # "campaign"
    /\ rows' = [c \in Contacts |-> [rows[c] EXCEPT !.status = "NONE"]]
    /\ packing' = "cleared"
    /\ UNCHANGED <<campaignVars, repacks, brokerVars, cache, handlerVars, sends,
                   outputVars, faults>>

PopulateAudience ==
    /\ packing = "cleared"
    /\ rows' = [c \in Contacts |-> [id |-> repacks + 1, status |-> "PENDING"]]
    /\ packing' = "populated"
    /\ UNCHANGED <<campaignVars, repacks, brokerVars, cache, handlerVars, sends,
                   outputVars, faults>>

PublishPages ==
    /\ packing = "populated"
    /\ sendQ' = [m \in Message |-> sendQ[m] + IF m.attempt = 0 THEN 1 ELSE 0]
    /\ repacks' = repacks + 1
    /\ packing' = "idle"
    /\ UNCHANGED <<campaignVars, rows, dead, cache, handlerVars, sends,
                   outputVars, faults>>

\* The control queue is named by run mode, so one replica of all gets a message.
HandleControl(h) ==
    /\ control > 0
    /\ control' = control - 1
    /\ cache' = [cache EXCEPT ![h] = "none"]
    /\ UNCHANGED <<status, gone, owner, audienceVars, brokerVars, handlerVars,
                   sends, outputVars, faults>>

\* The entry is older than CAMPAIGN_STATUS_CACHE_TTL_MS.
ExpireCache(h) ==
    /\ cache[h] # "none"
    /\ cache' = [cache EXCEPT ![h] = "none"]
    /\ UNCHANGED <<campaignVars, audienceVars, brokerVars, handlerVars, sends,
                   outputVars, faults>>

-----------------------------------------------------------------------------
(* send(), one action per await.                                           *)

Page(w) == msg[w].body
Goto(w, label) == pc' = [pc EXCEPT ![w] = label]

Deliver(w, m) ==
    /\ pc[w] = "idle"
    /\ m \in Waiting(sendQ)
    /\ sendQ' = Remove(sendQ, m)
    /\ msg' = [msg EXCEPT ![w] = m]
    /\ owned' = [owned EXCEPT ![w] = TRUE]
    /\ Goto(w, "load")
    /\ UNCHANGED <<campaignVars, audienceVars, dead, cache, todo, seen, tries,
                   counts, sends, outputVars, faults>>

Settle(w) ==
    /\ Goto(w, "idle")
    /\ msg' = [msg EXCEPT ![w] = NoMessage]
    /\ owned' = [owned EXCEPT ![w] = FALSE]
    /\ todo' = [todo EXCEPT ![w] = {}]
    /\ seen' = [seen EXCEPT ![w] = "SENDING"]
    /\ tries' = [tries EXCEPT ![w] = 0]
    /\ counts' = [counts EXCEPT ![w] = NoCounts]

\* TerminalError: nack(requeue = false) discards the copy.
Discard(w) ==
    /\ dropped' = dropped \cup {Page(w)}
    /\ Settle(w)
    /\ UNCHANGED <<campaignVars, audienceVars, brokerVars, cache, sends,
                   reports, aborted, faults>>

\* send() returns without reporting the page; the copy is acknowledged.
Abort(w) ==
    /\ aborted' = aborted \cup {Page(w)}
    /\ Goto(w, "ack")

LoadCampaign(w) ==
    /\ pc[w] = "load"
    /\ gone # "campaign"
    /\ seen' = [seen EXCEPT ![w] = status]
    /\ Goto(w, "cache")
    /\ UNCHANGED <<campaignVars, audienceVars, brokerVars, cache, msg, owned,
                   todo, tries, counts, sends, outputVars, faults>>

CampaignMissing(w) ==
    /\ pc[w] = "load"
    /\ gone = "campaign"
    /\ Discard(w)

CacheStatus(w) == cache' = [cache EXCEPT ![HostOf[w]] = seen[w]]

CacheLoaded(w) ==
    /\ pc[w] = "cache"
    /\ CacheStatus(w)
    /\ IF seen[w] \in Dispatchable
       THEN Goto(w, "template") /\ UNCHANGED aborted
       ELSE Abort(w)
    /\ UNCHANGED <<campaignVars, audienceVars, brokerVars, msg, owned, todo,
                   seen, tries, counts, sends, reports, dropped, faults>>

LoadTemplate(w) ==
    /\ pc[w] = "template"
    /\ gone # "template"
    /\ Goto(w, "rows")
    /\ UNCHANGED <<campaignVars, audienceVars, brokerVars, cache, msg, owned,
                   todo, seen, tries, counts, sends, outputVars, faults>>

TemplateMissing(w) ==
    /\ pc[w] = "template"
    /\ gone = "template"
    /\ Discard(w)

\* Mutant: every contact with a row is dispatched.
IsListed(c) == rows[c].status # "NONE"

IsPending(c) == rows[c].status = "PENDING"

\* Contacts without a row, or whose row is not PENDING, are skipped: their
\* status is the one of this read, not of the moment their turn comes.
LoadRows(w) ==
    /\ pc[w] = "rows"
    /\ LET RowOf(c) == [contact |-> c, id |-> rows[c].id]
           pending == {c \in Members(Page(w)) : IsPending(c)}
       IN todo' = [todo EXCEPT ![w] = {RowOf(c) : c \in pending}]
    /\ Goto(w, "next")
    /\ UNCHANGED <<campaignVars, audienceVars, brokerVars, cache, msg, owned,
                   seen, tries, counts, sends, outputVars, faults>>

\* currentCampaignStatus(): a valid cache entry answers at once; otherwise the
\* database is read, and the answer cached when it arrives.
ReadStatus == IF gone = "campaign" THEN "STOPPED" ELSE status

Decide(w, current, label) ==
    IF current \in Dispatchable
    THEN Goto(w, label) /\ UNCHANGED aborted
    ELSE Abort(w)

RecheckCached(w, from, label) ==
    /\ pc[w] = from
    /\ todo[w] # {}
    /\ cache[HostOf[w]] # "none"
    /\ Decide(w, cache[HostOf[w]], label)
    /\ UNCHANGED <<campaignVars, audienceVars, brokerVars, cache, msg, owned,
                   todo, seen, tries, counts, sends, reports, dropped, faults>>

RecheckMiss(w, from, label) ==
    /\ pc[w] = from
    /\ todo[w] # {}
    /\ cache[HostOf[w]] = "none"
    /\ seen' = [seen EXCEPT ![w] = ReadStatus]
    /\ Goto(w, label)
    /\ UNCHANGED <<campaignVars, audienceVars, brokerVars, cache, msg, owned,
                   todo, tries, counts, sends, outputVars, faults>>

RecheckRefresh(w, from, label) ==
    /\ pc[w] = from
    /\ CacheStatus(w)
    /\ Decide(w, seen[w], label)
    /\ UNCHANGED <<campaignVars, audienceVars, brokerVars, msg, owned, todo,
                   seen, tries, counts, sends, reports, dropped, faults>>

\* The recheck before a contact, and the abort probe of a retry's backoff (of
\* its several polls the last one, which decides the next attempt).
Recheck(w) ==
    \/ RecheckCached(w, "next", "resolve")
    \/ RecheckMiss(w, "next", "refresh")
    \/ RecheckRefresh(w, "refresh", "resolve")

PollAbort(w) ==
    \/ RecheckCached(w, "backoff", "dispatch")
    \/ RecheckMiss(w, "backoff", "repoll")
    \/ RecheckRefresh(w, "repoll", "dispatch")

\* The CRM knows the contact, knows it as blocked, or has no such contact.
ResolveContact(w) ==
    /\ pc[w] = "resolve"
    /\ \E label \in {"dispatch", "markSkipped", "markFailed"} : Goto(w, label)
    /\ UNCHANGED <<campaignVars, audienceVars, brokerVars, cache, msg, owned,
                   todo, seen, tries, counts, sends, outputVars, faults>>

\* The page's contacts are taken in its order.
Position(p, c) == CHOOSE i \in DOMAIN ContactsOf[p] : ContactsOf[p][i] = c

CurrentRow(w) ==
    CHOOSE r \in todo[w] : \A s \in todo[w] :
        Position(Page(w), r.contact) <= Position(Page(w), s.contact)

Current(w) == CurrentRow(w).contact

Accept(w) == sends' = [sends EXCEPT ![Current(w)] = @ + 1]

\* One attempt of dispatch(): accepted, refused for good (4xx), or a transient
\* failure, after which it backs off while retries are left.
DispatchAccepted(w) ==
    /\ pc[w] = "dispatch"
    /\ Accept(w)
    /\ Goto(w, "markSent")
    /\ UNCHANGED <<campaignVars, audienceVars, brokerVars, cache, msg, owned,
                   todo, seen, tries, counts, outputVars, faults>>

DispatchRefused(w) ==
    /\ pc[w] = "dispatch"
    /\ Goto(w, "markFailed")
    /\ UNCHANGED <<campaignVars, audienceVars, brokerVars, cache, msg, owned,
                   todo, seen, tries, counts, sends, outputVars, faults>>

RetryOrGiveUp(w) ==
    IF tries[w] = RetryCount
    THEN Goto(w, "markFailed") /\ UNCHANGED tries
    ELSE Goto(w, "backoff") /\ tries' = [tries EXCEPT ![w] = @ + 1]

DispatchTransient(w) ==
    /\ pc[w] = "dispatch"
    /\ RetryOrGiveUp(w)
    /\ UNCHANGED <<campaignVars, audienceVars, brokerVars, cache, msg, owned,
                   todo, seen, counts, sends, outputVars, faults>>

\* The rate limiter stays exhausted: the page is requeued as it stands.
RateLimited(w) ==
    /\ pc[w] = "dispatch"
    /\ IF owned[w]
       THEN /\ sendQ' = QueueAfterNack(sendQ, msg[w])
            /\ dead' = DeadAfterNack(dead, msg[w])
       ELSE UNCHANGED brokerVars
    /\ Settle(w)
    /\ UNCHANGED <<campaignVars, audienceVars, cache, sends, outputVars, faults>>

\* Mutant: the update does not require the row to be PENDING.
UpdateUnconditional(c, id, to) ==
    rows' = [rows EXCEPT ![c] = IF @.id = id /\ @.status # "NONE"
                                THEN [@ EXCEPT !.status = to] ELSE @]

\* UPDATE ... WHERE id = row.id AND status = PENDING
UpdateRow(c, id, to) ==
    rows' = [rows EXCEPT ![c] = IF @.id = id /\ @.status = "PENDING"
                                THEN [@ EXCEPT !.status = to] ELSE @]

Mark(w, from, to) ==
    /\ pc[w] = from
    /\ UpdateRow(Current(w), CurrentRow(w).id, to)
    /\ todo' = [todo EXCEPT ![w] = @ \ {CurrentRow(w)}]
    /\ tries' = [tries EXCEPT ![w] = 0]
    /\ Goto(w, "next")
    /\ UNCHANGED <<campaignVars, repacks, packing, brokerVars, cache, msg, owned,
                   seen, counts, sends, outputVars, faults>>

MarkRow(w) ==
    \/ Mark(w, "markSent", "SENT")
    \/ Mark(w, "markFailed", "FAILED")
    \/ Mark(w, "markSkipped", "SKIPPED")

\* publishTracked(): the page's rows are read again, then reported.
InStatus(p, s) == {c \in Members(p) : rows[c].status = s}

CountPage(w) ==
    /\ pc[w] = "next"
    /\ todo[w] = {}
    /\ counts' = [counts EXCEPT ![w] =
                     [sent   |-> Cardinality(InStatus(Page(w), "SENT")),
                      failed |-> Cardinality(InStatus(Page(w), "FAILED"))]]
    /\ Goto(w, "publish")
    /\ UNCHANGED <<campaignVars, audienceVars, brokerVars, cache, msg, owned,
                   todo, seen, tries, sends, outputVars, faults>>

ReportOf(w) == [page |-> Page(w), sent |-> counts[w].sent, failed |-> counts[w].failed]

PublishTracked(w) ==
    /\ pc[w] = "publish"
    /\ reports' = reports \cup {ReportOf(w)}
    /\ Goto(w, "ack")
    /\ UNCHANGED <<campaignVars, audienceVars, brokerVars, cache, msg, owned,
                   todo, seen, tries, counts, sends, aborted, dropped, faults>>

Ack(w) ==
    /\ pc[w] = "ack"
    /\ Settle(w)
    /\ UNCHANGED <<campaignVars, audienceVars, brokerVars, cache, sends,
                   outputVars, faults>>

-----------------------------------------------------------------------------
(* Faults.                                                                 *)

OneMoreFault ==
    /\ faults < MaxFaults
    /\ faults' = faults + 1

\* A database, CRM lookup or broker call throws: the page is requeued.
Fail(w) ==
    /\ pc[w] \notin {"idle", "cache", "ack"}
    /\ OneMoreFault
    /\ IF owned[w]
       THEN /\ sendQ' = QueueAfterNack(sendQ, msg[w])
            /\ dead' = DeadAfterNack(dead, msg[w])
       ELSE UNCHANGED brokerVars
    /\ Settle(w)
    /\ UNCHANGED <<campaignVars, audienceVars, cache, sends, outputVars>>

\* The CRM accepts the message but its answer is lost or unreadable, which
\* dispatch() takes for a transient failure.
ReplyLost(w) ==
    /\ pc[w] = "dispatch"
    /\ OneMoreFault
    /\ Accept(w)
    /\ RetryOrGiveUp(w)
    /\ UNCHANGED <<campaignVars, audienceVars, brokerVars, cache, msg, owned,
                   todo, seen, counts, outputVars>>

On(h) == {w \in Workers : HostOf[w] = h}

Holders(h, m) == {w \in On(h) : owned[w] /\ msg[w] = m}

ReturnAll(h) == sendQ' = [m \in Message |-> sendQ[m] + Cardinality(Holders(h, m))]

\* A replica dies: its handlers and its cache are gone, its copies return.
Crash(h) ==
    /\ OneMoreFault
    /\ \E w \in On(h) : pc[w] # "idle"
    /\ ReturnAll(h)
    /\ pc' = [w \in Workers |-> IF w \in On(h) THEN "idle" ELSE pc[w]]
    /\ msg' = [w \in Workers |-> IF w \in On(h) THEN NoMessage ELSE msg[w]]
    /\ owned' = [w \in Workers |-> w \notin On(h) /\ owned[w]]
    /\ todo' = [w \in Workers |-> IF w \in On(h) THEN {} ELSE todo[w]]
    /\ seen' = [w \in Workers |-> IF w \in On(h) THEN "SENDING" ELSE seen[w]]
    /\ tries' = [w \in Workers |-> IF w \in On(h) THEN 0 ELSE tries[w]]
    /\ counts' = [w \in Workers |-> IF w \in On(h) THEN NoCounts ELSE counts[w]]
    /\ cache' = [cache EXCEPT ![h] = "none"]
    /\ UNCHANGED <<campaignVars, audienceVars, dead, sends, outputVars>>

\* A replica loses its channel: its copies return while its handlers run on.
LoseChannel(h) ==
    /\ OneMoreFault
    /\ \E w \in On(h) : owned[w]
    /\ ReturnAll(h)
    /\ owned' = [w \in Workers |-> w \notin On(h) /\ owned[w]]
    /\ UNCHANGED <<campaignVars, audienceVars, dead, cache, pc, msg, todo, seen,
                   tries, counts, sends, outputVars>>

-----------------------------------------------------------------------------
DeliverSome(w) == \E m \in Message : Deliver(w, m)

Step(w) ==
    \/ LoadCampaign(w)
    \/ CampaignMissing(w)
    \/ CacheLoaded(w)
    \/ LoadTemplate(w)
    \/ TemplateMissing(w)
    \/ LoadRows(w)
    \/ Recheck(w)
    \/ PollAbort(w)
    \/ ResolveContact(w)
    \/ DispatchAccepted(w)
    \/ DispatchRefused(w)
    \/ DispatchTransient(w)
    \/ RateLimited(w)
    \/ MarkRow(w)
    \/ CountPage(w)
    \/ PublishTracked(w)
    \/ Ack(w)

Environment ==
    \/ Pause
    \/ Resume
    \/ Stop
    \/ \E what \in {"campaign", "template"} : RemoveUnder(what)
    \/ Complete
    \/ ClearAudience
    \/ PopulateAudience
    \/ PublishPages

Next ==
    \/ Environment
    \/ \E h \in Hosts : HandleControl(h) \/ ExpireCache(h) \/ Crash(h) \/ LoseChannel(h)
    \/ \E w \in Workers : DeliverSome(w) \/ Step(w) \/ Fail(w) \/ ReplyLost(w)

Spec == Init /\ [][Next]_vars

\* A consumer takes what waits in its queue and a started handler runs on.
Fairness == \A w \in Workers : WF_vars(DeliverSome(w)) /\ WF_vars(Step(w))

FairSpec == Spec /\ Fairness
-----------------------------------------------------------------------------
(* Properties.                                                             *)

\* Computing the audience again deletes the rows that serve as the lock.
Recomputations == IF packing = "idle" THEN repacks ELSE repacks + 1

\* The CRM gets a contact's message at most once, plus once for every fault: a
\* rate-limited requeue, a retry, a pause in the middle of a page or several
\* handlers on one page never send it twice.  Computing the audience again
\* forgets who was sent to, for every handler at work and every copy of a page.
SentOncePerFault ==
    Recomputations = 0 => \A c \in Contacts : sends[c] <= 1 + faults

\* A contact's recorded outcome is true: SENT means that the CRM accepted the
\* message, and an accepted message is recorded otherwise only after a fault, or
\* once the audience was computed again.
RowsTellTruth ==
    \A c \in Contacts :
        /\ rows[c].status = "SENT" => sends[c] > 0
        /\ rows[c].status \in {"FAILED", "SKIPPED"} /\ sends[c] > 0 =>
            faults + Recomputations > 0

\* What contacts were sent and what their rows say of it is right.
ContactsAccounted == SentOncePerFault /\ RowsTellTruth

\* A row's outcome is decided once: no handler that read the row as PENDING
\* earlier overwrites what another one has recorded since.
RowsDecidedOnce ==
    [][\A c \in Contacts :
         rows[c].status \in {"SENT", "FAILED", "SKIPPED"} =>
             \/ rows'[c] = rows[c]
             \/ rows'[c].status = "NONE"]_vars

\* A reported page is finished and its counts are final: they equal the rows
\* whenever one looks, so every redelivery reports the same counts, unless the
\* audience was computed again.
ReportsAreFinal ==
    Recomputations = 0 => \A r \in reports :
        /\ InStatus(r.page, "PENDING") = {}
        /\ r.sent = Cardinality(InStatus(r.page, "SENT"))
        /\ r.failed = Cardinality(InStatus(r.page, "FAILED"))

\* A page leaves the queue and its handlers only reported, dead-lettered,
\* discarded as a terminal failure, or given up because the campaign was seen
\* paused, stopped or completed.
Outstanding(p) ==
    \/ \E m \in Waiting(sendQ) \cup Waiting(dead) : m.body = p
    \/ \E w \in Workers : owned[w] /\ Page(w) = p

Reported(p) == \E r \in reports : r.page = p

PageAccounted ==
    \A p \in Pages : Outstanding(p) \/ Reported(p) \/ p \in aborted \cup dropped

\* Whatever happened to its page, a report is final, and no page is left without
\* one but for a reason the code knows.
PagesReported == PageAccounted /\ ReportsAreFinal
===============================================================================

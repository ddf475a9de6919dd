---------------------------- MODULE CampaignTracker ----------------------------
(***************************************************************************)
(* The campaign tracker: consumers of campaigns.tracked that record each   *)
(* page report in the campaign_tracked_pages ledger, recompute the         *)
(* campaign's counters from it, learn the number of pages from the last    *)
(* page's report, and move the campaign to COMPLETED once every page has   *)
(* reported.  record() is a sequence of SQL statements without a           *)
(* transaction around them; each statement is an action here, so the       *)
(* handlers of several replicas interleave between statements, and each    *)
(* may fail, crash or lose its channel between any two of them.            *)
(***************************************************************************)
EXTENDS Integers, FiniteSets, FiniteSetsExt, Delivery

CONSTANTS
    Workers,        \* message handlers, over all replicas and prefetch slots
    TotalPages,     \* pages of the packed audience; 0 for an empty audience
    SentOf,         \* sentCount the sender reports for each page
    FailedOf,       \* failedCount the sender reports for each page
    IsTestAB,       \* campaign.type = TESTAB
    SnapshotSkew,   \* see TakeSnapshot
    MaxCopies,      \* bound: times one report may be published
    MaxFaults       \* bound: failures, crashes and channel losses together

ASSUME TrackerAssumption ==
    /\ TotalPages \in Nat
    /\ SentOf \in [1 .. TotalPages -> Nat]
    /\ FailedOf \in [1 .. TotalPages -> Nat]
    /\ IsTestAB \in BOOLEAN
    /\ SnapshotSkew \in BOOLEAN
    /\ MaxCopies \in Nat
    /\ MaxFaults \in Nat

VARIABLES
    status,      \* campaigns.status
    deleted,     \* campaigns.deleted_at is set: findOne no longer sees the row
    totalPages,  \* campaigns.total_pages, 0 for NULL
    counters,    \* campaigns.sent_contacts and campaigns.failed_contacts
    ledger,      \* the rows of campaign_tracked_pages
    winnerRuns,  \* times the A/B winner has been written
    tracked,     \* the campaigns.tracked queue
    dead,        \* its dead-letter queue
    published,   \* copies of each report published so far
    pc,          \* next statement of each handler
    msg,         \* the copy each handler is processing
    owned,       \* FALSE once the copy went back to the queue under the handler
    snap,        \* rows a recompute has summed and not yet written
    cut,         \* pages a recompute cut short or overtaken may have left out
    faults       \* faults so far

campaignVars == <<status, deleted, totalPages, counters, ledger, winnerRuns>>
brokerVars   == <<tracked, dead, published>>
workerVars   == <<pc, msg, owned, snap>>
vars == <<campaignVars, brokerVars, workerVars, cut, faults>>

-----------------------------------------------------------------------------
(* Reports.                                                                *)

\* The sender stamps completed on the page that equals the page total.
ReportOf(p) == [page |-> p, sent |-> SentOf[p], failed |-> FailedOf[p],
                completed |-> p = TotalPages]

\* The packer reports an empty audience as one completed page 0.
EmptyReport == [page |-> 0, sent |-> 0, failed |-> 0, completed |-> TRUE]

Reports == IF TotalPages = 0 THEN {EmptyReport}
                             ELSE {ReportOf(p) : p \in 1 .. TotalPages}

Message == Messages(Reports)

NoMessage == FirstCopy([page |-> -1, sent |-> 0, failed |-> 0, completed |-> FALSE])

LedgerRow(r) == [page |-> r.page, sent |-> r.sent, failed |-> r.failed]

AllRows == {LedgerRow(r) : r \in Reports}

PagesIn(rows) == {e.page : e \in rows}

CountersOf(rows) == [sent   |-> MapThenSumSet(LAMBDA e : e.sent, rows),
                     failed |-> MapThenSumSet(LAMBDA e : e.failed, rows)]

Statuses == {"SENDING", "PAUSED", "STOPPED", "COMPLETED"}

PCs == {"idle", "load", "insert", "recompute", "write", "total", "check",
        "finish", "winner", "ack"}

-----------------------------------------------------------------------------
Sums == {CountersOf(rows) : rows \in SUBSET AllRows}

CampaignTypeOK ==
    /\ status \in Statuses
    /\ deleted \in BOOLEAN
    /\ totalPages \in {0, TotalPages}
    /\ ledger \in SUBSET AllRows
    /\ counters \in Sums
    /\ winnerRuns \in Nat

BrokerTypeOK ==
    /\ tracked \in [Message -> Nat]
    /\ dead \in [Message -> Nat]
    /\ published \in [Reports -> 0 .. MaxCopies]

WorkerTypeOK ==
    /\ pc \in [Workers -> PCs]
    /\ msg \in [Workers -> Message \cup {NoMessage}]
    /\ owned \in [Workers -> BOOLEAN]
    /\ snap \in [Workers -> SUBSET AllRows]

FaultTypeOK ==
    /\ cut \in SUBSET (0 .. TotalPages)
    /\ faults \in 0 .. MaxFaults

TypeOK == CampaignTypeOK /\ BrokerTypeOK /\ WorkerTypeOK /\ FaultTypeOK

Init ==
    /\ status = "SENDING"
    /\ deleted = FALSE
    /\ totalPages = 0
    /\ ledger = {}
    /\ counters = CountersOf({})
    /\ winnerRuns = 0
    /\ tracked = NoCopies(Message)
    /\ dead = NoCopies(Message)
    /\ published = [r \in Reports |-> 0]
    /\ pc = [w \in Workers |-> "idle"]
    /\ msg = [w \in Workers |-> NoMessage]
    /\ owned = [w \in Workers |-> FALSE]
    /\ snap = [w \in Workers |-> {}]
    /\ cut = {}
    /\ faults = 0

-----------------------------------------------------------------------------
(* The environment: senders publish reports, at least once each, and the   *)
(* campaign's owner pauses, resumes, stops or removes it.                  *)

Publish(r) ==
    /\ published[r] < MaxCopies
    /\ published' = [published EXCEPT ![r] = @ + 1]
    /\ tracked' = Add(tracked, FirstCopy(r))
    /\ UNCHANGED <<campaignVars, workerVars, dead, cut, faults>>

OwnerSets(from, to) ==
    /\ ~deleted
    /\ status \in from
    /\ status' = to
    /\ UNCHANGED <<deleted, totalPages, counters, ledger, winnerRuns,
                   brokerVars, workerVars, cut, faults>>

Pause  == OwnerSets({"SENDING"}, "PAUSED")
Resume == OwnerSets({"PAUSED"}, "SENDING")
Stop   == OwnerSets({"SENDING", "PAUSED"}, "STOPPED")

RemoveCampaign ==
    /\ ~deleted
    /\ deleted' = TRUE
    /\ UNCHANGED <<status, totalPages, counters, ledger, winnerRuns,
                   brokerVars, workerVars, cut, faults>>

-----------------------------------------------------------------------------
(* record(), one action per statement.                                     *)

Goto(w, label) == pc' = [pc EXCEPT ![w] = label]

Report(w) == msg[w].body

Deliver(w, m) ==
    /\ pc[w] = "idle"
    /\ m \in Waiting(tracked)
    /\ tracked' = Remove(tracked, m)
    /\ msg' = [msg EXCEPT ![w] = m]
    /\ owned' = [owned EXCEPT ![w] = TRUE]
    /\ Goto(w, "load")
    /\ UNCHANGED <<campaignVars, dead, published, snap, cut, faults>>

\* A report for a removed or an already completed campaign is acknowledged
\* without a trace; page 0 goes straight to the final transition.
AfterLoad(w) ==
    IF deleted \/ status = "COMPLETED" THEN "ack"
    ELSE IF Report(w).completed /\ Report(w).page = 0 THEN "finish"
    ELSE "insert"

LoadCampaign(w) ==
    /\ pc[w] = "load"
    /\ Goto(w, AfterLoad(w))
    /\ UNCHANGED <<campaignVars, brokerVars, msg, owned, snap, cut, faults>>

\* INSERT ... ON CONFLICT (campaign_id, page) DO NOTHING
RecordPage(w) ==
    /\ pc[w] = "insert"
    /\ ledger' = IF Report(w).page \in PagesIn(ledger)
                 THEN ledger ELSE ledger \cup {LedgerRow(Report(w))}
    /\ Goto(w, "recompute")
    /\ UNCHANGED <<status, deleted, totalPages, counters, winnerRuns,
                   brokerVars, msg, owned, snap, cut, faults>>

\* Mutant: the completion is checked only by the handler of the last page.
AfterRecomputeLastOnly(w) == IF Report(w).completed THEN "total" ELSE "ack"

AfterRecompute(w) == IF Report(w).completed THEN "total" ELSE "check"

\* Mutant: the report is added to the counters instead.
IncrementCounters(w) ==
    /\ pc[w] = "recompute"
    /\ counters' = [sent |-> counters.sent + Report(w).sent,
                    failed |-> counters.failed + Report(w).failed]
    /\ Goto(w, AfterRecompute(w))
    /\ UNCHANGED <<status, deleted, totalPages, ledger, winnerRuns,
                   brokerVars, msg, owned, snap, cut, faults>>

\* UPDATE campaigns SET sent_contacts = SUM(...): the SUM is recomputed from
\* the whole ledger, never incremented.
RecomputeCounters(w) ==
    /\ pc[w] = "recompute"
    /\ counters' = CountersOf(ledger)
    /\ Goto(w, AfterRecompute(w))
    /\ UNCHANGED <<status, deleted, totalPages, ledger, winnerRuns,
                   brokerVars, msg, owned, snap, cut, faults>>

\* Under READ COMMITTED the same statement reads the ledger in its snapshot and
\* may then wait for the lock on the campaign's row; what it writes when it
\* gets the lock is the sum of the snapshot.  SnapshotSkew admits that order.
TakeSnapshot(w) ==
    /\ pc[w] = "recompute"
    /\ SnapshotSkew
    /\ snap' = [snap EXCEPT ![w] = ledger]
    /\ Goto(w, "write")
    /\ UNCHANGED <<campaignVars, brokerVars, msg, owned, cut, faults>>

WriteSnapshot(w) ==
    /\ pc[w] = "write"
    /\ counters' = CountersOf(snap[w])
    /\ cut' = cut \cup PagesIn(ledger \ snap[w])
    /\ Goto(w, AfterRecompute(w))
    /\ UNCHANGED <<status, deleted, totalPages, ledger, winnerRuns,
                   brokerVars, msg, owned, snap, faults>>

RecordTotalPages(w) ==
    /\ pc[w] = "total"
    /\ totalPages' = Report(w).page
    /\ Goto(w, "check")
    /\ UNCHANGED <<status, deleted, counters, ledger, winnerRuns,
                   brokerVars, msg, owned, snap, cut, faults>>

\* Mutants: a NULL total_pages passes the comparison; the count is one short.
AllPagesReportedNullTotal == Cardinality(ledger) >= totalPages
AllPagesReportedOffByOne == totalPages # 0 /\ Cardinality(ledger) + 1 >= totalPages

AllPagesReported == totalPages # 0 /\ Cardinality(ledger) >= totalPages

CompleteIfAllPagesReported(w) ==
    /\ pc[w] = "check"
    /\ Goto(w, IF AllPagesReported THEN "finish" ELSE "ack")
    /\ UNCHANGED <<campaignVars, brokerVars, msg, owned, snap, cut, faults>>

\* Mutant: the UPDATE has no condition on the status.
TransitionUnconditional == TRUE

\* UPDATE ... SET status = COMPLETED WHERE status != COMPLETED: only the handler
\* whose UPDATE affects the row goes on to select the A/B winner.
TransitionAffectsRow == status # "COMPLETED"

TransitionToCompleted(w) ==
    /\ pc[w] = "finish"
    /\ status' = "COMPLETED"
    /\ Goto(w, IF TransitionAffectsRow /\ IsTestAB THEN "winner" ELSE "ack")
    /\ UNCHANGED <<deleted, totalPages, counters, ledger, winnerRuns,
                   brokerVars, msg, owned, snap, cut, faults>>

\* Best effort: an error is logged and swallowed, no templates is a warning.
SelectAbWinner(w) ==
    /\ pc[w] = "winner"
    /\ winnerRuns' \in {winnerRuns, winnerRuns + 1}
    /\ Goto(w, "ack")
    /\ UNCHANGED <<status, deleted, totalPages, counters, ledger,
                   brokerVars, msg, owned, snap, cut, faults>>

Settle(w) ==
    /\ Goto(w, "idle")
    /\ msg' = [msg EXCEPT ![w] = NoMessage]
    /\ owned' = [owned EXCEPT ![w] = FALSE]
    /\ snap' = [snap EXCEPT ![w] = {}]

Ack(w) ==
    /\ pc[w] = "ack"
    /\ Settle(w)
    /\ UNCHANGED <<campaignVars, brokerVars, cut, faults>>

-----------------------------------------------------------------------------
(* Faults.                                                                 *)

CutBy(w) == IF pc[w] \in {"recompute", "write"} THEN {Report(w).page} ELSE {}

OneMoreFault ==
    /\ faults < MaxFaults
    /\ faults' = faults + 1

\* A statement throws: no tracker error is terminal, so the copy is requeued.
\* The winner selection swallows its own errors.  A handler that has lost its
\* copy has nothing to requeue.
Fail(w) ==
    /\ pc[w] \notin {"idle", "winner", "ack"}
    /\ OneMoreFault
    /\ IF owned[w]
       THEN /\ tracked' = QueueAfterNack(tracked, msg[w])
            /\ dead' = DeadAfterNack(dead, msg[w])
       ELSE UNCHANGED <<tracked, dead>>
    /\ cut' = cut \cup CutBy(w)
    /\ Settle(w)
    /\ UNCHANGED <<campaignVars, published>>

\* The process dies: the broker returns the unacknowledged copy unchanged.
Crash(w) ==
    /\ pc[w] # "idle"
    /\ OneMoreFault
    /\ tracked' = IF owned[w] THEN Add(tracked, msg[w]) ELSE tracked
    /\ cut' = cut \cup CutBy(w)
    /\ Settle(w)
    /\ UNCHANGED <<campaignVars, dead, published>>

\* The channel drops: the broker returns the copy while the handler runs on.
LoseChannel(w) ==
    /\ pc[w] # "idle"
    /\ owned[w]
    /\ OneMoreFault
    /\ tracked' = Add(tracked, msg[w])
    /\ owned' = [owned EXCEPT ![w] = FALSE]
    /\ UNCHANGED <<campaignVars, dead, published, pc, msg, snap, cut>>

-----------------------------------------------------------------------------
Statement(w) ==
    \/ LoadCampaign(w)
    \/ RecordPage(w)
    \/ RecomputeCounters(w)
    \/ TakeSnapshot(w)
    \/ WriteSnapshot(w)
    \/ RecordTotalPages(w)
    \/ CompleteIfAllPagesReported(w)
    \/ TransitionToCompleted(w)
    \/ SelectAbWinner(w)
    \/ Ack(w)

DeliverSome(w) == \E m \in Message : Deliver(w, m)

Fault(w) == Fail(w) \/ Crash(w) \/ LoseChannel(w)

Environment ==
    \/ \E r \in Reports : Publish(r)
    \/ Pause
    \/ Resume
    \/ Stop
    \/ RemoveCampaign

Next ==
    \/ Environment
    \/ \E w \in Workers : DeliverSome(w) \/ Statement(w) \/ Fault(w)

Spec == Init /\ [][Next]_vars

\* A consumer takes what waits in its queue and a started handler runs on; the
\* environment and the faults are free to happen or not.
Fairness == \A w \in Workers : WF_vars(DeliverSome(w)) /\ WF_vars(Statement(w))

FairSpec == Spec /\ Fairness

-----------------------------------------------------------------------------
(* Properties.                                                             *)

\* A campaign is COMPLETED only when every page of its audience is in the
\* ledger, whatever the order of the reports, their redeliveries, and the
\* handlers' interleaving (the last page's report may arrive first).
CompletionJustified ==
    status = "COMPLETED" => PagesIn(ledger) = 1 .. TotalPages

\* The A/B winner is written at most once, and only for a completed campaign,
\* although several handlers may find all pages reported at the same time.
WinnerSelectedOnce ==
    /\ winnerRuns <= 1
    /\ winnerRuns = 1 => status = "COMPLETED"

\* A published report is never lost: a copy of it still waits, is held by the
\* handler that must settle it, or was dead-lettered; otherwise its page is in
\* the ledger or the campaign needs no more reports.
Outstanding(r) ==
    \/ \E m \in Waiting(tracked) \cup Waiting(dead) : m.body = r
    \/ \E w \in Workers : owned[w] /\ Report(w) = r

NoReportLost ==
    \A r \in Reports : published[r] > 0 =>
        \/ Outstanding(r)
        \/ r.page \in PagesIn(ledger)
        \/ status = "COMPLETED"
        \/ deleted

\* The counters are the sum of the ledger, short only of pages whose handler
\* has yet to recompute, died before it could, or was overtaken by an older
\* sum: no page is ever counted twice, and none drops out in any other way.
Recomputing(p) ==
    \E w \in Workers : pc[w] \in {"recompute", "write"} /\ Report(w).page = p

CountersAccountForPages ==
    \E missing \in SUBSET ledger :
        /\ counters = CountersOf(ledger \ missing)
        /\ \A e \in missing : e.page \in cut \/ Recomputing(e.page)

\* What was reported counts: no report is lost on its way into the ledger, and
\* none on its way from the ledger into the counters.
ReportsCount == NoReportLost /\ CountersAccountForPages

\* When every page has been reported the campaign completes, unless it was
\* removed or a report ran out of deliveries.
EveryPagePublished == \A r \in Reports : published[r] > 0

EventuallyCompleted ==
    EveryPagePublished ~>
        (status = "COMPLETED" \/ deleted \/ Waiting(dead) # {})

-----------------------------------------------------------------------------
(* What the tracker promises: the abstract specification it implements.    *)

Progress == INSTANCE CampaignProgress WITH
    Pages     <- 1 .. TotalPages,
    reported  <- PagesIn(ledger),
    completed <- (status = "COMPLETED")

ImplementsProgress == Progress!Spec
===============================================================================

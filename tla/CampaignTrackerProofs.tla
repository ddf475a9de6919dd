------------------------ MODULE CampaignTrackerProofs ------------------------
(***************************************************************************)
(* Proofs about CampaignTracker for every number of workers, pages, copies *)
(* and faults, every delivery limit and either reading of the recompute;   *)
(* and about AudienceReview for any contacts and requests.                 *)
(***************************************************************************)
EXTENDS CampaignTracker, AudienceReview, FiniteSetTheorems

USE TrackerAssumption, DeliveryLimitAssumption

-----------------------------------------------------------------------------
(* Facts about the data.                                                   *)

\* Every report names a page of the audience, unless the audience is empty.
LEMMA ReportFacts ==
    ASSUME NEW r \in Reports
    PROVE  /\ r.page \in 0 .. TotalPages
           /\ r.page = 0 <=> TotalPages = 0
           /\ r.completed = (r.page = TotalPages)
           /\ LedgerRow(r) \in AllRows
           /\ LedgerRow(r).page = r.page
  <1>1. LedgerRow(r) \in AllRows /\ LedgerRow(r).page = r.page
    BY DEF AllRows, LedgerRow
  <1>2. CASE TotalPages = 0
    <2>1. r = EmptyReport
      BY <1>2 DEF Reports
    <2>2. r.page = 0 /\ r.completed = TRUE
      BY <2>1 DEF EmptyReport
    <2>3. r.completed = (r.page = TotalPages)
      BY <1>2, <2>2, Zenon
    <2>4. QED
      BY <1>1, <1>2, <2>2, <2>3
  <1>3. CASE TotalPages # 0
    <2>1. PICK p \in 1 .. TotalPages : r = ReportOf(p)
      BY <1>3 DEF Reports
    <2>2. r.page = p /\ r.completed = (p = TotalPages)
      BY <2>1 DEF ReportOf
    <2>3. r.page \in 0 .. TotalPages /\ r.page # 0
      BY <2>2
    <2>4. r.completed = (r.page = TotalPages)
      BY <2>2, Zenon
    <2>5. QED
      BY <1>1, <1>3, <2>3, <2>4
  <1>4. QED
    BY <1>2, <1>3

\* Every possible row names a page of the audience.
LEMMA RowPages == \A e \in AllRows : e.page \in 0 .. TotalPages
  BY ReportFacts DEF AllRows, LedgerRow

\* The ledger's pages after an insertion.
LEMMA PagesAfterInsert ==
    ASSUME NEW rows, NEW e
    PROVE  /\ PagesIn(rows \cup {e}) = PagesIn(rows) \cup {e.page}
           /\ PagesIn({}) = {}
  BY DEF PagesIn

\* With a non-empty audience the possible ledger rows are as many as its pages.
LEMMA AllRowsFinite ==
    ASSUME TotalPages > 0
    PROVE  /\ IsFiniteSet(AllRows)
           /\ Cardinality(AllRows) <= TotalPages
           /\ PagesIn(AllRows) = 1 .. TotalPages
  <1> DEFINE row == [p \in 1 .. TotalPages |-> LedgerRow(ReportOf(p))]
  <1>1. AllRows = {LedgerRow(ReportOf(p)) : p \in 1 .. TotalPages}
    BY DEF AllRows, Reports
  <1>2. row \in Surjection(1 .. TotalPages, AllRows)
    BY <1>1 DEF Surjection
  <1>3. IsFiniteSet(1 .. TotalPages) /\ Cardinality(1 .. TotalPages) = TotalPages
    BY FS_Interval
  <1>4. IsFiniteSet(AllRows) /\ Cardinality(AllRows) <= TotalPages
    BY <1>2, <1>3, FS_Surjection
  <1>5. PagesIn(AllRows) = 1 .. TotalPages
    <2>1. \A p \in 1 .. TotalPages : LedgerRow(ReportOf(p)).page = p
      BY DEF LedgerRow, ReportOf
    <2>2. ASSUME NEW p \in 1 .. TotalPages PROVE p \in PagesIn(AllRows)
      <3>1. LedgerRow(ReportOf(p)) \in AllRows
        BY <1>1
      <3>2. QED
        BY <2>1, <3>1, Zenon DEF PagesIn
    <2>3. ASSUME NEW e \in AllRows PROVE e.page \in 1 .. TotalPages
      BY <1>1, <2>1, Zenon
    <2>4. QED
      BY <2>2, <2>3, Zenon DEF PagesIn
  <1>6. QED
    BY <1>4, <1>5

\* Counting the rows of the ledger against total_pages is enough to know that
\* every page has reported.
LEMMA CountingIsEnough ==
    ASSUME ledger \in SUBSET AllRows, totalPages \in {0, TotalPages},
           AllPagesReported
    PROVE  PagesIn(ledger) = 1 .. TotalPages
  <1>1. TotalPages > 0 /\ Cardinality(ledger) >= TotalPages
    BY DEF AllPagesReported
  <1>2. /\ IsFiniteSet(AllRows)
        /\ Cardinality(AllRows) <= TotalPages
        /\ PagesIn(AllRows) = 1 .. TotalPages
    BY <1>1, AllRowsFinite
  <1>3. /\ Cardinality(ledger) <= Cardinality(AllRows)
        /\ Cardinality(ledger) = Cardinality(AllRows) => AllRows = ledger
        /\ IsFiniteSet(ledger)
    BY <1>2, FS_Subset
  <1>4. Cardinality(ledger) \in Nat /\ Cardinality(AllRows) \in Nat
    BY <1>2, <1>3, FS_CardinalityType
  <1>5. QED
    BY <1>1, <1>2, <1>3, <1>4
-----------------------------------------------------------------------------
(* Type correctness.                                                       *)

\* A busy handler holds a message of the queue, and only the last page's report
\* brings one to the statement that writes total_pages.
Holding ==
    \A w \in Workers :
        /\ pc[w] # "idle" => msg[w] \in Message
        /\ pc[w] = "total" => Report(w).completed

Typed == TypeOK /\ Holding

\* Every handler's report is a report, with the facts that follow.
LEMMA HeldReport ==
    ASSUME Typed, NEW w \in Workers, pc[w] # "idle"
    PROVE  msg[w] \in Message /\ Report(w) \in Reports
  BY BodyType DEF Typed, Holding, Message, Report

LEMMA TypedInit == Init => Typed
  <1> SUFFICES ASSUME Init PROVE Typed
    OBVIOUS
  <1>1. NoCopies(Message) \in [Message -> Nat]
    BY DEF NoCopies
  <1>2. CountersOf({}) \in Sums
    BY DEF Sums
  <1>3. BrokerTypeOK
    BY <1>1 DEF Init, BrokerTypeOK
  <1>4. WorkerTypeOK /\ Holding
    BY <1>2 DEF Init, PCs, Holding, WorkerTypeOK
  <1>5. deleted \in BOOLEAN
    BY Zenon DEF Init
  <1>6. CampaignTypeOK
    BY <1>2, <1>5 DEF Init, Statuses, CampaignTypeOK
  <1>7. FaultTypeOK
    BY DEF Init, FaultTypeOK
  <1>8. QED
    BY <1>3, <1>4, <1>6, <1>7 DEF Typed, TypeOK

\* Moving a busy handler to another label, with everything else about the
\* handlers unchanged.
LEMMA TypedGoto ==
    ASSUME Typed, NEW w \in Workers, pc[w] # "idle", NEW label \in PCs,
           label = "total" => Report(w).completed,
           Goto(w, label), UNCHANGED <<msg, owned>>,
           snap' \in [Workers -> SUBSET AllRows]
    PROVE  WorkerTypeOK' /\ Holding'
  BY DEF Typed, TypeOK, WorkerTypeOK, Holding, Goto, Report

\* A handler that settles its copy is idle again.
LEMMA TypedSettle ==
    ASSUME Typed, NEW w \in Workers, Settle(w)
    PROVE  WorkerTypeOK' /\ Holding'
  BY DEF Typed, TypeOK, WorkerTypeOK, Holding, Settle, Goto, PCs, Report

\* Environment steps keep the types.
LEMMA TypedEnvironment == Typed /\ Environment => Typed'
  <1> SUFFICES ASSUME Typed, Environment PROVE Typed'
    OBVIOUS
  <1> USE DEF Typed, TypeOK
  <1>1. ASSUME NEW r \in Reports, Publish(r) PROVE Typed'
    <2>1. tracked' \in [Message -> Nat]
      BY <1>1, FirstCopyType, QueueType DEF Publish, BrokerTypeOK, Message
    <2>2. published' \in [Reports -> 0 .. MaxCopies]
      BY <1>1 DEF Publish, BrokerTypeOK
    <2>3. BrokerTypeOK'
      BY <1>1, <2>1, <2>2 DEF Publish, BrokerTypeOK
    <2>4. CampaignTypeOK' /\ WorkerTypeOK' /\ FaultTypeOK' /\ Holding'
      BY <1>1 DEF Publish, CampaignTypeOK, WorkerTypeOK, FaultTypeOK, Holding,
                  Report, campaignVars, workerVars
    <2>5. QED
      BY <2>3, <2>4
  <1>2. ASSUME NEW from \in SUBSET Statuses, NEW to \in Statuses,
               OwnerSets(from, to)
        PROVE  Typed'
    BY <1>2 DEF OwnerSets, CampaignTypeOK, BrokerTypeOK, WorkerTypeOK,
                FaultTypeOK, Holding, Report, brokerVars, workerVars
  <1>3. ASSUME Pause \/ Resume \/ Stop PROVE Typed'
    BY <1>2, <1>3 DEF Pause, Resume, Stop, Statuses
  <1>4. ASSUME RemoveCampaign PROVE Typed'
    <2>1. deleted' \in BOOLEAN
      BY <1>4, Zenon DEF RemoveCampaign
    <2>2. QED
      BY <1>4, <2>1 DEF RemoveCampaign, CampaignTypeOK, BrokerTypeOK,
            WorkerTypeOK, FaultTypeOK, Holding, Report, brokerVars, workerVars
  <1>5. QED
    BY <1>1, <1>3, <1>4 DEF Environment

\* The statements of record() keep the types.
LEMMA TypedStatement ==
    ASSUME Typed, NEW w \in Workers, Statement(w)
    PROVE  Typed'
  <1> USE DEF Typed, TypeOK, PCs
  <1> DEFINE SameBroker == UNCHANGED brokerVars
             SameFaults == UNCHANGED <<cut, faults>>
  <1>1. ASSUME SameBroker, SameFaults PROVE BrokerTypeOK' /\ FaultTypeOK'
    BY <1>1 DEF BrokerTypeOK, FaultTypeOK, brokerVars
  <1>2. ASSUME UNCHANGED campaignVars PROVE CampaignTypeOK'
    BY <1>2 DEF CampaignTypeOK, campaignVars
  <1>3. ASSUME UNCHANGED snap PROVE snap' \in [Workers -> SUBSET AllRows]
    BY <1>3 DEF WorkerTypeOK
  <1>4. CASE LoadCampaign(w)
    <2>1. PICK label \in PCs : Goto(w, label) /\ label # "total"
      BY <1>4 DEF LoadCampaign, AfterLoad
    <2>2. WorkerTypeOK' /\ Holding'
      BY <1>4, <1>3, <2>1, TypedGoto DEF LoadCampaign, AfterLoad
    <2>3. QED
      BY <1>4, <1>1, <1>2, <2>2 DEF LoadCampaign, AfterLoad
  <1>5. CASE RecordPage(w)
    <2>1. WorkerTypeOK' /\ Holding'
      BY <1>5, <1>3, TypedGoto DEF RecordPage
    <2>2. ledger' \in SUBSET AllRows
      BY <1>5, HeldReport, ReportFacts DEF RecordPage, CampaignTypeOK
    <2>3. CampaignTypeOK'
      BY <1>5, <2>2 DEF RecordPage, CampaignTypeOK
    <2>4. QED
      BY <1>5, <1>1, <2>1, <2>3 DEF RecordPage
  <1>6. CASE RecomputeCounters(w)
    <2>1. PICK label \in PCs :
            Goto(w, label) /\ (label = "total" => Report(w).completed)
      BY <1>6 DEF RecomputeCounters, AfterRecompute
    <2>2. WorkerTypeOK' /\ Holding'
      BY <1>6, <1>3, <2>1, TypedGoto DEF RecomputeCounters
    <2>3. counters' \in Sums
      BY <1>6 DEF RecomputeCounters, Sums, CampaignTypeOK
    <2>4. CampaignTypeOK'
      BY <1>6, <2>3 DEF RecomputeCounters, CampaignTypeOK
    <2>5. QED
      BY <1>6, <1>1, <2>2, <2>4 DEF RecomputeCounters
  <1>7. CASE TakeSnapshot(w)
    <2>1. ledger \in SUBSET AllRows
      BY DEF CampaignTypeOK
    <2>2. snap' \in [Workers -> SUBSET AllRows]
      BY <1>7, <2>1 DEF TakeSnapshot, WorkerTypeOK
    <2>3. WorkerTypeOK' /\ Holding'
      BY <1>7, <2>2, TypedGoto DEF TakeSnapshot
    <2>4. QED
      BY <1>7, <1>1, <1>2, <2>3 DEF TakeSnapshot
  <1>8. CASE WriteSnapshot(w)
    <2>1. PICK label \in PCs :
            Goto(w, label) /\ (label = "total" => Report(w).completed)
      BY <1>8 DEF WriteSnapshot, AfterRecompute
    <2>2. WorkerTypeOK' /\ Holding'
      BY <1>8, <1>3, <2>1, TypedGoto DEF WriteSnapshot
    <2>3. snap[w] \in SUBSET AllRows
      BY DEF WorkerTypeOK
    <2>4. counters' \in Sums
      BY <1>8, <2>3, Zenon DEF WriteSnapshot, Sums
    <2>5. CampaignTypeOK'
      BY <1>8, <2>4 DEF WriteSnapshot, CampaignTypeOK
    <2>6. PagesIn(ledger \ snap[w]) \in SUBSET (0 .. TotalPages)
      BY RowPages DEF PagesIn, CampaignTypeOK
    <2>7. cut' \in SUBSET (0 .. TotalPages)
      BY <1>8, <2>6, Zenon DEF WriteSnapshot, FaultTypeOK
    <2>8. FaultTypeOK'
      BY <1>8, <2>7 DEF WriteSnapshot, FaultTypeOK
    <2>9. BrokerTypeOK'
      BY <1>8 DEF WriteSnapshot, BrokerTypeOK, brokerVars
    <2>10. QED
      BY <2>2, <2>5, <2>8, <2>9
  <1>9. CASE RecordTotalPages(w)
    <2>1. WorkerTypeOK' /\ Holding'
      BY <1>9, <1>3, TypedGoto DEF RecordTotalPages
    <2>2. Report(w) \in Reports /\ Report(w).completed
      BY <1>9, HeldReport DEF RecordTotalPages, Holding
    <2>3. Report(w).page = TotalPages
      BY <2>2, ReportFacts
    <2>4. CampaignTypeOK'
      BY <1>9, <2>3 DEF RecordTotalPages, CampaignTypeOK
    <2>5. QED
      BY <1>9, <1>1, <2>1, <2>4 DEF RecordTotalPages
  <1>10. CASE CompleteIfAllPagesReported(w)
    <2>1. PICK label \in PCs : Goto(w, label) /\ label # "total"
      BY <1>10 DEF CompleteIfAllPagesReported
    <2>2. WorkerTypeOK' /\ Holding'
      BY <1>10, <1>3, <2>1, TypedGoto DEF CompleteIfAllPagesReported
    <2>3. QED
      BY <1>10, <1>1, <1>2, <2>2 DEF CompleteIfAllPagesReported
  <1>11. CASE TransitionToCompleted(w)
    <2>1. PICK label \in PCs : Goto(w, label) /\ label # "total"
      BY <1>11 DEF TransitionToCompleted, TransitionAffectsRow
    <2>2. WorkerTypeOK' /\ Holding'
      BY <1>11, <1>3, <2>1, TypedGoto DEF TransitionToCompleted, TransitionAffectsRow
    <2>3. CampaignTypeOK'
      BY <1>11 DEF TransitionToCompleted, TransitionAffectsRow, CampaignTypeOK, Statuses
    <2>4. QED
      BY <1>11, <1>1, <2>2, <2>3 DEF TransitionToCompleted, TransitionAffectsRow
  <1>12. CASE SelectAbWinner(w)
    <2>1. WorkerTypeOK' /\ Holding'
      BY <1>12, <1>3, TypedGoto DEF SelectAbWinner
    <2>2. CampaignTypeOK'
      BY <1>12 DEF SelectAbWinner, CampaignTypeOK
    <2>3. QED
      BY <1>12, <1>1, <2>1, <2>2 DEF SelectAbWinner
  <1>13. CASE Ack(w)
    BY <1>13, <1>1, <1>2, TypedSettle DEF Ack
  <1>14. QED
    BY <1>4, <1>5, <1>6, <1>7, <1>8, <1>9, <1>10, <1>11, <1>12, <1>13
       DEF Statement

\* Delivering a copy keeps the types.
LEMMA TypedDeliver ==
    ASSUME Typed, NEW w \in Workers, NEW m \in Message, Deliver(w, m)
    PROVE  Typed'
  <1> USE DEF Typed, TypeOK
  <1>1. tracked' \in [Message -> Nat]
    BY QueueType DEF Deliver, BrokerTypeOK
  <1>2. BrokerTypeOK'
    BY <1>1 DEF Deliver, BrokerTypeOK
  <1>3. WorkerTypeOK' /\ Holding'
    BY DEF Deliver, WorkerTypeOK, Holding, Goto, PCs, Report
  <1>4. CampaignTypeOK' /\ FaultTypeOK'
    BY DEF Deliver, CampaignTypeOK, FaultTypeOK, campaignVars
  <1>5. QED
    BY <1>2, <1>3, <1>4

\* Faults keep the types.
LEMMA TypedFault ==
    ASSUME Typed, NEW w \in Workers, Fault(w)
    PROVE  Typed'
  <1> USE DEF Typed, TypeOK
  <1>1. pc[w] # "idle" /\ msg[w] \in Message /\ Report(w) \in Reports
    BY HeldReport DEF Fault, Fail, Crash, LoseChannel
  <1>2. CutBy(w) \in SUBSET (0 .. TotalPages)
    BY <1>1, ReportFacts DEF CutBy
  <1>3. /\ Add(tracked, msg[w]) \in [Message -> Nat]
        /\ QueueAfterNack(tracked, msg[w]) \in [Message -> Nat]
        /\ DeadAfterNack(dead, msg[w]) \in [Message -> Nat]
    BY <1>1, QueueType, NackType DEF BrokerTypeOK, Message
  <1>4. CASE Fail(w)
    <2>1. BrokerTypeOK'
      BY <1>4, <1>3 DEF Fail, BrokerTypeOK
    <2>2. WorkerTypeOK' /\ Holding'
      BY <1>4, TypedSettle DEF Fail
    <2>3. CampaignTypeOK'
      BY <1>4 DEF Fail, CampaignTypeOK, campaignVars
    <2>4. cut' = cut \cup CutBy(w) /\ OneMoreFault
      BY <1>4 DEF Fail
    <2>5. cut' \in SUBSET (0 .. TotalPages)
      BY <1>2, <2>4, Zenon DEF FaultTypeOK
    <2>6. faults' \in 0 .. MaxFaults
      BY <2>4 DEF OneMoreFault, FaultTypeOK
    <2>7. QED
      BY <2>1, <2>2, <2>3, <2>5, <2>6 DEF FaultTypeOK
  <1>5. CASE Crash(w)
    <2>1. BrokerTypeOK'
      BY <1>5, <1>3 DEF Crash, BrokerTypeOK
    <2>2. WorkerTypeOK' /\ Holding'
      BY <1>5, TypedSettle DEF Crash
    <2>3. CampaignTypeOK'
      BY <1>5 DEF Crash, CampaignTypeOK, campaignVars
    <2>4. cut' = cut \cup CutBy(w) /\ OneMoreFault
      BY <1>5 DEF Crash
    <2>5. cut' \in SUBSET (0 .. TotalPages)
      BY <1>2, <2>4, Zenon DEF FaultTypeOK
    <2>6. faults' \in 0 .. MaxFaults
      BY <2>4 DEF OneMoreFault, FaultTypeOK
    <2>7. QED
      BY <2>1, <2>2, <2>3, <2>5, <2>6 DEF FaultTypeOK
  <1>6. CASE LoseChannel(w)
    <2>1. BrokerTypeOK'
      BY <1>6, <1>3 DEF LoseChannel, BrokerTypeOK
    <2>2. WorkerTypeOK' /\ Holding'
      BY <1>6 DEF LoseChannel, WorkerTypeOK, Holding, Report
    <2>3. CampaignTypeOK' /\ FaultTypeOK'
      BY <1>6 DEF LoseChannel, OneMoreFault, CampaignTypeOK, FaultTypeOK,
                  campaignVars
    <2>4. QED
      BY <2>1, <2>2, <2>3
  <1>7. QED
    BY <1>4, <1>5, <1>6 DEF Fault

LEMMA TypedStutter == Typed /\ UNCHANGED vars => Typed'
  BY DEF Typed, TypeOK, CampaignTypeOK, BrokerTypeOK, WorkerTypeOK, FaultTypeOK,
         Holding, Report, vars, campaignVars, brokerVars, workerVars

LEMMA TypedNext == Typed /\ [Next]_vars => Typed'
  BY TypedEnvironment, TypedStatement, TypedDeliver, TypedFault, TypedStutter
     DEF Next, DeliverSome

\* The tracker's state always has its type: in particular total_pages is NULL or
\* the true number of pages, and the counters are always the sum of some ledger.
THEOREM TypeCorrect == Spec => []TypeOK
  <1>1. Typed => TypeOK
    BY DEF Typed
  <1>2. QED
    BY <1>1, TypedInit, TypedNext, PTL DEF Spec

-----------------------------------------------------------------------------
(* Completion.                                                             *)

\* The inductive strengthening: a handler about to write COMPLETED has
\* seen every page in the ledger, which only grows, and a handler that inserts
\* inserts a page of the audience, never the empty audience's page 0.
Full == PagesIn(ledger) = 1 .. TotalPages

Counting == {"insert", "recompute", "write", "total", "check"}

CompletionInv ==
    /\ PagesIn(ledger) \subseteq 1 .. TotalPages
    /\ \A w \in Workers : pc[w] \in Counting => Report(w).page # 0
    /\ \A w \in Workers : pc[w] = "finish" => Full
    /\ CompletionJustified

\* A step that leaves the ledger alone, writes COMPLETED only on a full ledger
\* and sends a handler to "finish" only on a full ledger is harmless.
LEMMA CompletionGoto ==
    ASSUME Typed, CompletionInv, NEW w \in Workers, NEW label \in PCs,
           Goto(w, label), UNCHANGED <<msg, ledger>>,
           label \in Counting => Report(w).page # 0,
           label = "finish" => Full,
           status' = "COMPLETED" => status = "COMPLETED" \/ Full
    PROVE  CompletionInv'
  <1>1. PagesIn(ledger)' = PagesIn(ledger)
    BY DEF PagesIn
  <1>2. pc' = [pc EXCEPT ![w] = label] /\ pc \in [Workers -> PCs]
    BY DEF Goto, Typed, TypeOK, WorkerTypeOK
  <1>3. \A v \in Workers : Report(v)' = Report(v)
    BY DEF Report
  <1>4. QED
    BY <1>1, <1>2, <1>3 DEF CompletionInv, CompletionJustified, Full

LEMMA CompletionSame ==
    ASSUME CompletionInv, UNCHANGED <<pc, msg, ledger>>,
           status' = "COMPLETED" => status = "COMPLETED"
    PROVE  CompletionInv'
  BY DEF CompletionInv, CompletionJustified, Full, Report, PagesIn

LEMMA CompletionSettle ==
    ASSUME Typed, CompletionInv, NEW w \in Workers, Settle(w),
           UNCHANGED <<ledger, status>>
    PROVE  CompletionInv'
  BY DEF CompletionInv, CompletionJustified, Full, Report, PagesIn, Settle, Goto,
         Counting, Typed, TypeOK, WorkerTypeOK

\* Inserting a page's row adds exactly that page to the ledger's pages.
LEMMA PagesAfterRecord ==
    ASSUME Typed, NEW w \in Workers, RecordPage(w)
    PROVE  PagesIn(ledger)' = PagesIn(ledger) \cup {Report(w).page}
  <1>1. LedgerRow(Report(w)).page = Report(w).page
    BY HeldReport, ReportFacts DEF RecordPage
  <1>2. CASE Report(w).page \in PagesIn(ledger)
    BY <1>2 DEF RecordPage, PagesIn
  <1>3. CASE Report(w).page \notin PagesIn(ledger)
    <2>1. ledger' = ledger \cup {LedgerRow(Report(w))}
      BY <1>3 DEF RecordPage
    <2>2. PagesIn(ledger') = PagesIn(ledger) \cup {LedgerRow(Report(w)).page}
      BY <2>1, PagesAfterInsert
    <2>3. QED
      BY <1>1, <2>2 DEF PagesIn
  <1>4. QED
    BY <1>2, <1>3

LEMMA CompletionStatement ==
    ASSUME Typed, CompletionInv, NEW w \in Workers, Statement(w)
    PROVE  CompletionInv'
  <1> USE DEF PCs, Counting
  <1>1. pc[w] # "idle" => Report(w) \in Reports
    BY HeldReport
  <1>2. CASE LoadCampaign(w)
    <2>1. Report(w) \in Reports
      BY <1>1, <1>2 DEF LoadCampaign, AfterLoad
    <2>2. Report(w).page = 0 => Full
      <3>1. Report(w).page = 0 => TotalPages = 0
        BY <2>1, ReportFacts
      <3>2. TotalPages = 0 => 1 .. TotalPages = {}
        OBVIOUS
      <3>3. QED
        BY <3>1, <3>2 DEF CompletionInv, Full
    <2>3. Report(w).page = 0 => Report(w).completed
      BY <2>1, ReportFacts, Zenon
    <2>4. PICK label \in PCs : /\ Goto(w, label)
                               /\ label \in Counting => Report(w).page # 0
                               /\ label = "finish" => Full
      BY <1>2, <2>2, <2>3 DEF LoadCampaign, AfterLoad
    <2>5. UNCHANGED <<msg, ledger, status>>
      BY <1>2 DEF LoadCampaign, AfterLoad, campaignVars
    <2>6. QED
      BY <2>4, <2>5, CompletionGoto
  <1>3. CASE RecordPage(w)
    <2>1. Report(w) \in Reports /\ Report(w).page # 0
      BY <1>1, <1>3 DEF RecordPage, CompletionInv
    <2>2. Report(w).page \in 1 .. TotalPages
      BY <2>1, ReportFacts
    <2>3. PagesIn(ledger)' = PagesIn(ledger) \cup {Report(w).page}
      BY <1>3, PagesAfterRecord
    <2>4. UNCHANGED <<status, msg>>
      BY <1>3 DEF RecordPage
    <2>5. Full => Full'
      BY <2>2, <2>3 DEF Full
    <2>6. pc' = [pc EXCEPT ![w] = "recompute"] /\ pc \in [Workers -> PCs]
      BY <1>3 DEF RecordPage, Goto, Typed, TypeOK, WorkerTypeOK
    <2>7. \A v \in Workers : Report(v)' = Report(v)
      BY <2>4 DEF Report
    <2>8. (PagesIn(ledger) \subseteq 1 .. TotalPages)'
      BY <2>2, <2>3 DEF CompletionInv
    <2>9. CompletionJustified'
      BY <2>4, <2>5 DEF CompletionInv, CompletionJustified, Full
    <2>10. QED
      BY <1>3, <2>1, <2>5, <2>6, <2>7, <2>8, <2>9 DEF CompletionInv, RecordPage
  <1>4. CASE RecomputeCounters(w) \/ TakeSnapshot(w) \/ WriteSnapshot(w)
    <2>1. pc[w] \in Counting /\ UNCHANGED <<msg, ledger, status>>
      BY <1>4 DEF RecomputeCounters, TakeSnapshot, WriteSnapshot, campaignVars
    <2>2. PICK label \in PCs : Goto(w, label) /\ label # "finish"
      BY <1>4 DEF RecomputeCounters, TakeSnapshot, WriteSnapshot, AfterRecompute
    <2>3. QED
      BY <2>1, <2>2, CompletionGoto DEF CompletionInv
  <1>5. CASE RecordTotalPages(w)
    BY <1>5, CompletionGoto DEF RecordTotalPages, CompletionInv
  <1>6. CASE CompleteIfAllPagesReported(w)
    <2>1. AllPagesReported => Full
      BY CountingIsEnough DEF Typed, TypeOK, CampaignTypeOK, Full
    <2>2. UNCHANGED <<msg, ledger, status>>
      BY <1>6 DEF CompleteIfAllPagesReported, campaignVars
    <2>3. PICK label \in {"finish", "ack"} : Goto(w, label) /\ (label = "finish" => Full)
      BY <1>6, <2>1 DEF CompleteIfAllPagesReported
    <2>4. QED
      BY <2>2, <2>3, CompletionGoto
  <1>7. CASE TransitionToCompleted(w)
    <2>1. Full /\ UNCHANGED <<msg, ledger>>
      BY <1>7 DEF TransitionToCompleted, TransitionAffectsRow, CompletionInv
    <2>2. PICK label \in {"winner", "ack"} : Goto(w, label)
      BY <1>7 DEF TransitionToCompleted, TransitionAffectsRow
    <2>3. QED
      BY <2>1, <2>2, CompletionGoto
  <1>8. CASE SelectAbWinner(w)
    BY <1>8, CompletionGoto DEF SelectAbWinner
  <1>9. CASE Ack(w)
    BY <1>9, CompletionSettle DEF Ack, campaignVars
  <1>10. QED
    BY <1>2, <1>3, <1>4, <1>5, <1>6, <1>7, <1>8, <1>9 DEF Statement

LEMMA CompletionInit == Init => CompletionInv
  BY PagesAfterInsert DEF Init, CompletionInv, CompletionJustified, Counting

LEMMA CompletionNext == Typed /\ CompletionInv /\ [Next]_vars => CompletionInv'
  <1> SUFFICES ASSUME Typed, CompletionInv, [Next]_vars PROVE CompletionInv'
    OBVIOUS
  <1>1. CASE Environment
    <2>1. UNCHANGED <<pc, msg, ledger>>
      BY <1>1 DEF Environment, Publish, Pause, Resume, Stop, OwnerSets,
                  RemoveCampaign, campaignVars, workerVars
    <2>2. status' = "COMPLETED" => status = "COMPLETED"
      BY <1>1 DEF Environment, Publish, Pause, Resume, Stop, OwnerSets,
                  RemoveCampaign, campaignVars
    <2>3. QED
      BY <2>1, <2>2, CompletionSame
  <1>2. ASSUME NEW w \in Workers, DeliverSome(w) PROVE CompletionInv'
    <2>1. PICK m \in Message : Deliver(w, m)
      BY <1>2 DEF DeliverSome
    <2>2. UNCHANGED <<ledger, status>> /\ pc' = [pc EXCEPT ![w] = "load"]
      BY <2>1 DEF Deliver, Goto, campaignVars
    <2>3. \A v \in Workers : v # w => Report(v)' = Report(v)
      BY <2>1 DEF Deliver, Report, Typed, TypeOK, WorkerTypeOK
    <2>4. pc \in [Workers -> PCs] /\ PagesIn(ledger)' = PagesIn(ledger)
      BY <2>2 DEF Typed, TypeOK, WorkerTypeOK, PagesIn
    <2>5. QED
      BY <2>2, <2>3, <2>4
         DEF CompletionInv, CompletionJustified, Full, Counting
  <1>3. ASSUME NEW w \in Workers, Fail(w) \/ Crash(w) PROVE CompletionInv'
    BY <1>3, CompletionSettle DEF Fail, Crash, campaignVars
  <1>4. ASSUME NEW w \in Workers, LoseChannel(w) PROVE CompletionInv'
    BY <1>4, CompletionSame DEF LoseChannel, campaignVars
  <1>5. CASE UNCHANGED vars
    BY <1>5, CompletionSame DEF vars, campaignVars, workerVars
  <1>6. QED
    BY <1>1, <1>2, <1>3, <1>4, <1>5, CompletionStatement DEF Next, Fault

\* A campaign becomes COMPLETED only when every page of its audience is in the
\* ledger, for every interleaving of record() and every fault.
THEOREM CompletionIsJustified == Spec => []CompletionJustified
  <1>1. CompletionInv => CompletionJustified
    BY DEF CompletionInv
  <1>2. QED
    BY <1>1, TypedInit, TypedNext, CompletionInit, CompletionNext, PTL DEF Spec

-----------------------------------------------------------------------------
(* The A/B winner.                                                         *)

\* At most one handler is about to select the winner: the one whose UPDATE found
\* the campaign not COMPLETED, which no later UPDATE can.
WinnerInv ==
    /\ WinnerSelectedOnce
    /\ \A w \in Workers : pc[w] = "winner" => status = "COMPLETED" /\ winnerRuns = 0
    /\ \A v, w \in Workers : pc[v] = "winner" /\ pc[w] = "winner" => v = w

LEMMA WinnerGoto ==
    ASSUME Typed, WinnerInv, NEW w \in Workers, NEW label \in PCs \ {"winner"},
           Goto(w, label), UNCHANGED winnerRuns,
           status = "COMPLETED" => status' = "COMPLETED"
    PROVE  WinnerInv'
  BY DEF WinnerInv, WinnerSelectedOnce, Goto, Typed, TypeOK, WorkerTypeOK

LEMMA WinnerStatement ==
    ASSUME Typed, WinnerInv, NEW w \in Workers, Statement(w)
    PROVE  WinnerInv'
  <1> USE DEF PCs
  <1>1. CASE LoadCampaign(w) \/ CompleteIfAllPagesReported(w)
    <2>1. PICK label \in PCs \ {"winner"} : Goto(w, label)
      BY <1>1 DEF LoadCampaign, AfterLoad, CompleteIfAllPagesReported
    <2>2. UNCHANGED <<winnerRuns, status>>
      BY <1>1 DEF LoadCampaign, AfterLoad, CompleteIfAllPagesReported, campaignVars
    <2>3. QED
      BY <2>1, <2>2, WinnerGoto
  <1>2. CASE RecordPage(w) \/ RecordTotalPages(w)
    <2>1. PICK label \in PCs \ {"winner"} : Goto(w, label)
      BY <1>2 DEF RecordPage, RecordTotalPages
    <2>2. QED
      BY <1>2, <2>1, WinnerGoto DEF RecordPage, RecordTotalPages
  <1>3. CASE RecomputeCounters(w) \/ TakeSnapshot(w) \/ WriteSnapshot(w)
    <2>1. PICK label \in PCs \ {"winner"} : Goto(w, label)
      BY <1>3 DEF RecomputeCounters, TakeSnapshot, WriteSnapshot, AfterRecompute
    <2>2. UNCHANGED <<winnerRuns, status>>
      BY <1>3 DEF RecomputeCounters, TakeSnapshot, WriteSnapshot, campaignVars
    <2>3. QED
      BY <2>1, <2>2, WinnerGoto
  <1>4. CASE TransitionToCompleted(w)
    <2>1. CASE status = "COMPLETED"
      <3>1. Goto(w, "ack")
        BY <1>4, <2>1 DEF TransitionToCompleted, TransitionAffectsRow
      <3>2. QED
        BY <1>4, <3>1, WinnerGoto DEF TransitionToCompleted, TransitionAffectsRow
    <2>2. CASE status # "COMPLETED"
      <3>1. winnerRuns = 0 /\ \A v \in Workers : pc[v] # "winner"
        BY <2>2 DEF WinnerInv, WinnerSelectedOnce, Typed, TypeOK, CampaignTypeOK
      <3>2. winnerRuns' = 0 /\ status' = "COMPLETED"
        BY <1>4, <3>1 DEF TransitionToCompleted, TransitionAffectsRow
      <3>3. \A v \in Workers : v # w => pc'[v] # "winner"
        BY <1>4, <3>1 DEF TransitionToCompleted, TransitionAffectsRow, Goto, Typed, TypeOK, WorkerTypeOK
      <3>4. QED
        BY <3>2, <3>3 DEF WinnerInv, WinnerSelectedOnce
    <2>3. QED
      BY <2>1, <2>2
  <1>5. CASE SelectAbWinner(w)
    <2>1. /\ status = "COMPLETED" /\ winnerRuns = 0
          /\ \A v \in Workers : pc[v] = "winner" => v = w
      BY <1>5 DEF SelectAbWinner, WinnerInv
    <2>2. /\ status' = "COMPLETED" /\ winnerRuns' \in {0, 1}
          /\ \A v \in Workers : pc'[v] # "winner"
      BY <1>5, <2>1 DEF SelectAbWinner, Goto, Typed, TypeOK, WorkerTypeOK
    <2>3. QED
      BY <2>2 DEF WinnerInv, WinnerSelectedOnce
  <1>6. CASE Ack(w)
    BY <1>6, WinnerGoto DEF Ack, Settle, campaignVars
  <1>7. QED
    BY <1>1, <1>2, <1>3, <1>4, <1>5, <1>6 DEF Statement

LEMMA WinnerNext == Typed /\ WinnerInv /\ [Next]_vars => WinnerInv'
  <1> SUFFICES ASSUME Typed, WinnerInv, [Next]_vars PROVE WinnerInv'
    OBVIOUS
  <1>1. CASE Environment
    <2>1. UNCHANGED <<pc, winnerRuns>>
      BY <1>1 DEF Environment, Publish, Pause, Resume, Stop, OwnerSets,
                  RemoveCampaign, campaignVars, workerVars
    <2>2. status = "COMPLETED" => status' = "COMPLETED"
      BY <1>1 DEF Environment, Publish, Pause, Resume, Stop, OwnerSets,
                  RemoveCampaign, campaignVars
    <2>3. QED
      BY <2>1, <2>2 DEF WinnerInv, WinnerSelectedOnce
  <1>2. ASSUME NEW w \in Workers, DeliverSome(w) PROVE WinnerInv'
    BY <1>2, WinnerGoto DEF DeliverSome, Deliver, campaignVars, PCs
  <1>3. ASSUME NEW w \in Workers, Fail(w) \/ Crash(w) PROVE WinnerInv'
    BY <1>3, WinnerGoto DEF Fail, Crash, Settle, campaignVars, PCs
  <1>4. ASSUME NEW w \in Workers, LoseChannel(w) PROVE WinnerInv'
    BY <1>4 DEF LoseChannel, campaignVars, WinnerInv, WinnerSelectedOnce
  <1>5. CASE UNCHANGED vars
    BY <1>5 DEF vars, campaignVars, workerVars, WinnerInv, WinnerSelectedOnce
  <1>6. QED
    BY <1>1, <1>2, <1>3, <1>4, <1>5, WinnerStatement DEF Next, Fault

\* The A/B winner is written at most once, and only after completion, however
\* many handlers find all pages reported at the same time.
THEOREM WinnerOnce == Spec => []WinnerSelectedOnce
  <1>1. Init => WinnerInv
    BY DEF Init, WinnerInv, WinnerSelectedOnce
  <1>2. WinnerInv => WinnerSelectedOnce
    BY DEF WinnerInv
  <1>3. QED
    BY <1>1, <1>2, TypedInit, TypedNext, WinnerNext, PTL DEF Spec

-----------------------------------------------------------------------------
(* No report is lost.                                                      *)

\* A report that needs no more copies.  Both the ledger's pages and the two ends
\* of a campaign are for ever.
Done(r) == r.page \in PagesIn(ledger) \/ status = "COMPLETED" \/ deleted

\* The strengthening: past the insert a handler's report needs no more copies,
\* so acknowledging it loses nothing, and an idle handler owns no copy.
Recorded == {"recompute", "write", "total", "check", "winner", "ack"}

LossInv ==
    /\ \A w \in Workers : pc[w] \in Recorded => Done(Report(w))
    /\ \A w \in Workers : owned[w] => pc[w] # "idle"
    /\ NoReportLost

LEMMA DoneForever == Typed /\ [Next]_vars => \A r : Done(r) => Done(r)'
  <1> SUFFICES ASSUME Typed, [Next]_vars, NEW r, Done(r) PROVE Done(r)'
    OBVIOUS
  <1>1. ledger \subseteq ledger' \/ UNCHANGED ledger
    BY DEF Next, Environment, Publish, Pause, Resume, Stop, OwnerSets,
           RemoveCampaign, DeliverSome, Deliver, Fault, Fail, Crash, LoseChannel,
           Statement, LoadCampaign, AfterLoad, RecordPage, RecomputeCounters, TakeSnapshot,
           WriteSnapshot, RecordTotalPages, CompleteIfAllPagesReported,
           TransitionToCompleted, SelectAbWinner, Ack, vars, campaignVars
  <1>2. status = "COMPLETED" => status' = "COMPLETED"
    BY DEF Next, Environment, Publish, Pause, Resume, Stop, OwnerSets,
           RemoveCampaign, DeliverSome, Deliver, Fault, Fail, Crash, LoseChannel,
           Statement, LoadCampaign, AfterLoad, RecordPage, RecomputeCounters, TakeSnapshot,
           WriteSnapshot, RecordTotalPages, CompleteIfAllPagesReported,
           TransitionToCompleted, SelectAbWinner, Ack, vars, campaignVars
  <1>3. deleted => deleted'
    BY DEF Next, Environment, Publish, Pause, Resume, Stop, OwnerSets,
           RemoveCampaign, DeliverSome, Deliver, Fault, Fail, Crash, LoseChannel,
           Statement, LoadCampaign, AfterLoad, RecordPage, RecomputeCounters, TakeSnapshot,
           WriteSnapshot, RecordTotalPages, CompleteIfAllPagesReported,
           TransitionToCompleted, SelectAbWinner, Ack, vars, campaignVars
  <1>4. PagesIn(ledger) \subseteq PagesIn(ledger')
    BY <1>1 DEF PagesIn
  <1>5. QED
    BY <1>2, <1>3, <1>4, Zenon DEF Done, PagesIn

\* Every statement but the acknowledgement leaves the copies alone.
LEMMA LossStatement ==
    ASSUME Typed, LossInv, NEW w \in Workers, Statement(w), pc[w] # "ack",
           \A r : Done(r) => Done(r)'
    PROVE  LossInv'
  <1> USE DEF Recorded
  <1>1. /\ UNCHANGED <<tracked, dead, published, msg, owned>>
        /\ pc[w] # "idle"
    BY DEF Statement, LoadCampaign, AfterLoad, RecordPage, RecomputeCounters, TakeSnapshot,
           WriteSnapshot, RecordTotalPages, CompleteIfAllPagesReported,
           TransitionToCompleted, SelectAbWinner, Ack, brokerVars
  <1>2. \A v \in Workers : Report(v)' = Report(v)
    BY <1>1 DEF Report
  <1>3. pc'[w] \in Recorded => Done(Report(w))'
    <2>1. CASE LoadCampaign(w)
      BY <2>1 DEF LoadCampaign, AfterLoad, Goto, Done, Typed, TypeOK, WorkerTypeOK,
                  campaignVars, PagesIn, Report
    <2>2. CASE RecordPage(w)
      <3>1. Report(w).page \in PagesIn(ledger)'
        BY <2>2, PagesAfterRecord
      <3>2. QED
        BY <1>2, <3>1 DEF Done
    <2>3. CASE pc[w] \in Recorded
      <3>1. Done(Report(w))
        BY <2>3 DEF LossInv
      <3>2. QED
        BY <1>1, <3>1 DEF Report
    <2>4. CASE TransitionToCompleted(w)
      BY <2>4 DEF TransitionToCompleted, TransitionAffectsRow, Done
    <2>5. QED
      BY <2>1, <2>2, <2>3, <2>4
         DEF Statement, RecomputeCounters, TakeSnapshot, WriteSnapshot,
             RecordTotalPages, CompleteIfAllPagesReported, SelectAbWinner, Ack
  <1>4. PICK label \in PCs \ {"idle"} : pc' = [pc EXCEPT ![w] = label]
    BY DEF Statement, LoadCampaign, AfterLoad, RecordPage, RecomputeCounters, TakeSnapshot,
           WriteSnapshot, RecordTotalPages, CompleteIfAllPagesReported,
           TransitionToCompleted, SelectAbWinner, Ack, AfterRecompute, Goto, PCs
  <1>5. ASSUME NEW v \in Workers, pc'[v] \in Recorded PROVE Done(Report(v))'
    <2>1. CASE v = w
      BY <1>3, <1>5, <2>1
    <2>2. CASE v # w
      <3>1. Done(Report(v))
        BY <1>4, <1>5, <2>2 DEF LossInv, Typed, TypeOK, WorkerTypeOK
      <3>2. QED
        BY <1>1, <3>1 DEF Report
    <2>3. QED
      BY <2>1, <2>2
  <1>6. ASSUME NEW v \in Workers, owned'[v] PROVE pc'[v] # "idle"
    BY <1>1, <1>4, <1>6 DEF LossInv, Typed, TypeOK, WorkerTypeOK
  <1>7. ASSUME NEW r \in Reports, Outstanding(r) PROVE Outstanding(r)'
    BY <1>1, <1>2, <1>7 DEF Outstanding, Waiting
  <1>8. NoReportLost'
    <2>1. ASSUME NEW r \in Reports, published'[r] > 0
          PROVE  Outstanding(r)' \/ Done(r)'
      <3>1. Outstanding(r) \/ Done(r)
        BY <1>1, <2>1 DEF LossInv, NoReportLost, Done
      <3>2. QED
        BY <1>7, <3>1
    <2>2. QED
      BY <2>1 DEF NoReportLost, Done
  <1>9. QED
    BY <1>5, <1>6, <1>8 DEF LossInv

\* A handler that settles may do so when the report it owned is still
\* outstanding or needs no more copies.
LEMMA LossSettle ==
    ASSUME Typed, LossInv, NEW w \in Workers, Settle(w), UNCHANGED published,
           \A r : Done(r) => Done(r)',
           Waiting(tracked) \subseteq Waiting(tracked'),
           Waiting(dead) \subseteq Waiting(dead'),
           owned[w] => \/ Done(Report(w))
                       \/ \E m \in Waiting(tracked') \cup Waiting(dead') :
                              m.body = Report(w)
    PROVE  LossInv'
  <1>1. /\ pc' = [pc EXCEPT ![w] = "idle"]
        /\ msg' = [msg EXCEPT ![w] = NoMessage]
        /\ owned' = [owned EXCEPT ![w] = FALSE]
        /\ pc \in [Workers -> PCs] /\ owned \in [Workers -> BOOLEAN]
        /\ msg \in [Workers -> Message \cup {NoMessage}]
    BY DEF Settle, Goto, Typed, TypeOK, WorkerTypeOK
  <1>2. \A v \in Workers : v # w => Report(v)' = Report(v)
    BY <1>1 DEF Report
  <1>3. ASSUME NEW v \in Workers, pc'[v] \in Recorded PROVE Done(Report(v))'
    <2>1. v # w /\ pc[v] \in Recorded
      BY <1>1, <1>3 DEF Recorded
    <2>2. Done(Report(v)) /\ msg'[v] = msg[v]
      BY <1>1, <2>1 DEF LossInv
    <2>3. QED
      BY <2>2 DEF Report
  <1>4. ASSUME NEW v \in Workers, owned'[v] PROVE pc'[v] # "idle"
    BY <1>1, <1>4 DEF LossInv
  <1>5. ASSUME NEW r \in Reports, Outstanding(r)
        PROVE  Outstanding(r)' \/ Done(r)'
    <2>1. CASE \E m \in Waiting(tracked) \cup Waiting(dead) : m.body = r
      BY <2>1 DEF Outstanding, Waiting
    <2>2. CASE \E v \in Workers : v # w /\ owned[v] /\ Report(v) = r
      BY <1>1, <1>2, <2>2 DEF Outstanding
    <2>3. CASE owned[w] /\ Report(w) = r
      BY <2>3 DEF Outstanding, Waiting
    <2>4. QED
      BY <1>5, <2>1, <2>2, <2>3 DEF Outstanding
  <1>6. NoReportLost'
    <2>1. ASSUME NEW r \in Reports, published'[r] > 0
          PROVE  Outstanding(r)' \/ Done(r)'
      <3>1. Outstanding(r) \/ Done(r)
        BY <2>1 DEF LossInv, NoReportLost, Done
      <3>2. QED
        BY <1>5, <3>1
    <2>2. QED
      BY <2>1 DEF NoReportLost, Done
  <1>7. QED
    BY <1>3, <1>4, <1>6 DEF LossInv
\* Nothing but the copies changes: enough that every outstanding report still is.
LEMMA LossKeep ==
    ASSUME LossInv, UNCHANGED <<pc, msg>>,
           \A r : Done(r) => Done(r)',
           \A w \in Workers : owned'[w] => owned[w],
           \A r \in Reports : Outstanding(r) => Outstanding(r)',
           \A r \in Reports : published'[r] > 0 =>
                                published[r] > 0 \/ Outstanding(r)'
    PROVE  LossInv'
  <1>1. \A w \in Workers : pc'[w] \in Recorded => Done(Report(w))'
    BY DEF LossInv, Report
  <1>2. \A w \in Workers : owned'[w] => pc'[w] # "idle"
    BY DEF LossInv
  <1>3. NoReportLost'
    BY DEF LossInv, NoReportLost, Done
  <1>4. QED
    BY <1>1, <1>2, <1>3 DEF LossInv

LEMMA LossEnvironment ==
    ASSUME Typed, LossInv, Environment, \A r : Done(r) => Done(r)'
    PROVE  LossInv'
  <1>1. ASSUME NEW r \in Reports, Publish(r) PROVE LossInv'
    <2>1. FirstCopy(r) \in Message /\ FirstCopy(r).body = r
      BY FirstCopyType DEF Message
    <2>2. Waiting(tracked') = Waiting(tracked) \cup {FirstCopy(r)}
      BY <1>1, <2>1, WaitingAfter DEF Publish, Typed, TypeOK, BrokerTypeOK
    <2>3. UNCHANGED <<dead, pc, msg, owned>>
      BY <1>1 DEF Publish, workerVars
    <2>4. \A s \in Reports : Outstanding(s) => Outstanding(s)'
      BY <2>2, <2>3 DEF Outstanding, Report, Waiting
    <2>5. Outstanding(r)'
      BY <2>1, <2>2 DEF Outstanding, Waiting
    <2>6. \A s \in Reports : s # r => published'[s] = published[s]
      BY <1>1 DEF Publish, Typed, TypeOK, BrokerTypeOK
    <2>7. QED
      BY <2>3, <2>4, <2>5, <2>6, LossKeep
  <1>2. CASE Pause \/ Resume \/ Stop \/ RemoveCampaign
    <2>1. UNCHANGED <<tracked, dead, published, pc, msg, owned>>
      BY <1>2 DEF Pause, Resume, Stop, OwnerSets, RemoveCampaign, brokerVars,
                  workerVars
    <2>2. \A r \in Reports : Outstanding(r) => Outstanding(r)'
      BY <2>1 DEF Outstanding, Report, Waiting
    <2>3. QED
      BY <2>1, <2>2, LossKeep
  <1>3. QED
    BY <1>1, <1>2 DEF Environment

\* A delivered copy passes from the queue to the handler that owns it.
LEMMA LossDeliver ==
    ASSUME Typed, LossInv, NEW w \in Workers, NEW m \in Message, Deliver(w, m),
           \A r : Done(r) => Done(r)'
    PROVE  LossInv'
  <1>1. /\ pc[w] = "idle" /\ pc' = [pc EXCEPT ![w] = "load"]
        /\ msg' = [msg EXCEPT ![w] = m]
        /\ owned' = [owned EXCEPT ![w] = TRUE]
        /\ UNCHANGED <<dead, published>>
        /\ pc \in [Workers -> PCs] /\ owned \in [Workers -> BOOLEAN]
        /\ msg \in [Workers -> Message \cup {NoMessage}]
    BY DEF Deliver, Goto, Typed, TypeOK, WorkerTypeOK
  <1>2. Waiting(tracked) \subseteq Waiting(tracked') \cup {m}
    BY WaitingAfter DEF Deliver, Typed, TypeOK, BrokerTypeOK
  <1>3. ~owned[w]
    BY <1>1 DEF LossInv
  <1>4. ASSUME NEW v \in Workers, pc'[v] \in Recorded PROVE Done(Report(v))'
    <2>1. v # w /\ pc[v] \in Recorded
      BY <1>1, <1>4 DEF Recorded
    <2>2. Done(Report(v)) /\ msg'[v] = msg[v]
      BY <1>1, <2>1 DEF LossInv
    <2>3. QED
      BY <2>2 DEF Report
  <1>5. ASSUME NEW v \in Workers, owned'[v] PROVE pc'[v] # "idle"
    BY <1>1, <1>5 DEF LossInv
  <1>6. ASSUME NEW r \in Reports, Outstanding(r) PROVE Outstanding(r)'
    <2>1. CASE m.body = r
      <3>1. owned'[w] /\ msg'[w].body = r
        BY <1>1, <2>1
      <3>2. QED
        BY <3>1 DEF Outstanding, Report
    <2>2. CASE m.body # r /\ \E n \in Waiting(tracked) \cup Waiting(dead) : n.body = r
      <3>1. PICK n \in Waiting(tracked') \cup Waiting(dead') : n.body = r
        BY <1>1, <1>2, <2>2
      <3>2. QED
        BY <3>1 DEF Outstanding, Waiting
    <2>3. CASE \E v \in Workers : owned[v] /\ Report(v) = r
      <3>1. PICK v \in Workers : v # w /\ owned[v] /\ Report(v) = r
        BY <1>3, <2>3
      <3>2. owned'[v] /\ msg'[v].body = r
        BY <1>1, <3>1 DEF Report
      <3>3. QED
        BY <3>2 DEF Outstanding, Report
    <2>4. QED
      BY <1>6, <2>1, <2>2, <2>3 DEF Outstanding
  <1>7. NoReportLost'
    BY <1>1, <1>6 DEF LossInv, NoReportLost, Done
  <1>8. QED
    BY <1>4, <1>5, <1>7 DEF LossInv

LEMMA LossFault ==
    ASSUME Typed, LossInv, NEW w \in Workers, Fault(w),
           \A r : Done(r) => Done(r)'
    PROVE  LossInv'
  <1> USE DEF Typed, TypeOK, BrokerTypeOK
  <1>1. pc[w] # "idle" /\ msg[w] \in Message
    BY HeldReport DEF Fault, Fail, Crash, LoseChannel
  <1>2. Waiting(Add(tracked, msg[w])) = Waiting(tracked) \cup {msg[w]}
    BY <1>1, WaitingAfter
  <1>3. CASE Fail(w)
    <2>1. CASE owned[w]
      <3>1. /\ tracked' = QueueAfterNack(tracked, msg[w])
            /\ dead' = DeadAfterNack(dead, msg[w])
            /\ Settle(w) /\ UNCHANGED published
        BY <1>3, <2>1 DEF Fail
      <3>2. /\ Waiting(tracked) \subseteq Waiting(tracked')
            /\ Waiting(dead) \subseteq Waiting(dead')
            /\ \E n \in Waiting(tracked') \cup Waiting(dead') :
                   n.body = msg[w].body
        BY <1>1, <3>1, NackKeeps DEF Message
      <3>3. QED
        BY <3>1, <3>2, LossSettle DEF Report
    <2>2. CASE ~owned[w]
      <3>1. UNCHANGED <<tracked, dead, published>> /\ Settle(w)
        BY <1>3, <2>2 DEF Fail
      <3>2. QED
        BY <2>2, <3>1, LossSettle
    <2>3. QED
      BY <2>1, <2>2
  <1>4. CASE Crash(w)
    <2>1. /\ UNCHANGED <<dead, published>> /\ Settle(w)
          /\ tracked' = IF owned[w] THEN Add(tracked, msg[w]) ELSE tracked
      BY <1>4 DEF Crash
    <2>2. /\ Waiting(tracked) \subseteq Waiting(tracked')
          /\ owned[w] => msg[w] \in Waiting(tracked')
      BY <1>2, <2>1
    <2>3. QED
      BY <2>1, <2>2, LossSettle DEF Report
  <1>5. CASE LoseChannel(w)
    <2>1. /\ UNCHANGED <<dead, published, pc, msg>>
          /\ owned' = [owned EXCEPT ![w] = FALSE]
          /\ Waiting(tracked') = Waiting(tracked) \cup {msg[w]}
          /\ owned \in [Workers -> BOOLEAN]
      BY <1>2, <1>5 DEF LoseChannel, WorkerTypeOK
    <2>2. ASSUME NEW r \in Reports, Outstanding(r) PROVE Outstanding(r)'
      <3>1. CASE msg[w].body = r
        BY <2>1, <3>1 DEF Outstanding, Waiting
      <3>2. CASE msg[w].body # r /\ \E v \in Workers : owned[v] /\ Report(v) = r
        <4>1. PICK v \in Workers : v # w /\ owned[v] /\ msg[v].body = r
          BY <3>2 DEF Report
        <4>2. owned'[v] /\ msg'[v].body = r
          BY <2>1, <4>1
        <4>3. QED
          BY <4>2 DEF Outstanding, Report
      <3>3. CASE \E n \in Waiting(tracked) \cup Waiting(dead) : n.body = r
        BY <2>1, <3>3 DEF Outstanding, Waiting
      <3>4. QED
        BY <2>2, <3>1, <3>2, <3>3 DEF Outstanding
    <2>3. \A v \in Workers : owned'[v] => owned[v]
      BY <2>1
    <2>4. QED
      BY <2>1, <2>2, <2>3, LossKeep
  <1>6. QED
    BY <1>3, <1>4, <1>5 DEF Fault

LEMMA LossNext == Typed /\ LossInv /\ [Next]_vars => LossInv'
  <1> SUFFICES ASSUME Typed, LossInv, [Next]_vars PROVE LossInv'
    OBVIOUS
  <1>1. \A r : Done(r) => Done(r)'
    BY DoneForever
  <1>2. ASSUME NEW w \in Workers, DeliverSome(w) PROVE LossInv'
    BY <1>1, <1>2, LossDeliver DEF DeliverSome
  <1>3. ASSUME NEW w \in Workers, Statement(w) PROVE LossInv'
    <2>1. CASE pc[w] = "ack"
      <3>1. Settle(w) /\ UNCHANGED <<tracked, dead, published>>
        BY <1>3, <2>1
           DEF Statement, LoadCampaign, AfterLoad, RecordPage, RecomputeCounters,
               TakeSnapshot, WriteSnapshot, RecordTotalPages,
               CompleteIfAllPagesReported, TransitionToCompleted,
               SelectAbWinner, Ack, brokerVars
      <3>2. Done(Report(w))
        BY <2>1 DEF LossInv, Recorded
      <3>3. QED
        BY <1>1, <3>1, <3>2, LossSettle
    <2>2. QED
      BY <1>1, <1>3, <2>1, LossStatement
  <1>4. CASE UNCHANGED vars
    <2>1. UNCHANGED <<tracked, dead, published, pc, msg, owned>>
      BY <1>4 DEF vars, brokerVars, workerVars
    <2>2. \A r \in Reports : Outstanding(r) => Outstanding(r)'
      BY <2>1 DEF Outstanding, Report, Waiting
    <2>3. QED
      BY <1>1, <2>1, <2>2, LossKeep
  <1>5. QED
    BY <1>1, <1>2, <1>3, <1>4, LossEnvironment, LossFault DEF Next

\* A published report is never lost between the queue, the handlers, the dead
\* letters and the ledger, for any number of faults at any statement.
THEOREM NoReportIsLost == Spec => []NoReportLost
  <1>1. Init => LossInv
    BY DEF Init, LossInv, NoReportLost, Recorded
  <1>2. LossInv => NoReportLost
    BY DEF LossInv
  <1>3. QED
    BY <1>1, <1>2, TypedInit, TypedNext, LossNext, PTL DEF Spec
-----------------------------------------------------------------------------
(* The counters.                                                           *)

\* What a recompute has read is still in the ledger, which only grows.
CountersInv ==
    /\ CountersAccountForPages
    /\ \A w \in Workers : snap[w] \subseteq ledger

Summing == {"recompute", "write"}

\* Pages left out so far stay excused when every handler that was to sum them
\* still is, or has been cut short.
LEMMA CountersKeep ==
    ASSUME CountersInv, UNCHANGED <<counters, ledger>>, cut \subseteq cut',
           \A w \in Workers : pc[w] \in Summing =>
               \/ pc'[w] \in Summing /\ msg'[w] = msg[w]
               \/ Report(w).page \in cut',
           \A w \in Workers : snap'[w] \subseteq ledger
    PROVE  CountersInv'
  <1>1. PICK missing \in SUBSET ledger :
            /\ counters = CountersOf(ledger \ missing)
            /\ \A e \in missing : e.page \in cut \/ Recomputing(e.page)
    BY DEF CountersInv, CountersAccountForPages
  <1>2. ASSUME NEW e \in missing PROVE e.page \in cut' \/ Recomputing(e.page)'
    <2>1. CASE e.page \in cut
      BY <2>1
    <2>2. CASE Recomputing(e.page)
      <3>1. PICK w \in Workers : pc[w] \in Summing /\ Report(w).page = e.page
        BY <2>2 DEF Recomputing, Summing
      <3>2. CASE pc'[w] \in Summing /\ msg'[w] = msg[w]
        BY <3>1, <3>2 DEF Recomputing, Summing, Report
      <3>3. CASE Report(w).page \in cut'
        BY <3>1, <3>3
      <3>4. QED
        BY <3>1, <3>2, <3>3
    <2>3. QED
      BY <1>1, <2>1, <2>2
  <1>3. missing \in SUBSET ledger' /\ counters' = CountersOf(ledger' \ missing)
    BY <1>1
  <1>4. CountersAccountForPages'
    BY <1>2, <1>3 DEF CountersAccountForPages
  <1>5. QED
    BY <1>4 DEF CountersInv

\* A step that moves only handlers that sum nothing keeps the counters right.
LEMMA CountersElsewhere ==
    ASSUME Typed, CountersInv, NEW w \in Workers, NEW label,
           pc[w] \notin Summing, Goto(w, label),
           UNCHANGED <<counters, ledger, cut>>,
           \A v \in Workers : v # w => msg'[v] = msg[v],
           \A v \in Workers : snap'[v] \subseteq ledger
    PROVE  CountersInv'
  <1>1. \A v \in Workers : pc[v] \in Summing => pc'[v] \in Summing /\ msg'[v] = msg[v]
    BY DEF Goto, Typed, TypeOK, WorkerTypeOK
  <1>2. QED
    BY <1>1, CountersKeep

\* A handler that stops while it sums leaves its page among those cut short.
LEMMA CountersSettle ==
    ASSUME Typed, CountersInv, NEW w \in Workers, Settle(w),
           UNCHANGED <<counters, ledger>>, cut' = cut \cup CutBy(w)
    PROVE  CountersInv'
  <1>1. /\ pc' = [pc EXCEPT ![w] = "idle"]
        /\ msg' = [msg EXCEPT ![w] = NoMessage]
        /\ snap' = [snap EXCEPT ![w] = {}]
    BY DEF Settle, Goto
  <1>2. ASSUME NEW v \in Workers, pc[v] \in Summing
        PROVE  \/ pc'[v] \in Summing /\ msg'[v] = msg[v]
               \/ Report(v).page \in cut'
    <2>1. CASE v = w
      BY <1>2, <2>1 DEF CutBy, Summing
    <2>2. CASE v # w
      BY <1>1, <1>2, <2>2 DEF Typed, TypeOK, WorkerTypeOK
    <2>3. QED
      BY <2>1, <2>2
  <1>3. \A v \in Workers : snap'[v] \subseteq ledger
    BY <1>1 DEF CountersInv, Typed, TypeOK, WorkerTypeOK
  <1>4. QED
    BY <1>2, <1>3, CountersKeep

\* A row that is inserted is left out until its handler, which is about to sum
\* the ledger, has done so.
LEMMA CountersRecordPage ==
    ASSUME Typed, CountersInv, NEW w \in Workers, RecordPage(w)
    PROVE  CountersInv'
  <1>1. /\ pc[w] = "insert" /\ pc' = [pc EXCEPT ![w] = "recompute"]
        /\ UNCHANGED <<counters, msg, snap, cut>>
        /\ pc \in [Workers -> PCs]
    BY DEF RecordPage, Goto, Typed, TypeOK, WorkerTypeOK
  <1>2. CASE Report(w).page \in PagesIn(ledger)
    <2>1. ledger' = ledger
      BY <1>2 DEF RecordPage
    <2>2. QED
      BY <1>1, <2>1, CountersElsewhere DEF RecordPage, CountersInv, Summing
  <1>3. CASE Report(w).page \notin PagesIn(ledger)
    <2> DEFINE row == LedgerRow(Report(w))
    <2>1. ledger' = ledger \cup {row} /\ row.page = Report(w).page
      BY <1>3, <1>1, HeldReport, ReportFacts DEF RecordPage
    <2>2. row \notin ledger
      BY <1>3, <2>1 DEF PagesIn
    <2>3. PICK missing \in SUBSET ledger :
              /\ counters = CountersOf(ledger \ missing)
              /\ \A e \in missing : e.page \in cut \/ Recomputing(e.page)
      BY DEF CountersInv, CountersAccountForPages
    <2> DEFINE more == missing \cup {row}
    <2>4. ledger' \ more = ledger \ missing /\ more \in SUBSET ledger'
      BY <2>1, <2>2, <2>3
    <2>5. \A v \in Workers : pc[v] \in Summing => pc'[v] \in Summing
      BY <1>1 DEF Summing
    <2>6. ASSUME NEW e \in more PROVE e.page \in cut' \/ Recomputing(e.page)'
      <3>1. CASE e = row
        <4>1. pc'[w] \in Summing /\ Report(w)' = Report(w)
          BY <1>1 DEF Summing, Report
        <4>2. QED
          BY <2>1, <3>1, <4>1 DEF Recomputing, Summing
      <3>2. CASE e \in missing
        <4>1. CASE e.page \in cut
          BY <1>1, <4>1
        <4>2. CASE Recomputing(e.page)
          <5>1. PICK v \in Workers : pc[v] \in Summing /\ Report(v).page = e.page
            BY <4>2 DEF Recomputing, Summing
          <5>2. pc'[v] \in Summing /\ Report(v)' = Report(v)
            BY <1>1, <2>5, <5>1 DEF Report
          <5>3. QED
            BY <5>1, <5>2 DEF Recomputing, Summing
        <4>3. QED
          BY <2>3, <3>2, <4>1, <4>2
      <3>3. QED
        BY <3>1, <3>2
    <2>7. counters' = CountersOf(ledger' \ more)
      BY <1>1, <2>3, <2>4
    <2>8. CountersAccountForPages'
      BY <2>4, <2>6, <2>7 DEF CountersAccountForPages
    <2>9. \A v \in Workers : snap'[v] \subseteq ledger'
      BY <1>1, <2>1 DEF CountersInv
    <2>10. QED
      BY <2>8, <2>9 DEF CountersInv
  <1>4. QED
    BY <1>2, <1>3

\* A sum of the whole ledger leaves nothing out.
LEMMA CountersRecompute ==
    ASSUME CountersInv, NEW w \in Workers, RecomputeCounters(w)
    PROVE  CountersInv'
  <1>1. counters' = CountersOf(ledger' \ {}) /\ ledger' = ledger /\ snap' = snap
    <2>1. ledger \ {} = ledger
      OBVIOUS
    <2>2. QED
      BY <2>1 DEF RecomputeCounters
  <1>2. /\ {} \in SUBSET ledger'
        /\ \A e \in {} : e.page \in cut' \/ Recomputing(e.page)'
    OBVIOUS
  <1>3. CountersAccountForPages'
    BY <1>1, <1>2, Zenon DEF CountersAccountForPages
  <1>4. QED
    BY <1>1, <1>3 DEF CountersInv

\* An older sum leaves out what was inserted since it was read.
LEMMA CountersWriteSnapshot ==
    ASSUME CountersInv, NEW w \in Workers, WriteSnapshot(w)
    PROVE  CountersInv'
  <1> DEFINE missing == ledger \ snap[w]
  <1>1. /\ counters' = CountersOf(snap[w]) /\ cut' = cut \cup PagesIn(missing)
        /\ ledger' = ledger /\ snap' = snap /\ snap[w] \subseteq ledger
    BY DEF WriteSnapshot, CountersInv
  <1>2. ledger' \ missing = snap[w] /\ missing \in SUBSET ledger'
    BY <1>1
  <1>3. \A e \in missing : e.page \in cut'
    BY <1>1 DEF PagesIn
  <1>4. counters' = CountersOf(ledger' \ missing)
    BY <1>1, <1>2
  <1>5. CountersAccountForPages'
    BY <1>2, <1>3, <1>4 DEF CountersAccountForPages
  <1>6. QED
    BY <1>1, <1>5 DEF CountersInv

LEMMA CountersStatement ==
    ASSUME Typed, CountersInv, NEW w \in Workers, Statement(w)
    PROVE  CountersInv'
  <1>1. \A v \in Workers : snap[v] \subseteq ledger
    BY DEF CountersInv
  <1>2. CASE TakeSnapshot(w)
    <2>1. /\ pc' = [pc EXCEPT ![w] = "write"] /\ snap' = [snap EXCEPT ![w] = ledger]
          /\ UNCHANGED <<counters, ledger, msg, cut>>
      BY <1>2 DEF TakeSnapshot, Goto, campaignVars
    <2>2. \A v \in Workers : pc[v] \in Summing => pc'[v] \in Summing
      BY <2>1 DEF Summing, Typed, TypeOK, WorkerTypeOK
    <2>3. \A v \in Workers : snap'[v] \subseteq ledger
      BY <1>1, <2>1 DEF Typed, TypeOK, WorkerTypeOK
    <2>4. QED
      BY <2>1, <2>2, <2>3, CountersKeep
  <1>3. CASE Ack(w)
    <2>1. CutBy(w) = {} /\ cut' = cut /\ Settle(w) /\ UNCHANGED <<counters, ledger>>
      BY <1>3 DEF Ack, CutBy, campaignVars
    <2>2. QED
      BY <2>1, CountersSettle
  <1>4. ASSUME \/ LoadCampaign(w) \/ RecordTotalPages(w) \/ CompleteIfAllPagesReported(w)
               \/ TransitionToCompleted(w) \/ SelectAbWinner(w)
        PROVE  CountersInv'
    <2>1. PICK label : Goto(w, label)
      BY <1>4 DEF LoadCampaign, RecordTotalPages, CompleteIfAllPagesReported,
                  TransitionToCompleted, SelectAbWinner
    <2>2. pc[w] \notin Summing /\ UNCHANGED <<counters, ledger, cut, msg, snap>>
      BY <1>4 DEF LoadCampaign, RecordTotalPages, CompleteIfAllPagesReported,
                  TransitionToCompleted, SelectAbWinner, Summing, campaignVars
    <2>3. QED
      BY <1>1, <2>1, <2>2, CountersElsewhere
  <1>5. QED
    BY <1>2, <1>3, <1>4, CountersRecordPage, CountersRecompute,
       CountersWriteSnapshot DEF Statement

LEMMA CountersFault ==
    ASSUME Typed, CountersInv, NEW w \in Workers, Fault(w)
    PROVE  CountersInv'
  <1>1. CASE Fail(w) \/ Crash(w)
    BY <1>1, CountersSettle DEF Fail, Crash, campaignVars
  <1>2. CASE LoseChannel(w)
    <2>1. UNCHANGED <<counters, ledger, pc, msg, snap, cut>>
      BY <1>2 DEF LoseChannel, campaignVars
    <2>2. QED
      BY <2>1, CountersKeep DEF CountersInv
  <1>3. QED
    BY <1>1, <1>2 DEF Fault

LEMMA CountersNext == Typed /\ CountersInv /\ [Next]_vars => CountersInv'
  <1> SUFFICES ASSUME Typed, CountersInv, [Next]_vars PROVE CountersInv'
    OBVIOUS
  <1>1. \A v \in Workers : snap[v] \subseteq ledger
    BY DEF CountersInv
  <1>2. CASE Environment \/ UNCHANGED vars
    <2>1. UNCHANGED <<counters, ledger, pc, msg, snap, cut>>
      BY <1>2 DEF Environment, Publish, Pause, Resume, Stop, OwnerSets,
                  RemoveCampaign, vars, campaignVars, workerVars
    <2>2. QED
      BY <1>1, <2>1, CountersKeep
  <1>3. ASSUME NEW w \in Workers, NEW m \in Message, Deliver(w, m)
        PROVE  CountersInv'
    <2>1. /\ pc[w] = "idle" /\ Goto(w, "load") /\ msg' = [msg EXCEPT ![w] = m]
          /\ UNCHANGED <<counters, ledger, snap, cut>>
      BY <1>3 DEF Deliver, campaignVars
    <2>2. \A v \in Workers : v # w => msg'[v] = msg[v]
      BY <2>1 DEF Typed, TypeOK, WorkerTypeOK
    <2>3. QED
      BY <1>1, <2>1, <2>2, CountersElsewhere DEF Summing
  <1>4. QED
    BY <1>2, <1>3, CountersStatement, CountersFault DEF Next, DeliverSome

\* Every published report is on its way, in the ledger or no longer needed, and
\* every row of the ledger in the counters but for those whose sum was cut
\* short, for any number of handlers, pages, copies and faults.
THEOREM EveryReportCounts == Spec => []ReportsCount
  <1>1. Init => CountersInv
    <2>1. Init => counters = CountersOf(ledger \ {}) /\ \A w \in Workers : snap[w] = {}
      <3>1. {} \ {} = {}
        OBVIOUS
      <3>2. QED
        BY <3>1 DEF Init
    <2>2. QED
      BY <2>1 DEF CountersInv, CountersAccountForPages
  <1>2. CountersInv /\ NoReportLost => ReportsCount
    BY DEF CountersInv, ReportsCount
  <1>3. QED
    BY <1>1, <1>2, TypedInit, TypedNext, CountersNext, NoReportIsLost, PTL DEF Spec
-----------------------------------------------------------------------------
(* The tracker implements the abstract progress of a campaign.             *)

\* An insert for a page not in the ledger cannot come after the completion: a
\* complete ledger holds every page a report can name.
LEMMA ProgressRecordPage ==
    ASSUME Typed, CompletionInv, NEW w \in Workers, RecordPage(w)
    PROVE  Progress!Next \/ UNCHANGED Progress!vars
  <1>1. Report(w) \in Reports /\ pc[w] = "insert" /\ UNCHANGED status
    BY HeldReport DEF RecordPage
  <1>2. CASE Report(w).page \in PagesIn(ledger)
    BY <1>1, <1>2 DEF RecordPage, Progress!vars
  <1>3. CASE Report(w).page \notin PagesIn(ledger)
    <2>1. PagesIn(ledger') = PagesIn(ledger) \cup {Report(w).page}
      BY <1>1, <1>3, PagesAfterInsert, ReportFacts, SMTT(30) DEF RecordPage
    <2>2. Report(w).page \in 1 .. TotalPages
      BY <1>1, ReportFacts DEF CompletionInv, Counting
    <2>3. status # "COMPLETED"
      BY <1>3, <2>2 DEF CompletionInv, CompletionJustified
    <2>4. Progress!ReportPage(Report(w).page)
      BY <1>1, <1>3, <2>1, <2>3 DEF Progress!ReportPage
    <2>5. QED
      BY <2>2, <2>4 DEF Progress!Next
  <1>4. QED
    BY <1>2, <1>3

LEMMA ProgressNext ==
    Typed /\ CompletionInv /\ [Next]_vars => [Progress!Next]_(Progress!vars)
  <1> SUFFICES ASSUME Typed, CompletionInv, [Next]_vars
               PROVE  Progress!Next \/ UNCHANGED Progress!vars
    OBVIOUS
  <1>1. ASSUME UNCHANGED <<ledger, status>> PROVE UNCHANGED Progress!vars
    BY <1>1 DEF Progress!vars
  <1>2. ASSUME NEW w \in Workers, TransitionToCompleted(w)
        PROVE  Progress!Next
    <2>1. PagesIn(ledger) = 1 .. TotalPages
      BY <1>2 DEF TransitionToCompleted, TransitionAffectsRow, CompletionInv, Full
    <2>2. Progress!Complete
      BY <1>2, <2>1 DEF TransitionToCompleted, TransitionAffectsRow, Progress!Complete
    <2>3. QED
      BY <2>2 DEF Progress!Next
  <1>3. CASE Environment
    <2>1. ledger' = ledger /\ (status' = "COMPLETED") = (status = "COMPLETED")
      BY <1>3 DEF Environment, Publish, Pause, Resume, Stop, OwnerSets,
                  RemoveCampaign, campaignVars
    <2>2. QED
      BY <2>1 DEF Progress!vars
  <1>4. ASSUME NEW w \in Workers, DeliverSome(w) \/ Fault(w)
        PROVE  UNCHANGED <<ledger, status>>
    BY <1>4 DEF DeliverSome, Deliver, Fault, Fail, Crash, LoseChannel, campaignVars
  <1>5. ASSUME NEW w \in Workers, Statement(w),
               ~RecordPage(w), ~TransitionToCompleted(w)
        PROVE  UNCHANGED <<ledger, status>>
    BY <1>5 DEF Statement, LoadCampaign, AfterLoad, RecomputeCounters, TakeSnapshot,
           WriteSnapshot, RecordTotalPages, CompleteIfAllPagesReported,
           SelectAbWinner, Ack, campaignVars
  <1>6. CASE UNCHANGED vars
    BY <1>1, <1>6 DEF vars, campaignVars
  <1>7. QED
    BY <1>1, <1>2, <1>3, <1>4, <1>5, <1>6, ProgressRecordPage DEF Next

\* record(), with its statements, redeliveries and faults, implements the
\* abstract promise: no page is reported after completion or twice, and the
\* campaign completes once, when every page has been reported.
THEOREM TrackerImplementsProgress == Spec => ImplementsProgress
  <1>1. Init => Progress!Init
    BY PagesAfterInsert DEF Init, Progress!Init
  <1>2. QED
    BY <1>1, TypedInit, TypedNext, CompletionInit, CompletionNext, ProgressNext,
       PTL DEF Spec, ImplementsProgress, Progress!Spec

-----------------------------------------------------------------------------
(* The requests on an audience (AudienceReview).                           *)

Requests == {"none", "clear", "compute", "validate", "remove", "sample"}
ReviewPhases == {"free", "wipe", "rows", "select", "fetch", "fill", "delete"}
Verdicts == {"none", "valid", "invalid", "promising"}

Review ==
    [pc : ReviewPhases, op : Requests, list : SUBSET People, issues : SUBSET People,
     verdict : Verdicts, blind : BOOLEAN, outdated : BOOLEAN]

\* What is wrong with the contacts that were found, when the first holders of an
\* address that are not in dup were met before the others.
IssuesOf(c, list, found, dup) == dup \cup (list \ {p \in found : Deliverable(c, p)})

\* A request at work has not answered; what it has read is what is there unless
\* it was outdated, and so is what it is about to delete.
ReviewHolds(r) ==
    /\ r.pc # "free" => r.verdict = "none"
    /\ r.pc = "wipe" => r.op \in {"clear", "compute"}
    /\ r.pc = "select" => r.op \in {"compute", "sample"}
    /\ r.pc = "fetch" /\ r.op \notin {"compute", "sample"} /\ ~r.outdated => r.list = Listed
    /\ r.pc = "delete" /\ ~r.blind /\ ~r.outdated =>
        /\ former = book
        /\ \E dup \in Duplicates(book, Listed) : r.issues = IssuesOf(book, Listed, Listed, dup)

ReviewInv ==
    /\ channel \in Channels
    /\ audience \in [People -> Nat]
    /\ reviews \in [Slots -> Review]
    /\ \A s \in Slots : ReviewHolds(reviews[s])

LEMMA AnswerType ==
    ASSUME NEW r \in Review, NEW v \in Verdicts
    PROVE  /\ [NoReview EXCEPT !.verdict = v, !.blind = r.blind, !.outdated = r.outdated] \in Review
           /\ ReviewHolds([NoReview EXCEPT !.verdict = v, !.blind = r.blind, !.outdated = r.outdated])
  BY DEF Review, ReviewHolds, NoReview, ReviewPhases, Requests, Verdicts

\* A request moves on while rows and contacts stay as they are.
LEMMA OneProceeds ==
    ASSUME ReviewInv, NEW s \in Slots, NEW r \in Review, ReviewHolds(r), Proceed(s, r),
           UNCHANGED <<channel, book, former, audience>>
    PROVE  ReviewInv'
  <1>1. reviews' \in [Slots -> Review]
    BY DEF ReviewInv, Proceed
  <1>2. ASSUME NEW t \in Slots  PROVE reviews'[t] = IF t = s THEN r ELSE reviews[t]
    BY DEF ReviewInv, Proceed
  <1>3. ASSUME NEW t \in Slots  PROVE ReviewHolds(reviews[t])' <=> ReviewHolds(reviews'[t])
    <2>1. Listed' = Listed /\ Duplicates(book, Listed)' = Duplicates(book, Listed)
      BY DEF Listed, Duplicates, Keyed, SameKey
    <2>2. ASSUME NEW dup
          PROVE  IssuesOf(book, Listed, Listed, dup)' = IssuesOf(book, Listed, Listed, dup)
      BY <2>1 DEF IssuesOf, Deliverable
    <2>3. QED
      BY <2>1, <2>2 DEF ReviewHolds
  <1>4. QED
    BY <1>1, <1>2, <1>3 DEF ReviewInv

\* The rows change: what the others have read is outdated.
LEMMA OthersOutdated ==
    ASSUME ReviewInv, NEW s \in Slots, NEW r \in Review, Outdate(s, r), channel' = channel,
           r.pc \in {"free", "select"},
           r.pc # "free" => r.verdict = "none" /\ r.op \in {"compute", "sample"},
           audience' \in [People -> Nat]
    PROVE  ReviewInv'
  <1>1. ASSUME NEW t \in Slots
        PROVE  /\ reviews'[t] = IF t = s THEN r ELSE [reviews[t] EXCEPT !.outdated = Busy(t)]
               /\ reviews'[t] \in Review
    BY DEF ReviewInv, Outdate, Review, Busy, Doing
  <1>2. reviews' \in [Slots -> Review]
    BY <1>1 DEF ReviewInv, Outdate
  <1>3. ASSUME NEW t \in Slots  PROVE ReviewHolds(reviews[t])'
    <2>1. CASE t = s
      BY <1>1, <2>1 DEF ReviewHolds
    <2>2. CASE t # s
      <3>1. reviews[t] \in Review /\ ReviewHolds(reviews[t])
        BY DEF ReviewInv
      <3>2. /\ reviews'[t].pc = reviews[t].pc /\ reviews'[t].op = reviews[t].op
            /\ reviews'[t].verdict = reviews[t].verdict
            /\ reviews[t].pc # "free" => reviews'[t].outdated
        <4> DEFINE q == [reviews[t] EXCEPT !.outdated = Busy(t)]
        <4>1. /\ q.pc = reviews[t].pc /\ q.op = reviews[t].op /\ q.verdict = reviews[t].verdict
              /\ q.outdated = Busy(t)
          BY <3>1 DEF Review
        <4>2. reviews'[t] = q
          BY <1>1, <2>2
        <4>3. QED
          BY <4>1, <4>2 DEF Busy, Doing
      <3>3. QED
        BY <3>1, <3>2 DEF ReviewHolds
    <2>3. QED
      BY <2>1, <2>2
  <1>4. QED
    BY <1>2, <1>3 DEF ReviewInv

LEMMA ReviewInitially == ReviewInit => ReviewInv
  BY DEF ReviewInit, ReviewInv, Review, NoReview, ReviewHolds, ReviewPhases, Requests, Verdicts

\* What a request makes of the contacts it fetched.
LEMMA JudgedIs ==
    ASSUME ReviewInv, NEW s \in Slots, Doing(s, "fetch"), NEW c, NEW found \in SUBSET reviews[s].list,
           c \in {book, former},
           NEW r \in Judged([reviews[s] EXCEPT !.blind = found /= reviews[s].list,
                                               !.outdated = @ \/ former /= book], c, found)
    PROVE  r \in Review /\ ReviewHolds(r)
  <1> DEFINE q == [reviews[s] EXCEPT !.blind = found /= reviews[s].list,
                                     !.outdated = @ \/ former /= book]
  <1>1. /\ q \in Review /\ q.pc = "fetch" /\ q.list = reviews[s].list /\ q.op = reviews[s].op
        /\ q.blind = (found /= reviews[s].list) /\ q.verdict = "none"
        /\ ~q.outdated => former = book /\ ~reviews[s].outdated
    <2> DEFINE r0 == reviews[s]
               missed == found /= reviews[s].list
               spoilt == reviews[s].outdated \/ former /= book
    <2>1. r0 \in Review /\ r0.pc = "fetch" /\ r0.verdict = "none"
      BY DEF ReviewInv, ReviewHolds, Doing
    <2>2. missed \in BOOLEAN /\ spoilt \in BOOLEAN /\ q = [r0 EXCEPT !.blind = missed, !.outdated = spoilt]
      BY <2>1 DEF Review
    <2> HIDE DEF q, missed, spoilt
    <2>3. /\ q \in Review /\ q.pc = "fetch" /\ q.list = r0.list /\ q.op = r0.op
          /\ q.blind = missed /\ q.verdict = "none" /\ q.outdated = spoilt
      <3> HIDE DEF r0
      <3>1. QED
        BY <2>1, <2>2 DEF Review
    <2>4. ~spoilt => former = book /\ ~reviews[s].outdated
      BY DEF spoilt
    <2>5. QED
      BY <2>3, <2>4 DEF missed
  <1>2. r \in Judged(q, c, found)
    OBVIOUS
  <1> HIDE DEF q
  <1>3. CASE q.op = "compute"
    <2>1. r = [q EXCEPT !.pc = "fill", !.list = {p \in found : Deliverable(c, p)}]
      BY <1>2, <1>3 DEF Judged
    <2>2. {p \in found : Deliverable(c, p)} \in SUBSET People
      BY <1>1 DEF Review
    <2>3. QED
      BY <1>1, <2>1, <2>2 DEF Review, ReviewHolds, ReviewPhases
  <1>4. CASE q.op = "sample"
    <2>1. PICK v \in Verdicts :
            r = [NoReview EXCEPT !.verdict = v, !.blind = q.blind, !.outdated = q.outdated]
      BY <1>2, <1>4 DEF Judged, Verdicts
    <2>2. QED
      BY <1>1, <2>1, AnswerType
  <1>5. CASE q.op \notin {"compute", "sample"}
    <2>1. PICK dup \in Duplicates(c, found) :
            r = LET issues == dup \cup (q.list \ {p \in found : Deliverable(c, p)}) IN
                IF q.op = "remove" /\ issues /= {}
                THEN [q EXCEPT !.pc = "delete", !.issues = issues]
                ELSE [NoReview EXCEPT !.verdict = IF issues = {} THEN "valid" ELSE "invalid",
                                      !.blind = q.blind, !.outdated = q.outdated]
      BY <1>2, <1>5 DEF Judged
    <2> DEFINE issues == IssuesOf(c, q.list, found, dup)
    <2>2. issues \in SUBSET People
      BY <1>1 DEF Review, IssuesOf, Duplicates, Keyed
    <2>3. CASE q.op = "remove" /\ issues # {}
      <3>1. r = [q EXCEPT !.pc = "delete", !.issues = issues]
        BY <2>1, <2>3 DEF IssuesOf
      <3>2. r \in Review /\ r.pc = "delete" /\ r.issues = issues /\ r.op = "remove"
            /\ r.blind = q.blind /\ r.outdated = q.outdated /\ r.verdict = "none"
        BY <1>1, <2>2, <2>3, <3>1 DEF Review, ReviewPhases
      <3>3. ASSUME ~r.blind, ~r.outdated
            PROVE  former = book /\ issues = IssuesOf(book, Listed, Listed, dup)
                   /\ dup \in Duplicates(book, Listed)
        <4>1. former = book /\ c = book /\ found = q.list
          BY <1>1, <3>2, <3>3
        <4>2. q.list = Listed
          BY <1>1, <1>5, <3>2, <3>3 DEF ReviewInv, ReviewHolds, Doing
        <4>3. QED
          BY <4>1, <4>2
      <3>4. QED
        BY <3>2, <3>3 DEF ReviewHolds
    <2>4. CASE ~(q.op = "remove" /\ issues # {})
      <3>1. PICK v \in Verdicts :
              r = [NoReview EXCEPT !.verdict = v, !.blind = q.blind, !.outdated = q.outdated]
        BY <2>1, <2>4 DEF IssuesOf, Verdicts
      <3>2. QED
        BY <1>1, <3>1, AnswerType
    <2>5. QED
      BY <2>3, <2>4
  <1>6. QED
    BY <1>3, <1>4, <1>5

LEMMA ReviewStep ==
    ASSUME ReviewInv, [ReviewNext]_reviewVars  PROVE ReviewInv'
  <1> USE DEF Doing, Busy
  <1>0. ASSUME NEW s \in Slots  PROVE reviews[s] \in Review /\ ReviewHolds(reviews[s])
    BY DEF ReviewInv
  <1>1. ASSUME NEW op \in {"compute", "clear", "validate", "remove", "sample"}, Ask(op)
        PROVE  ReviewInv'
    <2>1. PICK s \in Slots : Proceed(s, [NoReview EXCEPT !.pc = FirstPc(op), !.op = op])
      BY <1>1 DEF Ask
    <2> DEFINE r == [NoReview EXCEPT !.pc = FirstPc(op), !.op = op]
    <2>2. /\ r.pc = "wipe" => r.op \in {"clear", "compute"}
          /\ r.pc = "select" => r.op \in {"compute", "sample"}
      BY DEF FirstPc, NoReview
    <2>3. r \in Review /\ r.pc \in {"wipe", "rows", "select"} /\ r.verdict = "none"
      BY DEF FirstPc, NoReview, Review, ReviewPhases, Requests, Verdicts
    <2>4. ReviewHolds(r)
      BY <2>2, <2>3 DEF ReviewHolds
    <2>5. QED
      BY <1>1, <2>1, <2>3, <2>4, OneProceeds DEF Ask
  <1>2. ASSUME UNCHANGED <<channel, book, former, audience, reviews>>  PROVE ReviewInv'
    <2>1. Listed' = Listed /\ Duplicates(book, Listed)' = Duplicates(book, Listed)
      BY <1>2 DEF Listed, Duplicates, Keyed, SameKey
    <2>2. ASSUME NEW dup
          PROVE  IssuesOf(book, Listed, Listed, dup)' = IssuesOf(book, Listed, Listed, dup)
      BY <1>2, <2>1 DEF IssuesOf, Deliverable
    <2>3. QED
      BY <1>2, <2>1, <2>2 DEF ReviewInv, ReviewHolds
  <1>3. CASE ChangeContact
    <2>1. reviews' \in [Slots -> Review] /\ UNCHANGED <<channel, audience>>
      BY <1>3 DEF ChangeContact, ReviewInv, Review
    <2>2. ASSUME NEW s \in Slots
          PROVE  /\ reviews'[s].pc = reviews[s].pc /\ reviews'[s].op = reviews[s].op
                 /\ reviews'[s].verdict = reviews[s].verdict
                 /\ reviews[s].pc # "free" => reviews'[s].outdated
      BY <1>0, <1>3 DEF ChangeContact, Review
    <2>3. QED
      BY <1>0, <2>1, <2>2 DEF ReviewInv, ReviewHolds
  <1>4. CASE ExpireCopies
    <2>1. UNCHANGED <<channel, book, audience, reviews>> /\ former' = book'
      BY <1>4 DEF ExpireCopies
    <2>2. Listed' = Listed /\ Duplicates(book, Listed)' = Duplicates(book, Listed)
      BY <2>1 DEF Listed, Duplicates, Keyed, SameKey
    <2>3. ASSUME NEW dup
          PROVE  IssuesOf(book, Listed, Listed, dup)' = IssuesOf(book, Listed, Listed, dup)
      BY <2>1, <2>2 DEF IssuesOf, Deliverable
    <2>4. QED
      BY <2>1, <2>2, <2>3 DEF ReviewInv, ReviewHolds
  <1>5. ASSUME NEW s \in Slots, NEW v \in Verdicts
        PROVE  Answered(s, v) \in Review /\ ReviewHolds(Answered(s, v))
               /\ Answered(s, v).pc = "free"
    BY <1>0, AnswerType DEF Answered, NoReview
  <1>6. ASSUME NEW s \in Slots, Wipe(s)  PROVE ReviewInv'
    <2>1. audience' \in [People -> Nat] /\ channel' = channel
      BY <1>6 DEF Wipe
    <2>2. CASE reviews[s].op = "clear"
      BY <1>5, <1>6, <2>1, <2>2, OthersOutdated DEF Wipe, Verdicts
    <2>3. CASE reviews[s].op # "clear"
      <3> DEFINE r == [reviews[s] EXCEPT !.pc = "select"]
      <3>1. reviews[s].op = "compute" /\ reviews[s].verdict = "none"
        BY <1>0, <1>6, <2>3 DEF Wipe, ReviewHolds
      <3>2. r \in Review /\ r.pc = "select" /\ r.verdict = "none" /\ r.op = "compute"
        BY <1>0, <3>1 DEF Review, ReviewPhases
      <3>3. QED
        BY <1>6, <2>1, <2>3, <3>2, OthersOutdated DEF Wipe
    <2>4. QED
      BY <2>2, <2>3
  <1>7. ASSUME NEW s \in Slots, Select(s)  PROVE ReviewInv'
    <2>1. PICK list \in SUBSET People : Proceed(s, [reviews[s] EXCEPT !.pc = "fetch", !.list = list])
      BY <1>7 DEF Select
    <2> DEFINE r == [reviews[s] EXCEPT !.pc = "fetch", !.list = list]
    <2>2. r \in Review /\ ReviewHolds(r)
      BY <1>0, <1>7 DEF Select, Review, ReviewPhases, ReviewHolds
    <2>3. QED
      BY <1>7, <2>1, <2>2, OneProceeds DEF Select
  <1>8. ASSUME NEW s \in Slots, ReadRows(s)  PROVE ReviewInv'
    <2>1. CASE Listed = {}
      BY <1>5, <1>8, <2>1, OneProceeds DEF ReadRows, Verdicts
    <2>2. CASE Listed # {}
      <3> DEFINE q == [reviews[s] EXCEPT !.pc = "fetch", !.list = Listed]
      <3>1. Listed \in SUBSET People
        BY DEF Listed
      <3>2. q \in Review /\ q.pc = "fetch" /\ q.list = Listed /\ q.verdict = reviews[s].verdict
        BY <1>0, <3>1 DEF Review, ReviewPhases
      <3>3. ReviewHolds(q)
        BY <1>0, <1>8, <3>2 DEF ReviewHolds, ReadRows
      <3>4. QED
        BY <1>8, <2>2, <3>2, <3>3, OneProceeds DEF ReadRows
    <2>3. QED
      BY <2>1, <2>2
  <1>9. ASSUME NEW s \in Slots, Fetch(s)  PROVE ReviewInv'
    <2>1. PICK c \in {book, former}, found \in SUBSET reviews[s].list :
            \E r \in Judged([reviews[s] EXCEPT !.blind = found /= reviews[s].list,
                                               !.outdated = @ \/ former /= book], c, found) :
                Proceed(s, r)
      BY <1>9 DEF Fetch
    <2>2. PICK r \in Judged([reviews[s] EXCEPT !.blind = found /= reviews[s].list,
                                               !.outdated = @ \/ former /= book], c, found) :
                Proceed(s, r)
      BY <2>1
    <2>3. r \in Review /\ ReviewHolds(r)
      BY <1>9, JudgedIs DEF Fetch
    <2>4. QED
      BY <1>9, <2>2, <2>3, OneProceeds DEF Fetch
  <1>10. ASSUME NEW s \in Slots, Fill(s)  PROVE ReviewInv'
    <2>1. audience' \in [People -> Nat]
      BY <1>10 DEF Fill, ReviewInv
    <2>2. QED
      BY <1>5, <1>10, <2>1, OthersOutdated DEF Fill, Verdicts
  <1>11. ASSUME NEW s \in Slots, Delete(s)  PROVE ReviewInv'
    <2>1. audience' \in [People -> Nat]
      BY <1>11 DEF Delete, ReviewInv
    <2>2. QED
      BY <1>5, <1>11, <2>1, OthersOutdated DEF Delete, Verdicts
  <1>12. ASSUME NEW s \in Slots, Break(s)  PROVE ReviewInv'
    <2>1. NoReview \in Review /\ ReviewHolds(NoReview)
      BY DEF Review, NoReview, ReviewHolds, ReviewPhases, Requests, Verdicts
    <2>2. QED
      BY <1>12, <2>1, OneProceeds DEF Break
  <1>13. QED
    BY <1>1, <1>2, <1>3, <1>4, <1>6, <1>7, <1>8, <1>9, <1>10, <1>11, <1>12
       DEF ReviewNext, Look, reviewVars

\* Of those that share an address one is left, whoever was met first.
LEMMA OneIsLeft ==
    ASSUME NEW c, NEW found \in SUBSET People, NEW dup \in Duplicates(c, found)
    PROVE  /\ \A p \in Keyed(c, found) : \E q \in Keyed(c, found) \ dup : SameKey(c, p, q)
           /\ \A p, q \in Keyed(c, found) \ dup : SameKey(c, p, q) => p = q
  <1>1. ASSUME NEW p \in Keyed(c, found)
        PROVE  \E q : {x \in Keyed(c, found) \ dup : SameKey(c, p, x)} = {q}
    <2> DEFINE X == {x \in Keyed(c, found) \ dup : SameKey(c, p, x)}
    <2>1. IsFiniteSet(X)
      <3>1. X \subseteq People
        BY DEF Keyed
      <3>2. QED
        BY <3>1, PeopleAssumption, FS_Subset
    <2>2. Cardinality(X) = 1
      BY DEF Duplicates
    <2> HIDE DEF X
    <2>3. \E q : X = {q}
      BY <2>1, <2>2, FS_Singleton
    <2>4. QED
      BY <2>3 DEF X
  <1>2. \A p \in Keyed(c, found) : SameKey(c, p, p)
    BY DEF SameKey
  <1>3. ASSUME NEW p \in Keyed(c, found)
        PROVE  \E q \in Keyed(c, found) \ dup : SameKey(c, p, q)
    <2>1. PICK q : {x \in Keyed(c, found) \ dup : SameKey(c, p, x)} = {q}
      BY <1>1
    <2>2. QED
      BY <2>1
  <1>4. ASSUME NEW p \in Keyed(c, found) \ dup, NEW q \in Keyed(c, found) \ dup, SameKey(c, p, q)
        PROVE  p = q
    <2>1. PICK x : {y \in Keyed(c, found) \ dup : SameKey(c, p, y)} = {x}
      BY <1>1
    <2>2. p \in {y \in Keyed(c, found) \ dup : SameKey(c, p, y)}
      BY <1>2
    <2>3. q \in {y \in Keyed(c, found) \ dup : SameKey(c, p, y)}
      BY <1>4
    <2>4. QED
      BY <2>1, <2>2, <2>3
  <1>5. QED
    BY <1>3, <1>4

\* Who can be reached has an address that is compared.
LEMMA DeliverableIsKeyed ==
    ASSUME channel \in Channels, NEW c, NEW found, NEW p \in found, Deliverable(c, p)
    PROVE  p \in Keyed(c, found)
  BY DEF Deliverable, Keyed, Addresses, Channels

LEMMA RemovalsAreSound ==
    ASSUME ReviewInv, [ReviewNext]_reviewVars
    PROVE  RemovalIsSound
  <1> SUFFICES ASSUME NEW s \in Slots, Doing(s, "delete"), reviews'[s].pc = "free",
                      audience' /= audience, Undisturbed(s)
               PROVE  RemovalKeepsReach(s) /\ RemovalTidies(s)
    BY DEF RemovalIsSound
  <1>1. reviews[s] \in Review /\ ReviewHolds(reviews[s]) /\ reviews \in [Slots -> Review]
    BY DEF ReviewInv
  <1>2. PICK t \in Slots : Wipe(t) \/ Fill(t) \/ Delete(t)
    BY DEF ReviewNext, reviewVars, Ask, Look, ChangeContact, ExpireCopies, Select, ReadRows,
           Fetch, Break
  <1>3. t = s
    <2>1. SUFFICES ASSUME t # s  PROVE FALSE
      OBVIOUS
    <2>2. \E r : Outdate(t, r)
      BY <1>2 DEF Wipe, Fill, Delete
    <2>3. reviews'[s] = [reviews[s] EXCEPT !.outdated = Busy(s)]
      BY <2>1, <2>2 DEF Outdate
    <2>4. [reviews[s] EXCEPT !.outdated = Busy(s)].pc = reviews[s].pc
      BY <1>1 DEF Review
    <2>5. QED
      BY <2>3, <2>4 DEF Doing
  <1>4. audience' = [p \in People |-> IF p \in reviews[s].issues THEN 0 ELSE audience[p]]
    BY <1>2, <1>3 DEF Wipe, Fill, Delete, Doing
  <1>5. PICK dup \in Duplicates(book, Listed) :
          reviews[s].issues = dup \cup (Listed \ {p \in Listed : Deliverable(book, p)})
    BY <1>1 DEF ReviewHolds, Undisturbed, Doing, IssuesOf
  <1>6. Listed \in SUBSET People /\ audience \in [People -> Nat]
    BY DEF Listed, ReviewInv
  <1>7. /\ \A p \in Keyed(book, Listed) : \E q \in Keyed(book, Listed) \ dup : SameKey(book, p, q)
        /\ \A p, q \in Keyed(book, Listed) \ dup : SameKey(book, p, q) => p = q
    BY <1>6, OneIsLeft
  <1>8. \A p \in People : audience'[p] > 0 <=> p \in Listed \ reviews[s].issues
    BY <1>4, <1>6 DEF Listed
  <1>9. \A p \in Listed : Deliverable(book, p) => p \in Keyed(book, Listed)
    BY DeliverableIsKeyed DEF ReviewInv
  <1>10. RemovalKeepsReach(s)
    <2> SUFFICES ASSUME NEW p \in Listed, Reached(p), ~Hindered(p)
                 PROVE  \E q \in Listed : SameKey(book, p, q) /\ Deliverable(book, q)
                                          /\ audience'[q] > 0
      BY DEF RemovalKeepsReach
    <2>1. PICK q \in Keyed(book, Listed) \ dup : SameKey(book, p, q)
      BY <1>7, <1>9 DEF Reached
    <2>2. q \in Listed /\ Deliverable(book, q)
      BY <2>1 DEF Keyed, Hindered
    <2>3. QED
      BY <1>5, <1>6, <1>8, <2>1, <2>2
  <1>11. RemovalTidies(s)
    <2> SUFFICES ASSUME NEW p \in People, audience'[p] > 0
                 PROVE  /\ Deliverable(book, p)
                        /\ \A q \in People \ {p} : audience'[q] > 0 => ~SameKey(book, p, q)
      BY DEF RemovalTidies
    <2>1. ASSUME NEW q \in People, audience'[q] > 0
          PROVE  Deliverable(book, q) /\ q \in Keyed(book, Listed) \ dup
      BY <1>5, <1>8, <1>9, <2>1
    <2>2. QED
      BY <1>7, <2>1
  <1>12. QED
    BY <1>10, <1>11

LEMMA VerdictsHold ==
    ASSUME ReviewInv, [ReviewNext]_reviewVars
    PROVE  VerdictsAreTrue
  <1> SUFFICES ASSUME NEW s \in Slots, Busy(s), ~reviews[s].outdated, former = book,
                      reviews'[s].verdict \in {"valid", "promising"}
               PROVE  /\ reviews'[s].verdict = "valid" =>
                           \A p \in Listed : /\ Deliverable(book, p)
                                             /\ \A q \in Listed \ {p} : ~SameKey(book, p, q)
                      /\ reviews'[s].verdict = "promising" => \E p \in People : Deliverable(book, p)
    BY DEF VerdictsAreTrue
  <1>1. /\ reviews[s] \in Review /\ ReviewHolds(reviews[s]) /\ reviews \in [Slots -> Review]
        /\ reviews[s].verdict = "none"
    BY DEF ReviewInv, ReviewHolds, Busy, Doing
  <1>2. \A t \in Slots : \A r : Outdate(t, r) => s = t /\ reviews'[s] = r
    <2> SUFFICES ASSUME NEW t \in Slots, NEW r, Outdate(t, r), s # t  PROVE FALSE
      BY <1>1 DEF Outdate
    <2>1. reviews'[s] = [reviews[s] EXCEPT !.outdated = Busy(s)]
      BY DEF Outdate
    <2>2. [reviews[s] EXCEPT !.outdated = Busy(s)].verdict = "none"
      BY <1>1 DEF Review
    <2>3. QED
      BY <2>1, <2>2
  <1>3. \A t \in Slots : \A r : Proceed(t, r) => s = t /\ reviews'[s] = r
    BY <1>1 DEF Proceed
  <1>4. \A v : Answered(s, v).verdict = v
    BY DEF Answered, NoReview
  <1>5. Fetch(s)
    <2>1. reviews' # reviews
      BY <1>1
    <2>2. ~ChangeContact
      <3>1. [reviews[s] EXCEPT !.outdated = Busy(s)].verdict = "none"
        BY <1>1 DEF Review
      <3>2. QED
        BY <3>1 DEF ChangeContact
    <2>3. ~ExpireCopies /\ ~Look
      BY <2>1 DEF ExpireCopies, Look
    <2>4. ASSUME NEW op \in {"compute", "clear", "validate", "remove", "sample"}, Ask(op)
          PROVE  FALSE
      BY <1>3, <2>4 DEF Ask
    <2>5. ASSUME NEW t \in Slots
          PROVE  ~Wipe(t) /\ ~Fill(t) /\ ~Delete(t)
      <3>1. ~Fill(t) /\ ~Delete(t)
        BY <1>2, <1>4 DEF Fill, Delete
      <3>2. [reviews[s] EXCEPT !.pc = "select"].verdict = "none"
        BY <1>1 DEF Review
      <3>3. QED
        BY <1>2, <1>4, <3>1, <3>2 DEF Wipe
    <2>6. ASSUME NEW t \in Slots
          PROVE  ~Select(t) /\ ~ReadRows(t) /\ ~Break(t)
      <3>1. ~Break(t)
        BY <1>3 DEF Break, NoReview
      <3>2. \A list : [reviews[s] EXCEPT !.pc = "fetch", !.list = list].verdict = "none"
        BY <1>1 DEF Review
      <3>3. ~Select(t)
        BY <1>3, <3>2 DEF Select
      <3>4. ~ReadRows(t)
        BY <1>3, <1>4, <3>2 DEF ReadRows
      <3>5. QED
        BY <3>1, <3>3, <3>4
    <2>7. PICK t \in Slots : Fetch(t)
      BY <2>1, <2>2, <2>3, <2>4, <2>5, <2>6 DEF ReviewNext, reviewVars
    <2>8. t = s
      BY <1>3, <2>7 DEF Fetch
    <2>9. QED
      BY <2>7, <2>8
  <1>6. PICK found \in SUBSET reviews[s].list :
          \E r \in Judged([reviews[s] EXCEPT !.blind = found /= reviews[s].list,
                                             !.outdated = @ \/ former /= book], book, found) :
              Proceed(s, r)
    BY <1>5 DEF Fetch
  <1> DEFINE q == [reviews[s] EXCEPT !.blind = found /= reviews[s].list,
                                     !.outdated = @ \/ former /= book]
  <1>7. reviews'[s] \in Judged(q, book, found)
    BY <1>3, <1>6
  <1>8. /\ q.list = reviews[s].list /\ q.op = reviews[s].op /\ q.verdict = "none"
        /\ q \in Review
    BY <1>1 DEF Review
  <1> HIDE DEF q
  <1>9. q.op # "compute"
    <2>1. [q EXCEPT !.pc = "fill", !.list = {p \in found : Deliverable(book, p)}].verdict = "none"
      BY <1>8 DEF Review
    <2>2. QED
      BY <1>7, <2>1 DEF Judged
  <1>10. CASE q.op = "sample"
    <2>1. reviews'[s].verdict = IF \E p \in found : Deliverable(book, p)
                                THEN "promising" ELSE "invalid"
      BY <1>7, <1>10 DEF Judged, NoReview
    <2>2. found \in SUBSET People
      BY <1>1 DEF Review
    <2>3. QED
      BY <2>1, <2>2
  <1>11. CASE q.op # "sample"
    <2>1. PICK dup \in Duplicates(book, found) :
            reviews'[s] = LET issues == dup \cup (q.list \ {p \in found : Deliverable(book, p)}) IN
                IF q.op = "remove" /\ issues /= {}
                THEN [q EXCEPT !.pc = "delete", !.issues = issues]
                ELSE [NoReview EXCEPT !.verdict = IF issues = {} THEN "valid" ELSE "invalid",
                                      !.blind = q.blind, !.outdated = q.outdated]
      BY <1>7, <1>9, <1>11 DEF Judged
    <2> DEFINE issues == dup \cup (q.list \ {p \in found : Deliverable(book, p)})
    <2>2. [q EXCEPT !.pc = "delete", !.issues = issues].verdict = "none"
      BY <1>8 DEF Review
    <2>3. issues = {} /\ reviews'[s].verdict = "valid"
      BY <2>1, <2>2 DEF NoReview
    <2>4. q.list = Listed
      BY <1>1, <1>5, <1>8, <1>9, <1>11 DEF ReviewHolds, Fetch, Doing
    <2>5. found = Listed /\ dup = {} /\ \A p \in Listed : Deliverable(book, p)
      BY <1>8, <2>3, <2>4
    <2>6. Listed \in SUBSET People
      BY DEF Listed
    <2>7. \A p \in Listed : p \in Keyed(book, Listed) \ dup
      BY <2>5, DeliverableIsKeyed DEF ReviewInv
    <2>8. \A x, y \in Keyed(book, Listed) \ dup : SameKey(book, x, y) => x = y
      BY <2>1, <2>5, <2>6, OneIsLeft
    <2>9. QED
      BY <2>3, <2>5, <2>7, <2>8
  <1>12. QED
    BY <1>10, <1>11

\* However the requests on one audience interleave with each other and with the
\* changes of its contacts: a removal that was not disturbed leaves somebody at every
\* address that could be reached and an audience nothing is wrong with, and an
\* audience is called valid, or a sample promising, only if it is.
THEOREM ReviewsDoWhatTheySay == ReviewSpec => ReviewsAreSound
  <1>1. ReviewInit => ReviewInv
    BY ReviewInitially
  <1>2. ReviewInv /\ [ReviewNext]_reviewVars => ReviewInv'
    BY ReviewStep
  <1>3. ReviewInv /\ [ReviewNext]_reviewVars => [RemovalIsSound /\ VerdictsAreTrue]_reviewVars
    BY RemovalsAreSound, VerdictsHold
  <1>4. QED
    BY <1>1, <1>2, <1>3, PTL DEF ReviewSpec, ReviewsAreSound
=============================================================================

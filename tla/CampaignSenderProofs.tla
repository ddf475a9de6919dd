-------------------------- MODULE CampaignSenderProofs --------------------------
(***************************************************************************)
(* What the sender promises of a recipient and of a page, for any number   *)
(* of handlers, replicas, pages, faults and packings: an outcome is        *)
(* decided once, no message goes out more often than faults explain, and   *)
(* every page is accounted for.                                            *)
(*                                                                         *)
(* The handlers carry what they read of a row across a send that may take  *)
(* minutes; the update that ends it tests the row again.  What remains is  *)
(* the packer, which deletes every row before it inserts new ones: an      *)
(* outcome can only disappear with its row, never turn into another one.   *)
(***************************************************************************)
EXTENDS CampaignSender, FiniteSetTheorems, TLAPS

RowRecords == [id : Nat, status : RowStatuses]

\* Between the deletion of the audience and its insertion there are no rows,
\* and no handler brings one back.
RowsInv ==
    /\ rows \in [Contacts -> RowRecords]
    /\ repacks \in Nat
    /\ packing = "cleared" => \A c \in Contacts : rows[c].status = "NONE"

Decided == {"SENT", "FAILED", "SKIPPED"}

\* What a step may do to a row.
KeepsDecided(c) ==
    rows[c].status \in Decided => rows'[c] = rows[c] \/ rows'[c].status = "NONE"

\* The update of a row writes an outcome over PENDING, and over nothing else.
LEMMA UpdateRowKeeps ==
    ASSUME RowsInv, NEW c, NEW id, NEW to \in RowStatuses, UpdateRow(c, id, to)
    PROVE  /\ rows' \in [Contacts -> RowRecords]
           /\ \A d \in Contacts : rows[d].status # "PENDING" => rows'[d] = rows[d]
  <1>1. rows' = [rows EXCEPT ![c] = IF rows[c].id = id /\ rows[c].status = "PENDING"
                                    THEN [rows[c] EXCEPT !.status = to] ELSE rows[c]]
    BY DEF UpdateRow
  <1>2. CASE c \in Contacts /\ rows[c].id = id /\ rows[c].status = "PENDING"
    <2>1. [rows[c] EXCEPT !.status = to] \in RowRecords
      BY <1>2 DEF RowsInv, RowRecords
    <2>2. QED
      BY <1>1, <1>2, <2>1 DEF RowsInv
  <1>3. CASE ~(c \in Contacts /\ rows[c].id = id /\ rows[c].status = "PENDING")
    <2>1. rows' = rows
      BY <1>1, <1>3 DEF RowsInv
    <2>2. QED
      BY <2>1 DEF RowsInv
  <1>4. QED
    BY <1>2, <1>3

\* A step that leaves the audience alone keeps everything.
LEMMA RowsElsewhere ==
    ASSUME RowsInv, UNCHANGED <<rows, packing>>, repacks' = repacks
    PROVE  RowsInv' /\ \A c \in Contacts : KeepsDecided(c)
  BY DEF RowsInv, KeepsDecided

LEMMA MarkRowKeeps ==
    ASSUME RowsInv, NEW w \in Workers, MarkRow(w)
    PROVE  RowsInv' /\ \A c \in Contacts : KeepsDecided(c)
  <1>1. PICK to \in Decided : /\ UpdateRow(Current(w), CurrentRow(w).id, to)
                              /\ UNCHANGED <<packing, repacks>>
    BY DEF MarkRow, Mark, Decided
  <1>2. to \in RowStatuses
    BY <1>1 DEF Decided, RowStatuses
  <1>3. /\ rows' \in [Contacts -> RowRecords]
        /\ \A d \in Contacts : rows[d].status # "PENDING" => rows'[d] = rows[d]
    BY <1>1, <1>2, UpdateRowKeeps
  <1>4. \A c \in Contacts : KeepsDecided(c)
    BY <1>3 DEF KeepsDecided, Decided
  <1>5. RowsInv'
    BY <1>1, <1>3 DEF RowsInv
  <1>6. QED
    BY <1>4, <1>5

LEMMA StepKeepsRows ==
    ASSUME RowsInv, NEW w \in Workers, Step(w) \/ DeliverSome(w) \/ Fail(w) \/ ReplyLost(w)
    PROVE  RowsInv' /\ \A c \in Contacts : KeepsDecided(c)
  <1>1. CASE MarkRow(w)
    BY <1>1, MarkRowKeeps
  <1>2. CASE ~MarkRow(w)
    <2>1. UNCHANGED <<rows, packing, repacks>>
      BY <1>2 DEF Step, DeliverSome, Deliver, Fail, ReplyLost, LoadCampaign, CampaignMissing,
         Discard, CacheLoaded, LoadTemplate, TemplateMissing, LoadRows, Recheck, RecheckCached,
         RecheckMiss, RecheckRefresh, PollAbort, ResolveContact, DispatchAccepted,
         DispatchRefused, DispatchTransient, RateLimited, CountPage, PublishTracked, Ack,
         audienceVars
    <2>2. QED
      BY <2>1, RowsElsewhere
  <1>3. QED
    BY <1>1, <1>2

LEMMA EnvironmentKeepsRows ==
    ASSUME SenderAssumption, RowsInv, Environment
    PROVE  RowsInv' /\ \A c \in Contacts : KeepsDecided(c)
  <1>1. CASE ClearAudience
    <2>1. \A c \in Contacts : [rows[c] EXCEPT !.status = "NONE"] \in RowRecords
      BY DEF RowsInv, RowRecords, RowStatuses
    <2>2. \A c \in Contacts : rows'[c].status = "NONE"
      BY <1>1 DEF ClearAudience, RowsInv, RowRecords
    <2>3. rows' \in [Contacts -> RowRecords] /\ repacks' = repacks
      BY <1>1, <2>1 DEF ClearAudience
    <2>4. QED
      BY <2>2, <2>3 DEF RowsInv, KeepsDecided
  <1>2. CASE PopulateAudience
    <2>1. /\ rows' = [c \in Contacts |-> [id |-> repacks + 1, status |-> "PENDING"]]
          /\ packing' = "populated" /\ repacks' = repacks /\ packing = "cleared"
      BY <1>2 DEF PopulateAudience
    <2>2. [id |-> repacks + 1, status |-> "PENDING"] \in RowRecords
      BY DEF RowsInv, RowRecords, RowStatuses
    <2>3. \A c \in Contacts : KeepsDecided(c)
      BY <2>1 DEF RowsInv, KeepsDecided, Decided
    <2>4. RowsInv'
      BY <2>1, <2>2 DEF RowsInv
    <2>5. QED
      BY <2>3, <2>4
  <1>3. CASE PublishPages
    <2>1. rows' = rows /\ repacks' = repacks + 1 /\ packing' = "idle"
      BY <1>3 DEF PublishPages
    <2>2. QED
      BY <2>1 DEF RowsInv, KeepsDecided
  <1>4. CASE ~(ClearAudience \/ PopulateAudience \/ PublishPages)
    <2>1. UNCHANGED <<rows, packing, repacks>>
      BY <1>4 DEF Environment, Pause, Resume, Stop, OwnerSets, OwnerAct, RemoveUnder, Complete,
         audienceVars
    <2>2. QED
      BY <2>1, RowsElsewhere
  <1>5. QED
    BY <1>1, <1>2, <1>3, <1>4

LEMMA NextKeepsRows ==
    ASSUME SenderAssumption, RowsInv, [Next]_vars
    PROVE  RowsInv' /\ \A c \in Contacts : KeepsDecided(c)
  <1>1. CASE Environment
    BY <1>1, EnvironmentKeepsRows
  <1>2. ASSUME NEW h \in Hosts,
               HandleControl(h) \/ ExpireCache(h) \/ Crash(h) \/ LoseChannel(h)
        PROVE  RowsInv' /\ \A c \in Contacts : KeepsDecided(c)
    <2>1. UNCHANGED <<rows, packing, repacks>>
      BY <1>2 DEF HandleControl, ExpireCache, Crash, LoseChannel, audienceVars
    <2>2. QED
      BY <2>1, RowsElsewhere
  <1>3. ASSUME NEW w \in Workers, DeliverSome(w) \/ Step(w) \/ Fail(w) \/ ReplyLost(w)
        PROVE  RowsInv' /\ \A c \in Contacts : KeepsDecided(c)
    BY <1>3, StepKeepsRows
  <1>4. CASE UNCHANGED vars
    BY <1>4, RowsElsewhere DEF vars, audienceVars
  <1>5. QED
    BY <1>1, <1>2, <1>3, <1>4 DEF Next

\* No handler, however long ago it read the row, overwrites an outcome: a row
\* leaves SENT, FAILED or SKIPPED only by being deleted.
THEOREM OutcomesAreFinal == Spec => RowsDecidedOnce
  <1>1. Init => RowsInv
    BY SenderAssumption DEF Init, RowsInv, RowRecords, RowStatuses
  <1>2. RowsInv /\ [Next]_vars => RowsInv'
    BY NextKeepsRows, SenderAssumption
  <1>3. RowsInv /\ [Next]_vars =>
            [\A c \in Contacts :
               rows[c].status \in {"SENT", "FAILED", "SKIPPED"} =>
                   \/ rows'[c] = rows[c]
                   \/ rows'[c].status = "NONE"]_vars
    BY NextKeepsRows, SenderAssumption DEF KeepsDecided, Decided
  <1>4. QED
    BY <1>1, <1>2, <1>3, PTL DEF Spec, RowsDecidedOnce

-------------------------------------------------------------------------------
(* The first of finitely many numbers, hence of the contacts left on a page.  *)

LEMMA FirstOfFinite ==
    ASSUME NEW T \in SUBSET Nat, IsFiniteSet(T), T # {}
    PROVE  \E x \in T : \A y \in T : x <= y
  <1> DEFINE Below(x) == {y \in T : y <= x}
             R == StrictSubsetOrdering(T)
             D == {Below(x) : x \in T}
  <1>1. IsWellFoundedOn(R, FiniteSubsetsOf(T))
    BY FS_StrictSubsetOrderingWellFounded
  <1>2. D \subseteq FiniteSubsetsOf(T) /\ D # {}
    <2>1. \A x \in T : IsFiniteSet(Below(x))
      BY FS_Subset
    <2>2. QED
      BY <2>1 DEF FiniteSubsetsOf
  <1>3. PICK d \in D : \A e \in D : ~ (<<e, d>> \in R)
    <2> HIDE DEF R, D
    <2>1. QED
      BY <1>1, <1>2, WFMin
  <1>4. PICK x \in T : d = Below(x)
    OBVIOUS
  <1>5. ASSUME NEW y \in T, y < x
        PROVE  FALSE
    <2>1. \A z \in T : z \in Nat
      OBVIOUS
    <2>2. \A z \in T : z <= y => z <= x
      BY <2>1, <1>5
    <2>3. Below(y) \subseteq Below(x)
      BY <2>2
    <2>4. x \in T /\ ~(x <= y) /\ x <= x
      BY <1>5, <2>1
    <2>5. x \notin Below(y) /\ x \in Below(x)
      BY <2>4
    <2>6. Below(y) \in D
      OBVIOUS
    <2>7. QED
      BY <2>3, <2>5, <2>6, <1>3, <1>4 DEF StrictSubsetOrdering
  <1>6. QED
    BY <1>5

LEMMA PositionType ==
    ASSUME PagesAssumption, NEW p \in Pages, NEW c \in Members(p)
    PROVE  Position(p, c) \in 1 .. Len(ContactsOf[p])
  <1>1. DOMAIN ContactsOf[p] = 1 .. Len(ContactsOf[p])
    BY DEF PagesAssumption
  <1>2. \E i \in DOMAIN ContactsOf[p] : ContactsOf[p][i] = c
    BY DEF Members, Elements
  <1>3. QED
    BY <1>1, <1>2 DEF Position

\* A handler with rows left has a current one.
LEMMA CurrentRowLeft ==
    ASSUME PagesAssumption, NEW w \in Workers, Page(w) \in Pages, todo[w] # {},
           \A r \in todo[w] : r.contact \in Members(Page(w))
    PROVE  CurrentRow(w) \in todo[w]
  <1> DEFINE At(r) == Position(Page(w), r.contact)
             T == {At(r) : r \in todo[w]}
  <1>1. ContactsOf[Page(w)] \in Seq(Members(Page(w)))
    BY DEF PagesAssumption
  <1>2. Len(ContactsOf[Page(w)]) \in Nat
    BY <1>1
  <1>3. T \subseteq 1 .. Len(ContactsOf[Page(w)]) /\ T # {}
    BY PositionType
  <1>4. IsFiniteSet(1 .. Len(ContactsOf[Page(w)]))
    BY <1>2, FS_Interval
  <1>5. IsFiniteSet(T) /\ T \in SUBSET Nat
    <2> HIDE DEF T
    <2>1. IsFiniteSet(T)
      BY <1>3, <1>4, FS_Subset
    <2>2. QED
      BY <1>2, <1>3, <2>1
  <1>6. PICK x \in T : \A y \in T : x <= y
    <2> HIDE DEF T
    <2>1. QED
      BY <1>3, <1>5, FirstOfFinite
  <1>7. PICK r \in todo[w] : x = At(r)
    OBVIOUS
  <1>8. \A s \in todo[w] : At(r) <= At(s)
    BY <1>6, <1>7
  <1>9. QED
    BY <1>8 DEF CurrentRow

-------------------------------------------------------------------------------
(* The handlers.  What each step does to the handler that takes it, and that   *)
(* it leaves the others alone.                                                 *)

Early == {"load", "cache", "template", "rows"}
Marking == {"markSent", "markFailed", "markSkipped"}
AtContact == {"refresh", "resolve", "dispatch", "backoff", "repoll"} \cup Marking
Sending == {"next"} \cup AtContact

\* A handler at work has a message; after reading its rows it works on contacts
\* of its page, and has one at hand where a step needs one.
Own(w) ==
    /\ pc[w] \in PCs
    /\ msg[w] \in Message \cup {NoMessage}
    /\ owned[w] \in BOOLEAN
    /\ todo[w] \subseteq [contact : Contacts, id : Nat]
    /\ pc[w] # "idle" => msg[w] \in Message
    /\ owned[w] => pc[w] # "idle"
    /\ pc[w] \in AtContact => todo[w] # {}
    /\ \A r \in todo[w] : pc[w] \in Sending => r.contact \in Members(Page(w))

AreKept ==
    /\ pc = [v \in Workers |-> pc[v]]
    /\ msg = [v \in Workers |-> msg[v]]
    /\ owned = [v \in Workers |-> owned[v]]
    /\ todo = [v \in Workers |-> todo[v]]
    /\ counts = [v \in Workers |-> counts[v]]

HandlersInv ==
    /\ AreKept
    /\ \A w \in Workers : Own(w)
    /\ sendQ \in [Message -> Nat]
    /\ dead \in [Message -> Nat]
    /\ sends \in [Contacts -> Nat]
    /\ faults \in Nat
    /\ \A r \in reports : r.page \in Pages

OthersKeep(w) ==
    /\ AreKept'
    /\ \A v \in Workers \ {w} :
        /\ pc'[v] = pc[v] /\ msg'[v] = msg[v] /\ owned'[v] = owned[v]
        /\ todo'[v] = todo[v] /\ counts'[v] = counts[v]

Keeps(w) ==
    /\ OthersKeep(w)
    /\ msg'[w] = msg[w] /\ owned'[w] = owned[w]
    /\ UNCHANGED <<sendQ, dead, repacks, packing, dropped>>

\* The steps that only move a handler on: they change nothing others depend on.
Walks(w) ==
    /\ Keeps(w)
    /\ todo'[w] = todo[w] /\ counts'[w] = counts[w]
    /\ UNCHANGED <<rows, sends, reports, faults>>
    /\ aborted \subseteq aborted'
    /\ \/ pc[w] \in Early /\ pc'[w] \in Early
       \/ pc[w] # "idle" /\ pc'[w] = "ack" /\ Page(w) \in aborted'
       \/ /\ pc[w] \in Sending \ Marking
          /\ pc'[w] \in AtContact \ {"markSent"}
          /\ todo[w] # {}

\* The CRM accepts a message.
Sends(w) ==
    /\ Keeps(w)
    /\ todo'[w] = todo[w] /\ counts'[w] = counts[w]
    /\ UNCHANGED <<rows, reports, aborted>>
    /\ pc[w] = "dispatch"
    /\ Accept(w)
    /\ \/ pc'[w] = "markSent" /\ faults' = faults
       \/ pc'[w] \in {"markFailed", "backoff"} /\ faults' = faults + 1

\* A handler ends: its page was dealt with, was refused, or is taken back.
Leaves(w) ==
    /\ OthersKeep(w)
    /\ pc'[w] = "idle" /\ msg'[w] = NoMessage /\ owned'[w] = FALSE
    /\ todo'[w] = {} /\ counts'[w] = NoCounts
    /\ pc[w] # "idle"
    /\ UNCHANGED <<rows, repacks, packing, sends, reports, aborted>>
    /\ \/ UNCHANGED <<sendQ, dead, faults>> /\ dropped' = dropped \cup {Page(w)}
       \/ UNCHANGED <<sendQ, dead, faults, dropped>> /\ pc[w] = "ack"
       \/ /\ UNCHANGED dropped
          /\ (pc[w] = "dispatch" /\ faults' = faults) \/ faults' = faults + 1
          /\ IF owned[w]
             THEN sendQ' = QueueAfterNack(sendQ, msg[w]) /\ dead' = DeadAfterNack(dead, msg[w])
             ELSE UNCHANGED <<sendQ, dead>>

LEMMA SettleLeaves ==
    ASSUME HandlersInv, NEW w \in Workers, Settle(w)
    PROVE  /\ OthersKeep(w)
           /\ pc'[w] = "idle" /\ msg'[w] = NoMessage /\ owned'[w] = FALSE
           /\ todo'[w] = {} /\ counts'[w] = NoCounts
  BY DEF HandlersInv, Own, Settle, Goto, OthersKeep, AreKept

LEMMA GotoMoves ==
    ASSUME HandlersInv, NEW w \in Workers, NEW label, Goto(w, label)
    PROVE  /\ pc'[w] = label /\ \A v \in Workers \ {w} : pc'[v] = pc[v]
           /\ pc' = [v \in Workers |-> pc'[v]]
           /\ AreKept
  BY DEF HandlersInv, Own, AreKept, Goto

LEMMA DecideMoves ==
    ASSUME HandlersInv, NEW w \in Workers, NEW current, NEW label, Decide(w, current, label)
    PROVE  /\ \A v \in Workers \ {w} : pc'[v] = pc[v]
           /\ pc' = [v \in Workers |-> pc'[v]]
           /\ AreKept
           /\ aborted \subseteq aborted'
           /\ \/ pc'[w] = label
              \/ pc'[w] = "ack" /\ Page(w) \in aborted'
  BY GotoMoves DEF Decide, Abort

LEMMA RecheckWalks ==
    ASSUME HandlersInv, NEW w \in Workers, Recheck(w) \/ PollAbort(w)
    PROVE  Walks(w)
  <1>1. ASSUME NEW from \in {"next", "backoff"}, NEW label \in {"resolve", "dispatch"},
               RecheckCached(w, from, label)
        PROVE  Walks(w)
    BY <1>1, DecideMoves DEF RecheckCached, Walks, Keeps, OthersKeep, AreKept, Sending, AtContact,
       Marking, audienceVars, brokerVars
  <1>2. ASSUME NEW from \in {"next", "backoff"}, NEW label \in {"refresh", "repoll"},
               RecheckMiss(w, from, label)
        PROVE  Walks(w)
    BY <1>2, GotoMoves DEF RecheckMiss, Walks, Keeps, OthersKeep, AreKept, Sending, AtContact,
       Marking, audienceVars, brokerVars, outputVars
  <1>3. ASSUME NEW from \in {"refresh", "repoll"}, NEW label \in {"resolve", "dispatch"},
               RecheckRefresh(w, from, label)
        PROVE  Walks(w)
    <2>1. todo[w] # {}
      BY <1>3 DEF RecheckRefresh, HandlersInv, AreKept, Own, AtContact
    <2>2. QED
      BY <1>3, <2>1, DecideMoves DEF RecheckRefresh, Walks, Keeps, OthersKeep, AreKept, Sending,
         AtContact, Marking, audienceVars, brokerVars
  <1>4. QED
    BY <1>1, <1>2, <1>3 DEF Recheck, PollAbort

LEMMA EarlyWalks ==
    ASSUME HandlersInv, NEW w \in Workers,
           LoadCampaign(w) \/ CacheLoaded(w) \/ LoadTemplate(w)
    PROVE  Walks(w)
  <1>1. CASE LoadCampaign(w)
    BY <1>1, GotoMoves DEF LoadCampaign, Walks, Keeps, OthersKeep, AreKept, Early, audienceVars,
       brokerVars, outputVars
  <1>2. CASE CacheLoaded(w)
    BY <1>2, GotoMoves DEF CacheLoaded, Abort, Walks, Keeps, OthersKeep, AreKept, Early, audienceVars,
       brokerVars
  <1>3. CASE LoadTemplate(w)
    BY <1>3, GotoMoves DEF LoadTemplate, Walks, Keeps, OthersKeep, AreKept, Early, audienceVars,
       brokerVars, outputVars
  <1>4. QED
    BY <1>1, <1>2, <1>3

LEMMA DispatchWalks ==
    ASSUME HandlersInv, NEW w \in Workers,
           ResolveContact(w) \/ DispatchRefused(w) \/ DispatchTransient(w)
    PROVE  Walks(w)
  <1>1. todo[w] # {}
    BY DEF ResolveContact, DispatchRefused, DispatchTransient, HandlersInv, AreKept, Own, AtContact
  <1>2. CASE ResolveContact(w)
    BY <1>1, <1>2, GotoMoves DEF ResolveContact, Walks, Keeps, OthersKeep, AreKept, Sending, AtContact,
       Marking, audienceVars, brokerVars, outputVars
  <1>3. CASE DispatchRefused(w)
    BY <1>1, <1>3, GotoMoves DEF DispatchRefused, Walks, Keeps, OthersKeep, AreKept, Sending, AtContact,
       Marking, audienceVars, brokerVars, outputVars
  <1>4. CASE DispatchTransient(w)
    BY <1>1, <1>4, GotoMoves DEF DispatchTransient, RetryOrGiveUp, Walks, Keeps, OthersKeep, AreKept,
       Sending, AtContact, Marking, audienceVars, brokerVars, outputVars
  <1>5. QED
    BY <1>2, <1>3, <1>4

LEMMA AcceptedSends ==
    ASSUME HandlersInv, NEW w \in Workers, DispatchAccepted(w) \/ ReplyLost(w)
    PROVE  Sends(w)
  <1>1. CASE DispatchAccepted(w)
    BY <1>1, GotoMoves DEF DispatchAccepted, Sends, Keeps, OthersKeep, AreKept, audienceVars, brokerVars,
       outputVars
  <1>2. CASE ReplyLost(w)
    BY <1>2, GotoMoves DEF ReplyLost, OneMoreFault, RetryOrGiveUp, Sends, Keeps, OthersKeep, AreKept,
       audienceVars, brokerVars, outputVars
  <1>3. QED
    BY <1>1, <1>2

LEMMA EndsLeave ==
    ASSUME HandlersInv, NEW w \in Workers,
           CampaignMissing(w) \/ TemplateMissing(w) \/ RateLimited(w) \/ Ack(w) \/ Fail(w)
    PROVE  Leaves(w)
  <1>1. CASE CampaignMissing(w) \/ TemplateMissing(w)
    BY <1>1, SettleLeaves DEF CampaignMissing, TemplateMissing, Discard, Leaves, audienceVars,
       brokerVars
  <1>2. CASE RateLimited(w)
    BY <1>2, SettleLeaves DEF RateLimited, Leaves, audienceVars, brokerVars, outputVars
  <1>3. CASE Ack(w)
    BY <1>3, SettleLeaves DEF Ack, Leaves, audienceVars, brokerVars, outputVars
  <1>4. CASE Fail(w)
    BY <1>4, SettleLeaves DEF Fail, OneMoreFault, Leaves, audienceVars, brokerVars, outputVars
  <1>5. QED
    BY <1>1, <1>2, <1>3, <1>4

\* Every step of a handler is of one of these kinds.
LEMMA StepKinds ==
    ASSUME HandlersInv, NEW w \in Workers, Step(w) \/ Fail(w) \/ ReplyLost(w)
    PROVE  \/ Walks(w) \/ Sends(w) \/ Leaves(w)
           \/ LoadRows(w) \/ MarkRow(w) \/ CountPage(w) \/ PublishTracked(w)
  BY RecheckWalks, EarlyWalks, DispatchWalks, AcceptedSends, EndsLeave DEF Step

LEMMA PageType ==
    ASSUME HandlersInv, NEW w \in Workers, pc[w] # "idle"
    PROVE  /\ Page(w) \in Pages
           /\ Members(Page(w)) \subseteq Contacts
  BY BodyType DEF HandlersInv, AreKept, Own, Message, Page, Contacts

\* A handler at a contact has a row of its page at hand.
LEMMA AtHand ==
    ASSUME HandlersInv, PagesAssumption, NEW w \in Workers, pc[w] \in Sending, todo[w] # {}
    PROVE  /\ CurrentRow(w) \in todo[w]
           /\ Current(w) \in Members(Page(w))
           /\ Current(w) \in Contacts
           /\ CurrentRow(w).id \in Nat
  <1>1. pc[w] # "idle"
    BY DEF Sending, AtContact, Marking
  <1>2. Page(w) \in Pages /\ Members(Page(w)) \subseteq Contacts
    BY <1>1, PageType
  <1>3. \A r \in todo[w] : r.contact \in Members(Page(w)) /\ r.id \in Nat
    BY DEF HandlersInv, AreKept, Own
  <1>4. CurrentRow(w) \in todo[w]
    BY <1>2, <1>3, CurrentRowLeft
  <1>5. QED
    BY <1>2, <1>3, <1>4 DEF Current

LEMMA LoadRowsMoves ==
    ASSUME HandlersInv, NEW w \in Workers, LoadRows(w)
    PROVE  /\ Keeps(w)
           /\ counts'[w] = counts[w]
           /\ pc[w] = "rows" /\ pc'[w] = "next"
           /\ todo'[w] = {[contact |-> c, id |-> rows[c].id] :
                              c \in {d \in Members(Page(w)) : rows[d].status = "PENDING"}}
           /\ UNCHANGED <<rows, sends, reports, faults, aborted>>
  BY GotoMoves DEF LoadRows, IsPending, Keeps, OthersKeep, AreKept, HandlersInv, Own, audienceVars, brokerVars,
     outputVars

LEMMA MarkRowMoves ==
    ASSUME HandlersInv, NEW w \in Workers, MarkRow(w)
    PROVE  /\ Keeps(w)
           /\ counts'[w] = counts[w]
           /\ pc[w] \in Marking /\ pc'[w] = "next"
           /\ todo'[w] = todo[w] \ {CurrentRow(w)}
           /\ UNCHANGED <<sends, reports, faults, aborted>>
  <1>1. PICK from \in Marking, to \in Decided : Mark(w, from, to)
    BY DEF MarkRow, Marking, Decided
  <1>2. QED
    BY <1>1, GotoMoves DEF Mark, Keeps, OthersKeep, AreKept, HandlersInv, Own, brokerVars, outputVars

LEMMA CountPageMoves ==
    ASSUME HandlersInv, NEW w \in Workers, CountPage(w)
    PROVE  /\ Keeps(w)
           /\ todo'[w] = todo[w] /\ todo[w] = {}
           /\ pc[w] = "next" /\ pc'[w] = "publish"
           /\ counts'[w] = [sent   |-> Cardinality(InStatus(Page(w), "SENT")),
                            failed |-> Cardinality(InStatus(Page(w), "FAILED"))]
           /\ UNCHANGED <<rows, sends, reports, faults, aborted>>
  BY GotoMoves DEF CountPage, Keeps, OthersKeep, AreKept, HandlersInv, Own, audienceVars, brokerVars, outputVars

LEMMA PublishTrackedMoves ==
    ASSUME HandlersInv, NEW w \in Workers, PublishTracked(w)
    PROVE  /\ Keeps(w)
           /\ todo'[w] = todo[w] /\ counts'[w] = counts[w]
           /\ pc[w] = "publish" /\ pc'[w] = "ack"
           /\ reports' = reports \cup {ReportOf(w)}
           /\ UNCHANGED <<rows, sends, faults, aborted>>
  BY GotoMoves DEF PublishTracked, Keeps, OthersKeep, AreKept, audienceVars, brokerVars

LEMMA DeliverMoves ==
    ASSUME HandlersInv, NEW w \in Workers, NEW m \in Message, Deliver(w, m)
    PROVE  /\ OthersKeep(w)
           /\ pc[w] = "idle" /\ pc'[w] = "load"
           /\ msg'[w] = m /\ owned'[w] = TRUE
           /\ todo'[w] = todo[w] /\ counts'[w] = counts[w]
           /\ m \in Waiting(sendQ) /\ sendQ' = Remove(sendQ, m)
           /\ UNCHANGED <<rows, repacks, packing, dead, sends, reports, faults, aborted, dropped>>
  BY GotoMoves DEF Deliver, OthersKeep, AreKept, HandlersInv, Own, audienceVars, brokerVars, outputVars

-------------------------------------------------------------------------------
(* The handlers' own invariant.                                                *)

LEMMA OwnKept ==
    ASSUME HandlersInv, NEW w \in Workers, OthersKeep(w), Own(w)',
           sendQ' \in [Message -> Nat], dead' \in [Message -> Nat],
           sends' \in [Contacts -> Nat], faults' \in Nat,
           \A r \in reports' : r.page \in Pages
    PROVE  HandlersInv'
  <1>1. ASSUME NEW v \in Workers \ {w}
        PROVE  Own(v)'
    BY DEF HandlersInv, OthersKeep, Own, Page
  <1>2. QED
    BY <1>1 DEF HandlersInv, OthersKeep

LEMMA WalksKeepsHandlers ==
    ASSUME HandlersInv, NEW w \in Workers, Walks(w)
    PROVE  HandlersInv'
  <1>1. Own(w)'
    BY DEF HandlersInv, Own, Walks, Keeps, Page, PCs, Early, Sending, AtContact, Marking
  <1>2. QED
    BY <1>1, OwnKept DEF HandlersInv, Walks, Keeps

LEMMA SendsKeepsHandlers ==
    ASSUME PagesAssumption, HandlersInv, NEW w \in Workers, Sends(w)
    PROVE  HandlersInv'
  <1>1. Own(w)'
    BY DEF HandlersInv, Own, Sends, Keeps, Page, PCs, Sending, AtContact, Marking
  <1>2. sends' \in [Contacts -> Nat]
    <2>1. Current(w) \in Contacts
      BY AtHand DEF HandlersInv, Own, Sends, Sending, AtContact
    <2>2. sends' = [sends EXCEPT ![Current(w)] = sends[Current(w)] + 1]
      BY DEF Sends, Accept
    <2>3. QED
      BY <2>1, <2>2 DEF HandlersInv
  <1>3. faults' \in Nat
    BY DEF HandlersInv, Sends
  <1>4. QED
    BY <1>1, <1>2, <1>3, OwnKept DEF HandlersInv, Sends, Keeps

LEMMA LeavesKeepsHandlers ==
    ASSUME HandlersInv, NEW w \in Workers, Leaves(w)
    PROVE  HandlersInv'
  <1>1. Own(w)'
    BY DEF Own, Leaves, PCs, Sending, AtContact, Marking
  <1>2. msg[w] \in Messages(Pages)
    BY DEF HandlersInv, Own, Leaves, Message
  <1>3. sendQ' \in [Message -> Nat] /\ dead' \in [Message -> Nat]
    BY <1>2, NackType DEF HandlersInv, Leaves, Message
  <1>4. faults' \in Nat
    BY DEF HandlersInv, Leaves
  <1>5. QED
    BY <1>1, <1>3, <1>4, OwnKept DEF HandlersInv, Leaves

LEMMA LoadRowsKeepsHandlers ==
    ASSUME RowsInv, HandlersInv, NEW w \in Workers, LoadRows(w)
    PROVE  HandlersInv'
  <1>1. Members(Page(w)) \subseteq Contacts
    BY LoadRowsMoves, PageType
  <1>2. \A c \in Contacts : rows[c].id \in Nat
    BY DEF RowsInv, RowRecords
  <1>3. /\ todo'[w] \subseteq [contact : Contacts, id : Nat]
        /\ \A r \in todo'[w] : r.contact \in Members(Page(w))
    BY <1>1, <1>2, LoadRowsMoves
  <1>4. Own(w)'
    BY <1>3, LoadRowsMoves DEF HandlersInv, Own, Keeps, Page, PCs, Sending, AtContact, Marking
  <1>5. QED
    BY <1>4, LoadRowsMoves, OwnKept DEF HandlersInv, Keeps

LEMMA MarkRowKeepsHandlers ==
    ASSUME HandlersInv, NEW w \in Workers, MarkRow(w)
    PROVE  HandlersInv'
  <1>1. Own(w)'
    BY MarkRowMoves DEF HandlersInv, Own, Keeps, Page, PCs, Sending, AtContact, Marking
  <1>2. QED
    BY <1>1, MarkRowMoves, OwnKept DEF HandlersInv, Keeps

LEMMA CountPageKeepsHandlers ==
    ASSUME HandlersInv, NEW w \in Workers, CountPage(w)
    PROVE  HandlersInv'
  <1>1. Own(w)'
    BY CountPageMoves DEF HandlersInv, Own, Keeps, Page, PCs, Sending, AtContact, Marking
  <1>2. QED
    BY <1>1, CountPageMoves, OwnKept DEF HandlersInv, Keeps

LEMMA PublishTrackedKeepsHandlers ==
    ASSUME HandlersInv, NEW w \in Workers, PublishTracked(w)
    PROVE  HandlersInv'
  <1>1. Own(w)'
    BY PublishTrackedMoves DEF HandlersInv, Own, Keeps, Page, PCs, Sending, AtContact, Marking
  <1>2. ReportOf(w).page \in Pages
    BY PublishTrackedMoves, PageType DEF ReportOf
  <1>3. \A r \in reports' : r.page \in Pages
    BY <1>2, PublishTrackedMoves DEF HandlersInv
  <1>4. QED
    BY <1>1, <1>3, PublishTrackedMoves, OwnKept DEF HandlersInv, Keeps

LEMMA DeliverKeepsHandlers ==
    ASSUME HandlersInv, NEW w \in Workers, NEW m \in Message, Deliver(w, m)
    PROVE  HandlersInv'
  <1>1. Own(w)'
    BY DeliverMoves DEF HandlersInv, Own, PCs, Sending, AtContact, Marking
  <1>2. sendQ' \in [Message -> Nat]
    <2>1. sendQ \in [Message -> Nat] /\ m \in Waiting(sendQ)
      BY DeliverMoves DEF HandlersInv
    <2>2. Remove(sendQ, m) \in [Message -> Nat]
      BY <2>1, QueueType
    <2>3. QED
      BY <2>2, DeliverMoves
  <1>3. QED
    BY <1>1, <1>2, DeliverMoves, OwnKept DEF HandlersInv

\* A replica that dies or loses its channel gives its copies back.
LEMMA ReturnAllWaits ==
    ASSUME SenderAssumption, HandlersInv, NEW h \in Hosts, ReturnAll(h)
    PROVE  /\ sendQ' \in [Message -> Nat]
           /\ \A m \in Message : m \in Waiting(sendQ') <=>
                  m \in Waiting(sendQ) \/ Holders(h, m) # {}
  <1>1. \A m \in Message : IsFiniteSet(Holders(h, m)) /\ Cardinality(Holders(h, m)) \in Nat
    BY FS_Subset, FS_CardinalityType DEF SenderAssumption, Holders, On
  <1>2. \A m \in Message : Cardinality(Holders(h, m)) = 0 <=> Holders(h, m) = {}
    BY <1>1, FS_EmptySet
  <1>3. QED
    BY <1>1, <1>2 DEF HandlersInv, ReturnAll, Waiting

LEMMA HostKeepsHandlers ==
    ASSUME SenderAssumption, HandlersInv, NEW h \in Hosts, Crash(h) \/ LoseChannel(h)
    PROVE  HandlersInv'
  <1>1. sendQ' \in [Message -> Nat]
    BY ReturnAllWaits DEF Crash, LoseChannel
  <1>2. AreKept'
    BY DEF Crash, LoseChannel, HandlersInv, AreKept
  <1>3. ASSUME NEW v \in Workers
        PROVE  Own(v)'
    <2>1. CASE Crash(h) /\ v \in On(h)
      BY <2>1 DEF Crash, Own, PCs, Sending, AtContact, Marking
    <2>2. CASE ~(Crash(h) /\ v \in On(h))
      <3>1. /\ pc'[v] = pc[v] /\ msg'[v] = msg[v] /\ todo'[v] = todo[v]
            /\ owned'[v] \in BOOLEAN /\ (owned'[v] => owned[v])
        BY <2>2 DEF Crash, LoseChannel, HandlersInv, Own
      <3>2. QED
        BY <3>1 DEF HandlersInv, Own, Page
    <2>3. QED
      BY <2>1, <2>2
  <1>4. faults' \in Nat
    BY DEF Crash, LoseChannel, OneMoreFault, HandlersInv
  <1>5. UNCHANGED <<dead, sends, reports>>
    BY DEF Crash, LoseChannel, outputVars
  <1>6. QED
    BY <1>1, <1>2, <1>3, <1>4, <1>5 DEF HandlersInv

LEMMA StepKeepsHandlers ==
    ASSUME PagesAssumption, RowsInv, HandlersInv, NEW w \in Workers,
           DeliverSome(w) \/ Step(w) \/ Fail(w) \/ ReplyLost(w)
    PROVE  HandlersInv'
  <1>1. CASE DeliverSome(w)
    BY <1>1, DeliverKeepsHandlers DEF DeliverSome
  <1>2. CASE Step(w) \/ Fail(w) \/ ReplyLost(w)
    BY <1>2, StepKinds, WalksKeepsHandlers, SendsKeepsHandlers, LeavesKeepsHandlers,
       LoadRowsKeepsHandlers, MarkRowKeepsHandlers, CountPageKeepsHandlers,
       PublishTrackedKeepsHandlers
  <1>3. QED
    BY <1>1, <1>2

\* Whatever else happens leaves the handlers and what they write alone; only the
\* packer adds copies of pages.
Elsewhere ==
    /\ UNCHANGED <<pc, msg, owned, todo, counts, dead, sends, reports, aborted, dropped, faults>>
    /\ \/ UNCHANGED <<rows, repacks, packing, sendQ>>
       \/ ClearAudience
       \/ PopulateAudience
       \/ PublishPages

LEMMA EnvironmentElsewhere ==
    ASSUME \/ Environment
           \/ \E h \in Hosts : HandleControl(h) \/ ExpireCache(h)
           \/ UNCHANGED vars
    PROVE  Elsewhere
  BY DEF Environment, Pause, Resume, Stop, OwnerSets, OwnerAct, RemoveUnder, Complete,
     ClearAudience, PopulateAudience, PublishPages, HandleControl, ExpireCache, Elsewhere, vars,
     audienceVars, brokerVars, handlerVars, outputVars

LEMMA ElsewhereKeepsHandlers ==
    ASSUME HandlersInv, Elsewhere
    PROVE  HandlersInv'
  <1>1. sendQ' \in [Message -> Nat]
    BY DEF HandlersInv, Elsewhere, ClearAudience, PopulateAudience, PublishPages, brokerVars
  <1>2. \A w \in Workers : Own(w)'
    BY DEF HandlersInv, Elsewhere, Own, Page
  <1>3. QED
    BY <1>1, <1>2 DEF HandlersInv, AreKept, Elsewhere

-------------------------------------------------------------------------------
(* The rows as a lock.  As long as the audience is not computed again, a row   *)
(* that is PENDING stays on the list of every handler that has read its page,  *)
(* until that handler has recorded an outcome.                                 *)

Fresh == Recomputations = 0

NoPending(p) == \A c \in Members(p) : rows[c].status # "PENDING"

LockOf(w) ==
    /\ pc[w] \in Sending => \A r \in todo[w] : r.id = 0
    /\ pc[w] \in Sending =>
        \A c \in Members(Page(w)) :
            rows[c].status = "PENDING" => \E r \in todo[w] : r.contact = c
    /\ pc[w] = "publish" =>
        /\ NoPending(Page(w))
        /\ counts[w].sent = Cardinality(InStatus(Page(w), "SENT"))
        /\ counts[w].failed = Cardinality(InStatus(Page(w), "FAILED"))

Lock ==
    /\ \A c \in Contacts : rows[c].id = 0 /\ rows[c].status # "NONE"
    /\ \A w \in Workers : LockOf(w)
    /\ \A r \in reports :
        /\ NoPending(r.page)
        /\ r.sent = Cardinality(InStatus(r.page, "SENT"))
        /\ r.failed = Cardinality(InStatus(r.page, "FAILED"))

LockInv == Fresh => Lock

\* What a step does to the rows of an audience that is not computed again.
Settled ==
    \A c \in Contacts :
        /\ rows[c].status # "PENDING" => rows'[c] = rows[c]
        /\ rows'[c].id = 0 /\ rows'[c].status # "NONE"

\* A recomputation is never undone.
LEMMA FreshBefore ==
    ASSUME RowsInv, Elsewhere, Fresh'
    PROVE  Fresh /\ UNCHANGED <<rows, repacks, packing, sendQ>>
  <1>1. CASE ClearAudience
    BY <1>1 DEF Fresh, Recomputations, RowsInv, ClearAudience
  <1>2. CASE PopulateAudience
    BY <1>2 DEF Fresh, Recomputations, RowsInv, PopulateAudience, campaignVars
  <1>3. CASE PublishPages
    BY <1>3 DEF Fresh, Recomputations, RowsInv, PublishPages
  <1>4. CASE UNCHANGED <<rows, repacks, packing, sendQ>>
    BY <1>4 DEF Fresh, Recomputations
  <1>5. QED
    BY <1>1, <1>2, <1>3, <1>4 DEF Elsewhere

LEMMA FreshStays ==
    ASSUME UNCHANGED <<repacks, packing>>
    PROVE  Fresh' = Fresh
  BY DEF Fresh, Recomputations

LEMMA RowsStaySettled ==
    ASSUME Lock, UNCHANGED rows
    PROVE  Settled
  BY DEF Lock, Settled

\* A page without a pending row does not change any more.
LEMMA FinishedStays ==
    ASSUME Settled, NEW p \in Pages, NoPending(p)
    PROVE  /\ NoPending(p)'
           /\ \A s : InStatus(p, s)' = InStatus(p, s)
  <1>1. \A c \in Members(p) : rows'[c] = rows[c]
    BY DEF Settled, NoPending, Contacts
  <1>2. QED
    BY <1>1 DEF NoPending, InStatus

LEMMA ReportsStayFinal ==
    ASSUME HandlersInv, Lock, Settled, NEW r \in reports
    PROVE  /\ NoPending(r.page)'
           /\ r.sent = Cardinality(InStatus(r.page, "SENT"))'
           /\ r.failed = Cardinality(InStatus(r.page, "FAILED"))'
  <1>1. r.page \in Pages
    BY DEF HandlersInv
  <1>2. NoPending(r.page)
    BY DEF Lock
  <1>3. QED
    BY <1>1, <1>2, FinishedStays DEF Lock

LEMMA OthersStayLocked ==
    ASSUME HandlersInv, Lock, Settled, NEW v \in Workers,
           pc'[v] = pc[v], msg'[v] = msg[v], todo'[v] = todo[v], counts'[v] = counts[v]
    PROVE  LockOf(v)'
  <1>1. Page(v)' = Page(v)
    BY DEF Page
  <1>2. LockOf(v)
    BY DEF Lock
  <1>3. CASE pc[v] \in Sending
    <2>1. pc[v] # "publish" /\ Members(Page(v)) \subseteq Contacts
      BY <1>3, PageType DEF Sending, AtContact, Marking
    <2>2. \A c \in Members(Page(v)) : rows'[c].status = "PENDING" => rows[c].status = "PENDING"
      BY <2>1 DEF Settled
    <2>3. QED
      BY <1>1, <1>2, <1>3, <2>1, <2>2 DEF LockOf
  <1>4. CASE pc[v] = "publish"
    <2>1. pc[v] \notin Sending /\ Page(v) \in Pages
      BY <1>4, PageType DEF Sending, AtContact, Marking
    <2>2. NoPending(Page(v))
      BY <1>2, <1>4 DEF LockOf
    <2>3. QED
      BY <1>1, <1>2, <1>4, <2>1, <2>2, FinishedStays DEF LockOf
  <1>5. QED
    BY <1>3, <1>4 DEF LockOf

\* The frame of the proof that a handler's step keeps the lock.
LEMMA LockKept ==
    ASSUME HandlersInv, Lock, Settled, NEW w \in Workers, OthersKeep(w), LockOf(w)',
           reports' = reports
    PROVE  Lock'
  <1>1. \A v \in Workers : LockOf(v)'
    BY OthersStayLocked DEF OthersKeep
  <1>2. QED
    BY <1>1, ReportsStayFinal DEF Lock, Settled

LEMMA WalksKeepsLock ==
    ASSUME HandlersInv, Lock, NEW w \in Workers, Walks(w)
    PROVE  Lock'
  <1>1. LockOf(w)'
    BY DEF Lock, LockOf, Walks, Keeps, Page, Early, Sending, AtContact, Marking
  <1>2. QED
    BY <1>1, RowsStaySettled, LockKept DEF Walks, Keeps

LEMMA SendsKeepsLock ==
    ASSUME HandlersInv, Lock, NEW w \in Workers, Sends(w)
    PROVE  Lock'
  <1>1. LockOf(w)'
    BY DEF Lock, LockOf, Sends, Keeps, Page, Sending, AtContact, Marking
  <1>2. QED
    BY <1>1, RowsStaySettled, LockKept DEF Sends, Keeps

LEMMA LeavesKeepsLock ==
    ASSUME HandlersInv, Lock, NEW w \in Workers, Leaves(w)
    PROVE  Lock'
  <1>1. LockOf(w)'
    BY DEF LockOf, Leaves, Sending, AtContact, Marking
  <1>2. QED
    BY <1>1, RowsStaySettled, LockKept DEF Leaves

LEMMA DeliverKeepsLock ==
    ASSUME HandlersInv, Lock, NEW w \in Workers, NEW m \in Message, Deliver(w, m)
    PROVE  Lock'
  <1>1. LockOf(w)'
    BY DeliverMoves DEF LockOf, Sending, AtContact, Marking
  <1>2. QED
    BY <1>1, DeliverMoves, RowsStaySettled, LockKept

LEMMA LoadRowsKeepsLock ==
    ASSUME HandlersInv, Lock, NEW w \in Workers, LoadRows(w)
    PROVE  Lock'
  <1>1. Page(w)' = Page(w) /\ Members(Page(w)) \subseteq Contacts
    BY LoadRowsMoves, PageType DEF Keeps, Page
  <1>2. \A c \in Contacts : rows[c].id = 0
    BY DEF Lock
  <1>3. \A r \in todo'[w] : r.id = 0
    BY <1>1, <1>2, LoadRowsMoves
  <1>4. ASSUME NEW c \in Members(Page(w)), rows'[c].status = "PENDING"
        PROVE  \E r \in todo'[w] : r.contact = c
    <2>1. [contact |-> c, id |-> rows[c].id] \in todo'[w]
      BY <1>4, LoadRowsMoves
    <2>2. QED
      BY <2>1
  <1>5. pc'[w] = "next"
    BY LoadRowsMoves
  <1>6. LockOf(w)'
    BY <1>1, <1>3, <1>4, <1>5 DEF LockOf
  <1>7. QED
    BY <1>6, LoadRowsMoves, RowsStaySettled, LockKept DEF Keeps

\* The outcome is recorded, and over a pending row only.
LEMMA MarkRowSettles ==
    ASSUME PagesAssumption, RowsInv, HandlersInv, Lock, NEW w \in Workers, MarkRow(w)
    PROVE  /\ Settled
           /\ rows' \in [Contacts -> RowRecords]
           /\ Current(w) \in Contacts /\ CurrentRow(w) \in todo[w] /\ pc[w] \in Marking
           /\ \A d \in Contacts : d # Current(w) => rows'[d] = rows[d]
           /\ rows'[Current(w)].status # "PENDING"
  <1>1. PICK to \in Decided : UpdateRow(Current(w), CurrentRow(w).id, to)
    BY DEF MarkRow, Mark, Decided
  <1>2. pc[w] \in Marking /\ pc[w] \in Sending /\ todo[w] # {}
    BY MarkRowMoves DEF HandlersInv, Own, Sending, AtContact
  <1>3. /\ CurrentRow(w) \in todo[w] /\ Current(w) \in Contacts
        /\ CurrentRow(w).id = 0 /\ rows[Current(w)].id = 0
    BY <1>2, AtHand DEF Lock, LockOf
  <1>4. to \in RowStatuses
    BY <1>1 DEF Decided, RowStatuses
  <1>5. /\ rows' \in [Contacts -> RowRecords]
        /\ \A d \in Contacts : rows[d].status # "PENDING" => rows'[d] = rows[d]
    BY <1>1, <1>4, UpdateRowKeeps
  <1>6. /\ \A d \in Contacts : d # Current(w) => rows'[d] = rows[d]
        /\ rows'[Current(w)] = IF rows[Current(w)].status = "PENDING"
                               THEN [rows[Current(w)] EXCEPT !.status = to]
                               ELSE rows[Current(w)]
    BY <1>1, <1>3 DEF UpdateRow, RowsInv
  <1>7. /\ rows'[Current(w)].status # "PENDING" /\ rows'[Current(w)].status # "NONE"
        /\ rows'[Current(w)].id = 0
    <2>1. rows[Current(w)] \in RowRecords /\ to # "PENDING" /\ to # "NONE"
      BY <1>1, <1>3 DEF RowsInv, Decided
    <2>2. rows[Current(w)].status # "NONE"
      BY <1>3 DEF Lock
    <2>3. QED
      BY <1>3, <1>6, <2>1, <2>2 DEF RowRecords
  <1>8. Settled
    BY <1>5, <1>6, <1>7 DEF Settled, Lock
  <1>9. QED
    BY <1>2, <1>3, <1>5, <1>6, <1>7, <1>8

LEMMA MarkRowKeepsLock ==
    ASSUME PagesAssumption, RowsInv, HandlersInv, Lock, NEW w \in Workers, MarkRow(w)
    PROVE  Lock'
  <1>1. /\ Settled
        /\ \A d \in Contacts : d # Current(w) => rows'[d] = rows[d]
        /\ rows'[Current(w)].status # "PENDING" /\ pc[w] \in Marking
    BY MarkRowSettles
  <1>2. /\ pc'[w] = "next" /\ Page(w)' = Page(w)
        /\ todo'[w] = todo[w] \ {CurrentRow(w)}
    BY MarkRowMoves DEF Keeps, Page
  <1>3. Members(Page(w)) \subseteq Contacts
    BY MarkRowMoves, PageType DEF Marking
  <1>4. LockOf(w)
    BY DEF Lock
  <1>5. ASSUME NEW c \in Members(Page(w)), rows'[c].status = "PENDING"
        PROVE  \E r \in todo'[w] : r.contact = c
    <2>1. rows[c].status = "PENDING" /\ c # Current(w)
      BY <1>1, <1>3, <1>5 DEF Settled
    <2>2. PICK r \in todo[w] : r.contact = c
      BY <1>1, <1>4, <2>1 DEF LockOf, Sending, AtContact
    <2>3. r # CurrentRow(w)
      BY <2>1, <2>2 DEF Current
    <2>4. QED
      BY <1>2, <2>2, <2>3
  <1>6. LockOf(w)'
    BY <1>1, <1>2, <1>4, <1>5 DEF LockOf, Sending, AtContact
  <1>7. QED
    BY <1>1, <1>6, MarkRowMoves, LockKept DEF Keeps

LEMMA CountPageKeepsLock ==
    ASSUME HandlersInv, Lock, NEW w \in Workers, CountPage(w)
    PROVE  Lock'
  <1>1. Page(w)' = Page(w) /\ Settled
    BY CountPageMoves, RowsStaySettled DEF Keeps, Page
  <1>2. NoPending(Page(w))
    BY CountPageMoves DEF Lock, LockOf, NoPending, Sending
  <1>3. NoPending(Page(w))' /\ \A s : InStatus(Page(w), s)' = InStatus(Page(w), s)
    BY <1>1, <1>2, CountPageMoves DEF NoPending, InStatus
  <1>4. /\ pc'[w] = "publish"
        /\ counts'[w].sent = Cardinality(InStatus(Page(w), "SENT"))
        /\ counts'[w].failed = Cardinality(InStatus(Page(w), "FAILED"))
    <2>1. /\ pc'[w] = "publish"
          /\ counts'[w] = [sent   |-> Cardinality(InStatus(Page(w), "SENT")),
                           failed |-> Cardinality(InStatus(Page(w), "FAILED"))]
      BY CountPageMoves
    <2>2. QED
      BY <2>1
  <1>5. LockOf(w)'
    BY <1>1, <1>3, <1>4 DEF LockOf, Sending, AtContact, Marking
  <1>6. QED
    BY <1>1, <1>5, CountPageMoves, LockKept DEF Keeps

LEMMA PublishTrackedKeepsLock ==
    ASSUME HandlersInv, Lock, NEW w \in Workers, PublishTracked(w)
    PROVE  Lock'
  <1>1. Settled
    BY PublishTrackedMoves, RowsStaySettled
  <1>2. LockOf(w)'
    BY PublishTrackedMoves DEF LockOf, Sending, AtContact, Marking
  <1>3. \A v \in Workers : LockOf(v)'
    BY <1>1, <1>2, PublishTrackedMoves, OthersStayLocked DEF Keeps, OthersKeep
  <1>4. /\ Page(w) \in Pages /\ NoPending(Page(w))
        /\ counts[w].sent = Cardinality(InStatus(Page(w), "SENT"))
        /\ counts[w].failed = Cardinality(InStatus(Page(w), "FAILED"))
    BY PublishTrackedMoves, PageType DEF Lock, LockOf
  <1>5. \A r \in reports' :
            /\ NoPending(r.page)'
            /\ r.sent = Cardinality(InStatus(r.page, "SENT"))'
            /\ r.failed = Cardinality(InStatus(r.page, "FAILED"))'
    <2>1. ASSUME NEW r \in reports', r = ReportOf(w)
          PROVE  /\ NoPending(r.page)'
                 /\ r.sent = Cardinality(InStatus(r.page, "SENT"))'
                 /\ r.failed = Cardinality(InStatus(r.page, "FAILED"))'
      BY <1>1, <1>4, <2>1, FinishedStays DEF ReportOf
    <2>2. QED
      BY <1>1, <2>1, PublishTrackedMoves, ReportsStayFinal
  <1>6. QED
    BY <1>1, <1>3, <1>5 DEF Lock, Settled

LEMMA HostKeepsLock ==
    ASSUME HandlersInv, Lock, NEW h \in Hosts, Crash(h) \/ LoseChannel(h)
    PROVE  Lock'
  <1>1. Settled
    BY RowsStaySettled DEF Crash, LoseChannel, audienceVars
  <1>2. ASSUME NEW v \in Workers
        PROVE  LockOf(v)'
    <2>1. CASE Crash(h) /\ v \in On(h)
      BY <2>1 DEF Crash, LockOf, Sending, AtContact, Marking
    <2>2. CASE ~(Crash(h) /\ v \in On(h))
      <3>1. pc'[v] = pc[v] /\ msg'[v] = msg[v] /\ todo'[v] = todo[v] /\ counts'[v] = counts[v]
        BY <2>2 DEF Crash, LoseChannel
      <3>2. QED
        BY <1>1, <3>1, OthersStayLocked
    <2>3. QED
      BY <2>1, <2>2
  <1>3. reports' = reports
    BY DEF Crash, LoseChannel, outputVars
  <1>4. QED
    BY <1>1, <1>2, <1>3, ReportsStayFinal DEF Lock, Settled

-------------------------------------------------------------------------------
(* Pages.  A handler that is about to acknowledge has reported its page or     *)
(* given it up; every other way out of a handler puts the copy back, among the *)
(* dead letters, or on record as discarded.                                    *)

Answered(p) == Reported(p) \/ p \in aborted

AccountInv ==
    /\ \A w \in Workers : pc[w] = "ack" => Answered(Page(w))
    /\ PageAccounted

LEMMA OutstandingByCopy ==
    ASSUME HandlersInv, NEW m \in Message, m \in Waiting(sendQ) \cup Waiting(dead)
    PROVE  Outstanding(m.body)
  BY DEF Outstanding

\* The frame: records grow, what waits goes on waiting, others hold their copies.
LEMMA AccountKept ==
    ASSUME HandlersInv, AccountInv, NEW w \in Workers, OthersKeep(w),
           reports \subseteq reports', aborted \subseteq aborted', dropped \subseteq dropped',
           Waiting(sendQ) \subseteq Waiting(sendQ'), Waiting(dead) \subseteq Waiting(dead'),
           pc'[w] = "ack" => Answered(Page(w))',
           \A p : owned[w] /\ Page(w) = p =>
                   Outstanding(p)' \/ Answered(p)' \/ p \in dropped'
    PROVE  AccountInv'
  <1>1. ASSUME NEW v \in Workers, pc'[v] = "ack"
        PROVE  Answered(Page(v))'
    BY <1>1 DEF AccountInv, Answered, Reported, OthersKeep, Page
  <1>2. ASSUME NEW p \in Pages
        PROVE  Outstanding(p)' \/ Reported(p)' \/ p \in aborted' \cup dropped'
    <2>1. CASE Reported(p) \/ p \in aborted \cup dropped
      BY <2>1 DEF Reported
    <2>2. CASE \E m \in Waiting(sendQ) \cup Waiting(dead) : m.body = p
      BY <2>2 DEF Outstanding
    <2>3. ASSUME NEW v \in Workers, owned[v], Page(v) = p
          PROVE  Outstanding(p)' \/ Reported(p)' \/ p \in aborted' \cup dropped'
      <3>1. CASE v = w
        BY <2>3, <3>1 DEF Answered
      <3>2. CASE v # w
        BY <2>3, <3>2 DEF OthersKeep, Outstanding, Page
      <3>3. QED
        BY <3>1, <3>2
    <2>4. QED
      BY <2>1, <2>2, <2>3 DEF AccountInv, PageAccounted, Outstanding
  <1>3. QED
    BY <1>1, <1>2 DEF AccountInv, PageAccounted

LEMMA KeepsAccount ==
    ASSUME HandlersInv, AccountInv, NEW w \in Workers, Keeps(w),
           reports \subseteq reports', aborted \subseteq aborted',
           pc'[w] = "ack" => Answered(Page(w))'
    PROVE  AccountInv'
  <1>1. \A p : owned[w] /\ Page(w) = p => Outstanding(p)'
    BY DEF Keeps, Outstanding, Page
  <1>2. QED
    BY <1>1, AccountKept DEF Keeps

LEMMA LeavesKeepsAccount ==
    ASSUME HandlersInv, AccountInv, NEW w \in Workers, Leaves(w)
    PROVE  AccountInv'
  <1>1. msg[w] \in Messages(Pages) /\ Page(w) \in Pages
    BY PageType DEF HandlersInv, Own, Leaves, Message
  <1>2. /\ Waiting(sendQ) \subseteq Waiting(sendQ')
        /\ Waiting(dead) \subseteq Waiting(dead')
    BY <1>1, NackKeeps DEF HandlersInv, Leaves, Message
  <1>3. ASSUME NEW p, owned[w], Page(w) = p
        PROVE  Outstanding(p)' \/ Answered(p)' \/ p \in dropped'
    <2>1. CASE sendQ' = QueueAfterNack(sendQ, msg[w]) /\ dead' = DeadAfterNack(dead, msg[w])
      <3>1. \E n \in Waiting(sendQ') \cup Waiting(dead') : n.body = msg[w].body
        BY <1>1, <2>1, NackKeeps DEF HandlersInv, Message
      <3>2. msg[w].body = p
        BY <1>3 DEF Page
      <3>3. QED
        BY <3>1, <3>2 DEF Outstanding
    <2>2. CASE pc[w] = "ack"
      <3>1. Answered(p)
        BY <1>3, <2>2 DEF AccountInv
      <3>2. QED
        BY <3>1 DEF Answered, Reported, Leaves
    <2>3. CASE p \in dropped'
      BY <2>3
    <2>4. QED
      BY <1>3, <2>1, <2>2, <2>3 DEF Leaves
  <1>4. pc'[w] # "ack"
    BY DEF Leaves
  <1>5. QED
    BY <1>2, <1>3, <1>4, AccountKept DEF Leaves

LEMMA DeliverKeepsAccount ==
    ASSUME HandlersInv, AccountInv, NEW w \in Workers, NEW m \in Message, Deliver(w, m)
    PROVE  AccountInv'
  <1>1. Waiting(sendQ) \subseteq Waiting(sendQ') \cup {m}
    <2>1. sendQ \in [Message -> Nat] /\ sendQ' = Remove(sendQ, m)
      BY DeliverMoves DEF HandlersInv
    <2>2. QED
      BY <2>1, WaitingAfter
  <1>2. Page(w)' = m.body /\ owned'[w]
    BY DeliverMoves DEF Page
  <1>3. ASSUME NEW v \in Workers, pc'[v] = "ack"
        PROVE  Answered(Page(v))'
    <2>1. v # w /\ pc[v] = "ack" /\ Page(v)' = Page(v)
      BY <1>3, DeliverMoves DEF OthersKeep, Page
    <2>2. Answered(Page(v))
      BY <2>1 DEF AccountInv
    <2>3. UNCHANGED <<reports, aborted>>
      BY DeliverMoves
    <2>4. QED
      BY <2>1, <2>2, <2>3 DEF Answered, Reported
  <1>4. ASSUME NEW p \in Pages
        PROVE  Outstanding(p)' \/ Reported(p)' \/ p \in aborted' \cup dropped'
    <2>1. CASE Reported(p) \/ p \in aborted \cup dropped
      BY <2>1, DeliverMoves DEF Reported
    <2>2. ASSUME NEW n \in Waiting(sendQ) \cup Waiting(dead), n.body = p
          PROVE  Outstanding(p)'
      <3>1. CASE n = m
        BY <1>2, <2>2, <3>1 DEF Outstanding
      <3>2. CASE n # m
        BY <1>1, <2>2, <3>2, DeliverMoves DEF Outstanding
      <3>3. QED
        BY <3>1, <3>2
    <2>3. ASSUME NEW v \in Workers, owned[v], Page(v) = p
          PROVE  Outstanding(p)'
      <3>1. v # w
        BY <2>3, DeliverMoves DEF HandlersInv, Own
      <3>2. QED
        BY <2>3, <3>1, DeliverMoves DEF OthersKeep, Outstanding, Page
    <2>4. QED
      BY <2>1, <2>2, <2>3 DEF AccountInv, PageAccounted, Outstanding
  <1>5. QED
    BY <1>3, <1>4 DEF AccountInv, PageAccounted

LEMMA StepKeepsAccount ==
    ASSUME HandlersInv, AccountInv, NEW w \in Workers,
           DeliverSome(w) \/ Step(w) \/ Fail(w) \/ ReplyLost(w)
    PROVE  AccountInv'
  <1>1. CASE DeliverSome(w)
    BY <1>1, DeliverKeepsAccount DEF DeliverSome
  <1>2. CASE Walks(w)
    <2>1. pc'[w] = "ack" => Page(w)' \in aborted'
      BY <1>2 DEF Walks, Keeps, Page, Early, AtContact, Marking
    <2>2. QED
      BY <1>2, <2>1, KeepsAccount DEF Walks, Answered
  <1>3. CASE Sends(w)
    BY <1>3, KeepsAccount DEF Sends
  <1>4. CASE Leaves(w)
    BY <1>4, LeavesKeepsAccount
  <1>5. CASE LoadRows(w)
    BY <1>5, LoadRowsMoves, KeepsAccount
  <1>6. CASE MarkRow(w)
    BY <1>6, MarkRowMoves, KeepsAccount
  <1>7. CASE CountPage(w)
    BY <1>7, CountPageMoves, KeepsAccount
  <1>8. CASE PublishTracked(w)
    <2>1. Answered(Page(w))'
      <3>1. ReportOf(w) \in reports' /\ ReportOf(w).page = Page(w) /\ Page(w)' = Page(w)
        BY <1>8, PublishTrackedMoves DEF ReportOf, Keeps, Page
      <3>2. QED
        BY <3>1 DEF Answered, Reported
    <2>2. QED
      BY <1>8, <2>1, PublishTrackedMoves, KeepsAccount
  <1>9. QED
    BY <1>1, <1>2, <1>3, <1>4, <1>5, <1>6, <1>7, <1>8, StepKinds

LEMMA ElsewhereKeepsAccount ==
    ASSUME HandlersInv, AccountInv, Elsewhere
    PROVE  AccountInv'
  <1>1. Waiting(sendQ) \subseteq Waiting(sendQ')
    <2>1. CASE PublishPages
      BY <2>1 DEF PublishPages, Waiting, HandlersInv
    <2>2. CASE ~PublishPages
      BY <2>2 DEF Elsewhere, ClearAudience, PopulateAudience, brokerVars
    <2>3. QED
      BY <2>1, <2>2
  <1>2. UNCHANGED <<pc, msg, owned, dead, reports, aborted, dropped>>
    BY DEF Elsewhere
  <1>3. QED
    BY <1>1, <1>2 DEF AccountInv, Answered, Reported, PageAccounted, Outstanding, Page

LEMMA HostKeepsAccount ==
    ASSUME SenderAssumption, HandlersInv, AccountInv, NEW h \in Hosts,
           Crash(h) \/ LoseChannel(h)
    PROVE  AccountInv'
  <1>1. /\ UNCHANGED <<dead, reports, aborted, dropped>> /\ ReturnAll(h)
        /\ \A v \in Workers : pc'[v] = "ack" => pc[v] = "ack" /\ Page(v)' = Page(v)
        /\ \A v \in Workers \ On(h) : owned'[v] = owned[v] /\ Page(v)' = Page(v)
    BY DEF Crash, LoseChannel, outputVars, Page, HandlersInv, Own
  <1>2. \A v \in Workers : pc'[v] = "ack" => Answered(Page(v))'
    BY <1>1 DEF AccountInv, Answered, Reported
  <1>3. ASSUME NEW p \in Pages
        PROVE  Outstanding(p)' \/ Reported(p)' \/ p \in aborted' \cup dropped'
    <2>1. CASE Reported(p) \/ p \in aborted \cup dropped
      BY <1>1, <2>1 DEF Reported
    <2>2. CASE \E m \in Waiting(sendQ) \cup Waiting(dead) : m.body = p
      <3>1. Waiting(sendQ) \subseteq Waiting(sendQ')
        BY <1>1, ReturnAllWaits DEF Waiting, HandlersInv
      <3>2. QED
        BY <1>1, <2>2, <3>1 DEF Outstanding
    <2>3. ASSUME NEW v \in Workers, owned[v], Page(v) = p
          PROVE  Outstanding(p)'
      <3>1. CASE v \in On(h)
        <4>1. msg[v] \in Message /\ v \in Holders(h, msg[v])
          BY <2>3, <3>1 DEF HandlersInv, Own, Holders
        <4>2. msg[v] \in Waiting(sendQ')
          BY <1>1, <4>1, ReturnAllWaits
        <4>3. QED
          BY <2>3, <4>2 DEF Outstanding, Page
      <3>2. CASE v \notin On(h)
        BY <1>1, <2>3, <3>2 DEF Outstanding
      <3>3. QED
        BY <3>1, <3>2
    <2>4. QED
      BY <2>1, <2>2, <2>3 DEF AccountInv, PageAccounted, Outstanding
  <1>4. QED
    BY <1>2, <1>3 DEF AccountInv, PageAccounted

-------------------------------------------------------------------------------
(* Copies.  As long as the audience is not computed again a page has one copy: *)
(* in the queue or in the hands of a handler that owns it.  Other handlers of  *)
(* the page have lost theirs, which took a fault.                              *)

Copies ==
    /\ \A m \in Message : sendQ[m] <= 1
    /\ \A m, n \in Waiting(sendQ) : m.body = n.body => m = n
    /\ \A v, w \in Workers : owned[v] /\ owned[w] /\ Page(v) = Page(w) => v = w
    /\ \A w \in Workers, m \in Waiting(sendQ) : owned[w] => m.body # Page(w)
    /\ \A w \in Workers : pc[w] # "idle" /\ ~owned[w] => faults > 0

CopiesInv == Fresh => Copies

LEMMA WaitingType ==
    ASSUME HandlersInv
    PROVE  /\ Waiting(sendQ) = {m \in Message : sendQ[m] > 0}
           /\ \A m \in Message : sendQ[m] \in Nat
  BY DEF HandlersInv, Waiting

LEMMA KeepsCopies ==
    ASSUME HandlersInv, Copies, NEW w \in Workers, Keeps(w), pc[w] # "idle",
           faults' = faults \/ faults' = faults + 1
    PROVE  Copies'
  <1>1. \A v \in Workers : owned'[v] = owned[v] /\ Page(v)' = Page(v)
    BY DEF Keeps, OthersKeep, Page
  <1>2. \A v \in Workers : pc'[v] # "idle" => pc[v] # "idle"
    BY DEF Keeps, OthersKeep
  <1>3. sendQ' = sendQ /\ faults \in Nat
    BY DEF Keeps, HandlersInv
  <1>4. \A v \in Workers : pc'[v] # "idle" /\ ~owned'[v] => faults' > 0
    BY <1>1, <1>2, <1>3 DEF Copies
  <1>5. QED
    BY <1>1, <1>3, <1>4 DEF Copies

\* A nack puts one copy of the same page back, or none.
LEMMA NackReturns ==
    ASSUME NEW q \in [Message -> Nat], NEW m \in Message
    PROVE  \/ QueueAfterNack(q, m) = q
           \/ \E n \in Message : n.body = m.body /\ QueueAfterNack(q, m) = Add(q, n)
  <1>1. CASE Exhausted(m)
    BY <1>1 DEF QueueAfterNack
  <1>2. CASE ~Exhausted(m)
    <2> DEFINE n == [m EXCEPT !.attempt = NextAttempt(m)]
    <2>1. n \in Message /\ n.body = m.body
      BY <1>2, DeliveryLimitAssumption DEF Message, Messages, Exhausted, NextAttempt
    <2>2. QED
      BY <1>2, <2>1 DEF QueueAfterNack
  <1>3. QED
    BY <1>1, <1>2

LEMMA LeavesKeepsCopies ==
    ASSUME HandlersInv, Copies, NEW w \in Workers, Leaves(w)
    PROVE  Copies'
  <1>1. /\ ~owned'[w] /\ pc'[w] = "idle"
        /\ \A v \in Workers \ {w} :
               owned'[v] = owned[v] /\ Page(v)' = Page(v) /\ pc'[v] = pc[v]
    BY DEF Leaves, OthersKeep, Page
  <1>2. faults \in Nat /\ (faults' = faults \/ faults' = faults + 1)
    BY DEF Leaves, HandlersInv
  <1>3. \A v \in Workers : pc'[v] # "idle" /\ ~owned'[v] => faults' > 0
    BY <1>1, <1>2 DEF Copies
  <1>4. \A u, v \in Workers : owned'[u] /\ owned'[v] /\ Page(u)' = Page(v)' => u = v
    BY <1>1 DEF Copies
  <1>5. CASE sendQ' = sendQ
    <2>1. \A v \in Workers, m \in Waiting(sendQ) : owned'[v] => m.body # Page(v)'
      BY <1>1 DEF Copies
    <2>2. QED
      BY <1>3, <1>4, <1>5, <2>1 DEF Copies
  <1>6. ASSUME NEW n \in Message, n.body = msg[w].body, owned[w], sendQ' = Add(sendQ, n)
        PROVE  Copies'
    <2>1. sendQ \in [Message -> Nat] /\ n.body = Page(w)
      BY <1>6 DEF HandlersInv, Page
    <2>2. n \notin Waiting(sendQ) /\ sendQ[n] = 0
      BY <1>6, <2>1, WaitingType DEF Copies
    <2>3. Waiting(sendQ') = Waiting(sendQ) \cup {n}
      BY <1>6, <2>1, WaitingAfter
    <2>4. \A m \in Message : sendQ'[m] <= 1
      BY <1>6, <2>1, <2>2 DEF Add, Copies
    <2>5. \A m, k \in Waiting(sendQ') : m.body = k.body => m = k
      <3>1. \A m \in Waiting(sendQ) : m.body # n.body
        BY <1>6, <2>1 DEF Copies
      <3>2. QED
        BY <2>3, <3>1 DEF Copies
    <2>6. \A v \in Workers, m \in Waiting(sendQ') : owned'[v] => m.body # Page(v)'
      <3>1. ASSUME NEW v \in Workers, owned'[v]
            PROVE  \A m \in Waiting(sendQ') : m.body # Page(v)'
        <4>1. v # w /\ owned[v] /\ Page(v)' = Page(v)
          BY <1>1, <3>1
        <4>2. n.body # Page(v)
          BY <1>6, <2>1, <4>1 DEF Copies
        <4>3. QED
          BY <2>3, <4>1, <4>2 DEF Copies
      <3>2. QED
        BY <3>1
    <2>7. QED
      BY <1>3, <1>4, <2>4, <2>5, <2>6 DEF Copies
  <1>7. CASE owned[w] /\ sendQ' = QueueAfterNack(sendQ, msg[w])
    <2>1. msg[w] \in Message /\ sendQ \in [Message -> Nat]
      BY DEF HandlersInv, Own, Leaves
    <2>2. QED
      BY <1>5, <1>6, <1>7, <2>1, NackReturns
  <1>8. QED
    BY <1>5, <1>7 DEF Leaves

LEMMA DeliverKeepsCopies ==
    ASSUME HandlersInv, Copies, NEW w \in Workers, NEW m \in Message, Deliver(w, m)
    PROVE  /\ Copies'
           /\ Waiting(sendQ') = Waiting(sendQ) \ {m}
  <1>1. /\ owned'[w] /\ Page(w)' = m.body /\ ~owned[w]
        /\ \A v \in Workers \ {w} :
               owned'[v] = owned[v] /\ Page(v)' = Page(v) /\ pc'[v] = pc[v]
        /\ m \in Waiting(sendQ) /\ sendQ' = [sendQ EXCEPT ![m] = sendQ[m] - 1]
        /\ faults' = faults
    <2>1. /\ OthersKeep(w) /\ pc[w] = "idle" /\ msg'[w] = m /\ owned'[w] = TRUE
          /\ m \in Waiting(sendQ) /\ sendQ' = Remove(sendQ, m) /\ faults' = faults
      BY DeliverMoves
    <2>2. ~owned[w]
      BY <2>1 DEF HandlersInv, Own
    <2>3. QED
      BY <2>1, <2>2 DEF OthersKeep, Page, Remove
  <1>2. sendQ \in [Message -> Nat] /\ sendQ[m] = 1
    BY <1>1, WaitingType DEF Copies, HandlersInv
  <1>3. Waiting(sendQ') = Waiting(sendQ) \ {m} /\ \A n \in Message : sendQ'[n] <= 1
    BY <1>1, <1>2 DEF Waiting, Copies
  <1>4. \A v \in Workers : pc'[v] # "idle" /\ ~owned'[v] => faults' > 0
    BY <1>1 DEF Copies
  <1>5. \A u, v \in Workers : owned'[u] /\ owned'[v] /\ Page(u)' = Page(v)' => u = v
    <2>1. \A v \in Workers \ {w} : owned'[v] => Page(v)' # m.body
      BY <1>1 DEF Copies
    <2>2. QED
      BY <1>1, <2>1 DEF Copies
  <1>6. \A v \in Workers, n \in Waiting(sendQ') : owned'[v] => n.body # Page(v)'
    <2>1. \A n \in Waiting(sendQ') : n.body # m.body
      BY <1>1, <1>3 DEF Copies
    <2>2. QED
      BY <1>1, <1>3, <2>1 DEF Copies
  <1>7. \A n, k \in Waiting(sendQ') : n.body = k.body => n = k
    BY <1>3 DEF Copies
  <1>8. QED
    BY <1>3, <1>4, <1>5, <1>6, <1>7 DEF Copies

LEMMA HostKeepsCopies ==
    ASSUME SenderAssumption, HandlersInv, Copies, NEW h \in Hosts, Crash(h) \/ LoseChannel(h)
    PROVE  Copies'
  <1>1. /\ ReturnAll(h) /\ faults' = faults + 1 /\ faults \in Nat
        /\ \A v \in Workers : owned'[v] => owned[v] /\ v \notin On(h) /\ Page(v)' = Page(v)
    BY DEF Crash, LoseChannel, OneMoreFault, HandlersInv, Page
  <1>2. \A m \in Message, u, v \in Workers :
            u \in Holders(h, m) => owned[u] /\ u \in On(h) /\ Page(u) = m.body
    BY DEF Holders, Page
  <1>3. \A m \in Message : IsFiniteSet(Holders(h, m)) /\ Holders(h, m) \subseteq Workers
    BY FS_Subset DEF SenderAssumption, Holders, On
  <1>4. ASSUME NEW m \in Message, NEW u \in Holders(h, m)
        PROVE  Cardinality(Holders(h, m)) = 1 /\ sendQ[m] = 0
    <2>1. Holders(h, m) = {u}
      BY <1>2, <1>3, <1>4 DEF Copies
    <2>2. m \notin Waiting(sendQ)
      BY <1>2, <1>3 DEF Copies
    <2>3. sendQ[m] = 0
      BY <2>2, WaitingType
    <2>4. Cardinality({u}) = 1
      BY FS_Singleton
    <2>5. QED
      BY <2>1, <2>3, <2>4
  <1>5. \A m \in Message : sendQ'[m] <= 1
    <2>1. ASSUME NEW m \in Message, Holders(h, m) = {}
          PROVE  sendQ'[m] <= 1
      <3>1. Cardinality(Holders(h, m)) = 0
        BY <2>1, FS_EmptySet
      <3>2. QED
        BY <1>1, <3>1, WaitingType DEF ReturnAll, Copies
    <2>2. ASSUME NEW m \in Message, NEW u \in Holders(h, m)
          PROVE  sendQ'[m] <= 1
      BY <1>1, <1>4, <2>2 DEF ReturnAll
    <2>3. QED
      BY <2>1, <2>2
  <1>6. \A m \in Message : m \in Waiting(sendQ') <=>
            m \in Waiting(sendQ) \/ Holders(h, m) # {}
    BY <1>1, ReturnAllWaits
  <1>7. Waiting(sendQ') \subseteq Message /\ Waiting(sendQ) \subseteq Message
    BY <1>1, ReturnAllWaits DEF Waiting, HandlersInv
  <1>8. ASSUME NEW m \in Waiting(sendQ'), NEW n \in Waiting(sendQ'), m.body = n.body
        PROVE  m = n
    <2>1. CASE m \in Waiting(sendQ) /\ n \in Waiting(sendQ)
      BY <1>8, <2>1 DEF Copies
    <2>2. ASSUME NEW u \in Holders(h, m), n \in Waiting(sendQ)
          PROVE  FALSE
      BY <1>2, <1>3, <1>7, <1>8, <2>2 DEF Copies
    <2>3. ASSUME NEW u \in Holders(h, n), m \in Waiting(sendQ)
          PROVE  FALSE
      BY <1>2, <1>3, <1>7, <1>8, <2>3 DEF Copies
    <2>4. ASSUME NEW u \in Holders(h, m), NEW v \in Holders(h, n)
          PROVE  m = n
      <3>1. u = v
        BY <1>2, <1>3, <1>7, <1>8, <2>4 DEF Copies
      <3>2. QED
        BY <2>4, <3>1 DEF Holders
    <2>5. QED
      BY <1>6, <1>7, <2>1, <2>2, <2>3, <2>4
  <1>9. ASSUME NEW v \in Workers, NEW m \in Waiting(sendQ'), owned'[v]
        PROVE  m.body # Page(v)'
    <2>1. owned[v] /\ v \notin On(h) /\ Page(v)' = Page(v)
      BY <1>1, <1>9
    <2>2. CASE m \in Waiting(sendQ)
      BY <2>1, <2>2 DEF Copies
    <2>3. ASSUME NEW u \in Holders(h, m)
          PROVE  m.body # Page(v)
      BY <1>2, <1>3, <1>7, <2>1, <2>3 DEF Copies
    <2>4. QED
      BY <1>6, <1>7, <2>1, <2>2, <2>3
  <1>10. \A u, v \in Workers : owned'[u] /\ owned'[v] /\ Page(u)' = Page(v)' => u = v
    BY <1>1 DEF Copies
  <1>11. QED
    BY <1>1, <1>5, <1>8, <1>9, <1>10 DEF Copies

-------------------------------------------------------------------------------
(* The budget of sends.  What was sent to a contact, the handlers that may     *)
(* still send to it and the copy of its page that waits never exceed one more  *)
(* than the faults.                                                            *)

MaySend(w, c) ==
    \/ pc[w] \in Early /\ c \in Members(Page(w)) /\ rows[c].status = "PENDING"
    \/ /\ pc[w] \in Sending
       /\ \E r \in todo[w] : r.contact = c
       /\ ~(pc[w] \in Marking /\ Current(w) = c)

Threats(c) == {w \in Workers : MaySend(w, c)}

Waits(c) ==
    IF rows[c].status = "PENDING" /\ \E m \in Waiting(sendQ) : c \in Members(m.body)
    THEN 1 ELSE 0

Budget == \A c \in Contacts : sends[c] + Cardinality(Threats(c)) + Waits(c) <= 1 + faults

BudgetInv == Fresh => Budget

LEMMA ThreatsCount ==
    ASSUME SenderAssumption, NEW S \in SUBSET Workers, NEW T \in SUBSET Workers,
           NEW w \in Workers
    PROVE  /\ Cardinality(S) \in Nat /\ Cardinality(T) \in Nat
           /\ S \subseteq T => Cardinality(S) <= Cardinality(T)
           /\ S \subseteq T /\ w \in T /\ w \notin S => Cardinality(S) + 1 <= Cardinality(T)
           /\ S \subseteq T \cup {w} => Cardinality(S) <= Cardinality(T) + 1
  <1>1. IsFiniteSet(S) /\ IsFiniteSet(T)
    BY FS_Subset DEF SenderAssumption
  <1>2. Cardinality(S) \in Nat /\ Cardinality(T) \in Nat
    BY <1>1, FS_CardinalityType
  <1>3. S \subseteq T => Cardinality(S) <= Cardinality(T)
    BY <1>1, FS_Subset
  <1>4. ASSUME S \subseteq T, w \in T, w \notin S
        PROVE  Cardinality(S) + 1 <= Cardinality(T)
    <2>1. Cardinality(S \cup {w}) = Cardinality(S) + 1
      BY <1>1, <1>4, FS_AddElement
    <2>2. S \cup {w} \in SUBSET T
      BY <1>4
    <2>3. Cardinality(S \cup {w}) <= Cardinality(T)
      BY <1>1, <2>2, FS_Subset
    <2>4. QED
      BY <2>1, <2>3
  <1>5. ASSUME S \subseteq T \cup {w}
        PROVE  Cardinality(S) <= Cardinality(T) + 1
    <2>1. /\ IsFiniteSet(T \cup {w})
          /\ Cardinality(T \cup {w}) = IF w \in T THEN Cardinality(T) ELSE Cardinality(T) + 1
      BY <1>1, FS_AddElement
    <2>2. Cardinality(S) <= Cardinality(T \cup {w})
      BY <1>5, <2>1, FS_Subset
    <2>3. QED
      BY <1>2, <2>1, <2>2
  <1>6. QED
    BY <1>2, <1>3, <1>4, <1>5

LEMMA CurrentKept ==
    ASSUME NEW v \in Workers, todo'[v] = todo[v], msg'[v] = msg[v]
    PROVE  CurrentRow(v)' = CurrentRow(v) /\ Current(v)' = Current(v)
  BY DEF CurrentRow, Current, Page

LEMMA OthersMaySend ==
    ASSUME Settled, NEW v \in Workers, NEW c \in Contacts,
           pc'[v] = pc[v], msg'[v] = msg[v], todo'[v] = todo[v], MaySend(v, c)'
    PROVE  MaySend(v, c)
  <1>1. Page(v)' = Page(v) /\ Current(v)' = Current(v)
    BY CurrentKept DEF Page
  <1>2. rows'[c].status = "PENDING" => rows[c].status = "PENDING"
    BY DEF Settled
  <1>3. QED
    BY <1>1, <1>2 DEF MaySend

\* No step of a handler that keeps its copy adds a threat.
LEMMA KeepsBudget ==
    ASSUME SenderAssumption, HandlersInv, Budget, Settled, NEW w \in Workers, Keeps(w),
           sends' = sends, faults' = faults,
           \A c \in Contacts : MaySend(w, c)' => MaySend(w, c)
    PROVE  Budget'
  <1>1. ASSUME NEW c \in Contacts
        PROVE  sends'[c] + Cardinality(Threats(c)') + Waits(c)' <= 1 + faults'
    <2>1. Threats(c)' \subseteq Threats(c)
      BY OthersMaySend DEF Threats, Keeps, OthersKeep
    <2>2. /\ Cardinality(Threats(c)') \in Nat /\ Cardinality(Threats(c)) \in Nat
          /\ Cardinality(Threats(c)') <= Cardinality(Threats(c))
      BY <2>1, ThreatsCount DEF Threats
    <2>3. Waits(c)' <= Waits(c) /\ Waits(c) \in Nat /\ Waits(c)' \in Nat
      BY DEF Waits, Settled, Keeps
    <2>4. sends[c] \in Nat /\ faults \in Nat
      BY DEF HandlersInv
    <2>5. QED
      BY <2>2, <2>3, <2>4 DEF Budget
  <1>2. QED
    BY <1>1 DEF Budget

LEMMA WalksKeepsBudget ==
    ASSUME SenderAssumption, HandlersInv, Lock, Budget, NEW w \in Workers, Walks(w)
    PROVE  Budget'
  <1>1. Settled
    BY RowsStaySettled DEF Walks
  <1>2. Page(w)' = Page(w)
    BY DEF Walks, Keeps, Page
  <1>3. \A c \in Contacts : MaySend(w, c)' => MaySend(w, c)
    BY <1>2 DEF MaySend, Walks, Early, Sending, AtContact, Marking
  <1>4. QED
    BY <1>1, <1>3, KeepsBudget DEF Walks

LEMMA LoadRowsKeepsBudget ==
    ASSUME SenderAssumption, HandlersInv, Lock, Budget, NEW w \in Workers, LoadRows(w)
    PROVE  Budget'
  <1>1. Settled
    BY LoadRowsMoves, RowsStaySettled
  <1>2. ASSUME NEW c \in Contacts, MaySend(w, c)'
        PROVE  MaySend(w, c)
    <2>1. \E r \in todo'[w] : r.contact = c
      BY <1>2, LoadRowsMoves DEF MaySend, Early
    <2>2. c \in Members(Page(w)) /\ rows[c].status = "PENDING"
      BY <2>1, LoadRowsMoves
    <2>3. QED
      BY <2>2, LoadRowsMoves DEF MaySend, Early
  <1>3. QED
    BY <1>1, <1>2, LoadRowsMoves, KeepsBudget

\* The rows on a handler's list are of different contacts.
LEMMA OneRowEach ==
    ASSUME HandlersInv, Lock, NEW w \in Workers, pc[w] \in Sending,
           NEW r \in todo[w], NEW s \in todo[w], r.contact = s.contact
    PROVE  r = s
  <1>1. r.id = 0 /\ s.id = 0
    BY DEF Lock, LockOf
  <1>2. r \in [contact : Contacts, id : Nat] /\ s \in [contact : Contacts, id : Nat]
    BY DEF HandlersInv, Own
  <1>3. QED
    BY <1>1, <1>2

LEMMA MarkRowKeepsBudget ==
    ASSUME SenderAssumption, PagesAssumption, RowsInv, HandlersInv, Lock, Budget,
           NEW w \in Workers, MarkRow(w)
    PROVE  Budget'
  <1>1. Settled /\ CurrentRow(w) \in todo[w] /\ pc[w] \in Sending
    BY MarkRowSettles DEF Sending, AtContact
  <1>2. ASSUME NEW c \in Contacts, MaySend(w, c)'
        PROVE  MaySend(w, c)
    <2>1. \E r \in todo[w] \ {CurrentRow(w)} : r.contact = c
      BY <1>2, MarkRowMoves DEF MaySend, Early
    <2>2. c # Current(w)
      BY <1>1, <2>1, OneRowEach DEF Current
    <2>3. QED
      BY <1>1, <2>1, <2>2 DEF MaySend
  <1>3. QED
    BY <1>1, <1>2, MarkRowMoves, KeepsBudget

LEMMA CountOrPublishKeepsBudget ==
    ASSUME SenderAssumption, HandlersInv, Lock, Budget, NEW w \in Workers,
           CountPage(w) \/ PublishTracked(w)
    PROVE  Budget'
  <1>1. /\ Settled /\ Keeps(w) /\ UNCHANGED <<sends, faults>>
        /\ pc'[w] \in {"publish", "ack"}
    BY CountPageMoves, PublishTrackedMoves, RowsStaySettled
  <1>2. \A c \in Contacts : ~MaySend(w, c)'
    BY <1>1 DEF MaySend, Early, Sending, AtContact, Marking
  <1>3. QED
    BY <1>1, <1>2, KeepsBudget

\* The handler that sends is one of the threats to the contact it sends to.
LEMMA SendsKeepsBudget ==
    ASSUME SenderAssumption, PagesAssumption, HandlersInv, Lock, Budget,
           NEW w \in Workers, Sends(w)
    PROVE  Budget'
  <1>1. /\ pc[w] = "dispatch" /\ pc[w] \in Sending /\ pc[w] \notin Marking
        /\ Settled /\ todo[w] # {}
    BY RowsStaySettled DEF Sends, HandlersInv, Own, Sending, AtContact, Marking
  <1>2. CurrentRow(w) \in todo[w] /\ Current(w) \in Contacts
    BY <1>1, AtHand
  <1>3. Current(w)' = Current(w) /\ Page(w)' = Page(w)
    BY CurrentKept DEF Sends, Keeps, Page
  <1>4. ASSUME NEW c \in Contacts
        PROVE  sends'[c] + Cardinality(Threats(c)') + Waits(c)' <= 1 + faults'
    <2>1. sends'[c] = (IF c = Current(w) THEN sends[c] + 1 ELSE sends[c]) /\ sends[c] \in Nat
      BY <1>2 DEF Sends, Accept, HandlersInv
    <2>2. MaySend(w, c)' => MaySend(w, c)
      BY <1>1, <1>3 DEF MaySend, Sends, Early, Sending, AtContact, Marking
    <2>3. Threats(c)' \subseteq Threats(c)
      BY <1>1, <2>2, OthersMaySend DEF Threats, Sends, Keeps, OthersKeep
    <2>4. Waits(c)' = Waits(c) /\ Waits(c) \in Nat /\ faults \in Nat
      BY DEF Waits, Sends, Keeps, HandlersInv
    <2>5. /\ Cardinality(Threats(c)') \in Nat /\ Cardinality(Threats(c)) \in Nat
          /\ Cardinality(Threats(c)') <= Cardinality(Threats(c))
      BY <2>3, ThreatsCount DEF Threats
    <2>6. CASE c = Current(w) /\ faults' = faults
      <3>1. pc'[w] = "markSent"
        BY <2>6, <2>4 DEF Sends
      <3>2. w \in Threats(c)
        BY <1>1, <1>2, <2>6 DEF Threats, MaySend, Current
      <3>3. w \notin Threats(c)'
        BY <1>3, <2>6, <3>1 DEF Threats, MaySend, Early, Marking
      <3>4. Cardinality(Threats(c)') + 1 <= Cardinality(Threats(c))
        BY <2>3, <3>2, <3>3, ThreatsCount DEF Threats
      <3>5. QED
        BY <2>1, <2>4, <2>5, <2>6, <3>4 DEF Budget
    <2>7. CASE c # Current(w) \/ faults' = faults + 1
      <3>1. sends'[c] <= sends[c] + faults' - faults
        BY <2>1, <2>4, <2>7 DEF Sends
      <3>2. QED
        BY <2>1, <2>4, <2>5, <3>1, SMTT(30) DEF Budget, Sends
    <2>8. QED
      BY <2>6, <2>7 DEF Sends
  <1>5. QED
    BY <1>4 DEF Budget

\* A page taken back without a fault waits again for what its handler had left.
LEMMA LeavesKeepsBudget ==
    ASSUME SenderAssumption, PagesAssumption, HandlersInv, Lock, Copies, Budget,
           NEW w \in Workers, Leaves(w)
    PROVE  Budget'
  <1>1. Settled /\ pc'[w] = "idle" /\ sends' = sends /\ rows' = rows
    BY RowsStaySettled DEF Leaves
  <1>2. ASSUME NEW c \in Contacts
        PROVE  sends'[c] + Cardinality(Threats(c)') + Waits(c)' <= 1 + faults'
    <2>1. ~MaySend(w, c)'
      BY <1>1 DEF MaySend, Early, Sending, AtContact, Marking
    <2>2. Threats(c)' \subseteq Threats(c) /\ w \notin Threats(c)'
      BY <1>1, <2>1, OthersMaySend DEF Threats, Leaves, OthersKeep
    <2>3. /\ Cardinality(Threats(c)') \in Nat /\ Cardinality(Threats(c)) \in Nat
          /\ Cardinality(Threats(c)') <= Cardinality(Threats(c))
          /\ w \in Threats(c) => Cardinality(Threats(c)') + 1 <= Cardinality(Threats(c))
      BY <2>2, ThreatsCount DEF Threats
    <2>4. /\ Waits(c) \in {0, 1} /\ Waits(c)' \in {0, 1}
          /\ sends[c] \in Nat /\ faults \in Nat
      BY DEF Waits, HandlersInv
    <2>5. CASE Waits(c)' <= Waits(c)
      BY <1>1, <2>3, <2>4, <2>5 DEF Budget, Leaves
    <2>6. CASE faults' = faults + 1
      BY <1>1, <2>3, <2>4, <2>6 DEF Budget
    <2>7. CASE Waits(c)' = 1 /\ Waits(c) = 0 /\ faults' # faults + 1
      <3>1. PICK m \in Waiting(sendQ') : c \in Members(m.body) /\ m \notin Waiting(sendQ)
        BY <1>1, <2>7 DEF Waits
      <3>2. rows[c].status = "PENDING"
        BY <1>1, <2>7 DEF Waits
      <3>3. pc[w] = "dispatch" /\ sendQ' = QueueAfterNack(sendQ, msg[w])
        BY <2>7, <3>1 DEF Leaves
      <3>4. msg[w] \in Message /\ sendQ \in [Message -> Nat]
        BY DEF HandlersInv, Own, Leaves
      <3>5. m.body = Page(w)
        BY <3>1, <3>3, <3>4, NackReturns, WaitingAfter DEF Page
      <3>6. w \in Threats(c)
        <4>1. pc[w] \in Sending /\ pc[w] \notin Marking
          BY <3>3 DEF Sending, AtContact, Marking
        <4>2. \E r \in todo[w] : r.contact = c
          BY <3>1, <3>2, <3>5, <4>1 DEF Lock, LockOf
        <4>3. QED
          BY <4>1, <4>2 DEF Threats, MaySend
      <3>7. QED
        BY <1>1, <2>3, <2>4, <2>7, <3>6 DEF Budget, Leaves
    <2>8. QED
      BY <2>4, <2>5, <2>6, <2>7
  <1>3. QED
    BY <1>2 DEF Budget

\* A delivered copy is a threat instead of one that waits.
LEMMA DeliverKeepsBudget ==
    ASSUME SenderAssumption, PagesAssumption, HandlersInv, Lock, Copies, Budget,
           NEW w \in Workers, NEW m \in Message, Deliver(w, m)
    PROVE  Budget'
  <1>1. /\ Settled /\ sends' = sends /\ rows' = rows /\ faults' = faults
        /\ pc'[w] = "load" /\ Page(w)' = m.body /\ m \in Waiting(sendQ)
        /\ OthersKeep(w)
    BY DeliverMoves, RowsStaySettled DEF Page
  <1>2. Waiting(sendQ') = Waiting(sendQ) \ {m}
    BY DeliverKeepsCopies
  <1>3. ASSUME NEW c \in Contacts
        PROVE  sends'[c] + Cardinality(Threats(c)') + Waits(c)' <= 1 + faults'
    <2>1. /\ Waits(c) \in {0, 1} /\ Waits(c)' \in {0, 1} /\ Waits(c)' <= Waits(c)
          /\ sends[c] \in Nat /\ faults \in Nat
      BY <1>1, <1>2 DEF Waits, HandlersInv
    <2>2. Threats(c)' \subseteq Threats(c) \cup {w}
      BY <1>1, OthersMaySend DEF Threats, OthersKeep
    <2>3. /\ Cardinality(Threats(c)') \in Nat /\ Cardinality(Threats(c)) \in Nat
          /\ Cardinality(Threats(c)') <= Cardinality(Threats(c)) + 1
          /\ Threats(c)' \subseteq Threats(c) =>
                 Cardinality(Threats(c)') <= Cardinality(Threats(c))
      BY <2>2, ThreatsCount DEF Threats
    <2>4. CASE MaySend(w, c)'
      <3>1. c \in Members(m.body) /\ rows[c].status = "PENDING"
        BY <1>1, <2>4 DEF MaySend, Sending, AtContact, Marking
      <3>2. Waits(c) = 1
        BY <1>1, <3>1 DEF Waits
      <3>3. ASSUME NEW n \in Waiting(sendQ'), c \in Members(n.body)
            PROVE  FALSE
        <4>1. n \in Waiting(sendQ) /\ n # m /\ n \in Message
          BY <1>2, <3>3, WaitingType
        <4>2. n.body \in Pages /\ m.body \in Pages
          BY <4>1, BodyType DEF Message
        <4>3. n.body = m.body
          BY <3>1, <3>3, <4>2 DEF PagesAssumption
        <4>4. QED
          BY <1>1, <4>1, <4>3 DEF Copies
      <3>4. Waits(c)' = 0
        BY <3>3 DEF Waits
      <3>5. QED
        BY <1>1, <2>1, <2>3, <3>2, <3>4 DEF Budget
    <2>5. CASE ~MaySend(w, c)'
      <3>1. Threats(c)' \subseteq Threats(c)
        BY <2>2, <2>5 DEF Threats
      <3>2. QED
        BY <1>1, <2>1, <2>3, <3>1 DEF Budget
    <2>6. QED
      BY <2>4, <2>5
  <1>4. QED
    BY <1>3 DEF Budget

LEMMA HostKeepsBudget ==
    ASSUME SenderAssumption, HandlersInv, Lock, Budget, NEW h \in Hosts,
           Crash(h) \/ LoseChannel(h)
    PROVE  Budget'
  <1>1. Settled /\ sends' = sends /\ faults' = faults + 1
    BY RowsStaySettled DEF Crash, LoseChannel, OneMoreFault, audienceVars
  <1>2. ASSUME NEW c \in Contacts
        PROVE  sends'[c] + Cardinality(Threats(c)') + Waits(c)' <= 1 + faults'
    <2>1. ASSUME NEW v \in Workers, MaySend(v, c)'
          PROVE  MaySend(v, c)
      <3>1. CASE Crash(h) /\ v \in On(h)
        BY <2>1, <3>1 DEF Crash, MaySend, Early, Sending, AtContact, Marking
      <3>2. CASE ~(Crash(h) /\ v \in On(h))
        <4>1. pc'[v] = pc[v] /\ msg'[v] = msg[v] /\ todo'[v] = todo[v]
          BY <3>2 DEF Crash, LoseChannel
        <4>2. QED
          BY <1>1, <2>1, <4>1, OthersMaySend
      <3>3. QED
        BY <3>1, <3>2
    <2>2. Threats(c)' \subseteq Threats(c)
      BY <2>1 DEF Threats
    <2>3. /\ Cardinality(Threats(c)') \in Nat /\ Cardinality(Threats(c)) \in Nat
          /\ Cardinality(Threats(c)') <= Cardinality(Threats(c))
      <3>1. IsFiniteSet(Threats(c))
        BY FS_Subset DEF SenderAssumption, Threats
      <3>2. /\ IsFiniteSet(Threats(c)')
            /\ Cardinality(Threats(c)') <= Cardinality(Threats(c))
        BY <2>2, <3>1, FS_Subset
      <3>3. QED
        BY <3>1, <3>2, FS_CardinalityType
    <2>4. /\ Waits(c) \in {0, 1} /\ Waits(c)' \in {0, 1}
          /\ sends[c] \in Nat /\ faults \in Nat
      BY DEF Waits, HandlersInv
    <2>5. QED
      BY <1>1, <2>3, <2>4 DEF Budget
  <1>3. QED
    BY <1>2 DEF Budget

-------------------------------------------------------------------------------
(* What the rows say.                                                          *)

\* An outcome SENT goes back to a message the CRM accepted.
SentInv ==
    /\ \A w \in Workers : pc[w] = "markSent" => sends[Current(w)] > 0
    /\ \A c \in Contacts : rows[c].status = "SENT" => sends[c] > 0

\* Without faults a handler has its page to itself: what it has on its list is
\* still PENDING, and what it gives up on has not been sent to.
Calm ==
    /\ \A w \in Workers : pc[w] \in {"markFailed", "markSkipped"} => sends[Current(w)] = 0
    /\ \A w \in Workers : pc[w] \in Sending =>
           \A r \in todo[w] : rows[r.contact].status = "PENDING"
    /\ \A c \in Contacts : rows[c].status \in {"FAILED", "SKIPPED"} => sends[c] = 0

CalmInv == Fresh /\ faults = 0 => Calm

LEMMA SentKept ==
    ASSUME HandlersInv, PagesAssumption, SentInv, NEW w \in Workers, OthersKeep(w),
           sends' = sends, UNCHANGED rows, pc'[w] # "markSent"
    PROVE  SentInv'
  <1>1. ASSUME NEW v \in Workers, pc'[v] = "markSent"
        PROVE  sends'[Current(v)'] > 0
    <2>1. pc[v] = "markSent" /\ Current(v)' = Current(v)
      BY <1>1, CurrentKept DEF OthersKeep
    <2>2. QED
      BY <2>1 DEF SentInv
  <1>2. QED
    BY <1>1 DEF SentInv

LEMMA SendsKeepsSent ==
    ASSUME HandlersInv, PagesAssumption, SentInv, NEW w \in Workers, Sends(w)
    PROVE  SentInv'
  <1>1. Current(w) \in Contacts /\ Current(w)' = Current(w)
    BY AtHand, CurrentKept DEF Sends, Keeps, HandlersInv, Own, Sending, AtContact
  <1>2. /\ \A c \in Contacts : sends'[c] >= sends[c] /\ sends[c] \in Nat /\ sends'[c] \in Nat
        /\ sends'[Current(w)] > 0
    <2>1. sends' = [sends EXCEPT ![Current(w)] = sends[Current(w)] + 1]
      BY DEF Sends, Accept
    <2>2. sends \in [Contacts -> Nat]
      BY DEF HandlersInv
    <2>3. QED
      BY <1>1, <2>1, <2>2
  <1>3. ASSUME NEW v \in Workers, pc'[v] = "markSent"
        PROVE  sends'[Current(v)'] > 0
    <2>1. CASE v = w
      BY <1>1, <1>2, <2>1
    <2>2. CASE v # w
      <3>1. /\ pc[v] = "markSent" /\ Current(v)' = Current(v)
            /\ pc[v] \in Sending /\ pc[v] \in AtContact
        BY <1>3, <2>2, CurrentKept DEF Sends, Keeps, OthersKeep, Sending, AtContact, Marking
      <3>2. todo[v] # {}
        BY <3>1 DEF HandlersInv, Own
      <3>3. Current(v) \in Contacts /\ sends[Current(v)] > 0
        BY <3>1, <3>2, AtHand DEF SentInv
      <3>4. QED
        BY <1>2, <3>1, <3>3
    <2>3. QED
      BY <2>1, <2>2
  <1>4. \A c \in Contacts : rows'[c].status = "SENT" => sends'[c] > 0
    BY <1>2 DEF SentInv, Sends
  <1>5. QED
    BY <1>3, <1>4 DEF SentInv

LEMMA MarkRowKeepsSent ==
    ASSUME RowsInv, HandlersInv, PagesAssumption, SentInv, NEW w \in Workers, MarkRow(w)
    PROVE  SentInv'
  <1>1. PICK from \in Marking, to \in Decided :
            /\ pc[w] = from /\ UpdateRow(Current(w), CurrentRow(w).id, to)
            /\ to = "SENT" => from = "markSent"
    BY DEF MarkRow, Mark, Decided, Marking
  <1>2. Current(w) \in Contacts
    BY <1>1, AtHand DEF HandlersInv, Own, Sending, AtContact
  <1>3. ASSUME NEW c \in Contacts, rows'[c].status = "SENT"
        PROVE  sends'[c] > 0
    <2>1. CASE rows[c].status = "SENT"
      BY <2>1, MarkRowMoves DEF SentInv
    <2>2. CASE rows[c].status # "SENT"
      <3>1. c = Current(w) /\ to = "SENT"
        <4>1. rows'[c] = rows[c] \/ (c = Current(w) /\ rows'[c] = [rows[c] EXCEPT !.status = to])
          BY <1>1, <1>2 DEF UpdateRow, RowsInv
        <4>2. rows[c] \in RowRecords
          BY DEF RowsInv
        <4>3. QED
          BY <1>3, <2>2, <4>1, <4>2 DEF RowRecords
      <3>2. QED
        BY <1>1, <3>1, MarkRowMoves DEF SentInv
    <2>3. QED
      BY <2>1, <2>2
  <1>4. ASSUME NEW v \in Workers, pc'[v] = "markSent"
        PROVE  sends'[Current(v)'] > 0
    <2>1. pc[v] = "markSent" /\ Current(v)' = Current(v)
      BY <1>4, MarkRowMoves, CurrentKept DEF Keeps, OthersKeep
    <2>2. QED
      BY <2>1, MarkRowMoves DEF SentInv
  <1>5. QED
    BY <1>3, <1>4 DEF SentInv

LEMMA StepKeepsSent ==
    ASSUME RowsInv, HandlersInv, PagesAssumption, SentInv, NEW w \in Workers,
           DeliverSome(w) \/ Step(w) \/ Fail(w) \/ ReplyLost(w)
    PROVE  SentInv'
  <1>1. CASE DeliverSome(w)
    BY <1>1, DeliverMoves, SentKept DEF DeliverSome
  <1>2. CASE Walks(w)
    <2>1. pc'[w] # "markSent"
      BY <1>2 DEF Walks, Early
    <2>2. QED
      BY <1>2, <2>1, SentKept DEF Walks, Keeps
  <1>3. CASE Leaves(w)
    BY <1>3, SentKept DEF Leaves
  <1>4. CASE LoadRows(w)
    BY <1>4, LoadRowsMoves, SentKept DEF Keeps
  <1>5. CASE CountPage(w)
    BY <1>5, CountPageMoves, SentKept DEF Keeps
  <1>6. CASE PublishTracked(w)
    BY <1>6, PublishTrackedMoves, SentKept DEF Keeps
  <1>7. QED
    BY <1>1, <1>2, <1>3, <1>4, <1>5, <1>6, SendsKeepsSent, MarkRowKeepsSent, StepKinds

LEMMA ElsewhereKeepsSent ==
    ASSUME RowsInv, SentInv, Elsewhere
    PROVE  SentInv'
  <1>1. \A v \in Workers : Current(v)' = Current(v)
    BY CurrentKept DEF Elsewhere
  <1>2. ASSUME NEW c \in Contacts, rows'[c].status = "SENT"
        PROVE  rows[c].status = "SENT"
    <2>1. CASE ClearAudience
      BY <1>2, <2>1 DEF ClearAudience, RowsInv, RowRecords
    <2>2. CASE PopulateAudience
      BY <1>2, <2>2 DEF PopulateAudience
    <2>3. CASE rows' = rows
      BY <1>2, <2>3
    <2>4. QED
      BY <2>1, <2>2, <2>3 DEF Elsewhere, PublishPages
  <1>3. QED
    BY <1>1, <1>2 DEF SentInv, Elsewhere

LEMMA HostKeepsSent ==
    ASSUME SentInv, NEW h \in Hosts, Crash(h) \/ LoseChannel(h)
    PROVE  SentInv'
  <1>1. UNCHANGED <<rows, sends>>
    BY DEF Crash, LoseChannel, audienceVars
  <1>2. ASSUME NEW v \in Workers, pc'[v] = "markSent"
        PROVE  sends'[Current(v)'] > 0
    <2>1. pc[v] = "markSent" /\ msg'[v] = msg[v] /\ todo'[v] = todo[v]
      BY <1>2 DEF Crash, LoseChannel
    <2>2. QED
      BY <1>1, <2>1, CurrentKept DEF SentInv
  <1>3. QED
    BY <1>1, <1>2 DEF SentInv

LEMMA Alone ==
    ASSUME HandlersInv, PagesAssumption, Copies, faults = 0,
           NEW v \in Workers, pc[v] # "idle", NEW w \in Workers, pc[w] # "idle",
           NEW c \in Members(Page(v)), c \in Members(Page(w))
    PROVE  v = w
  <1>1. owned[v] /\ owned[w]
    BY DEF Copies
  <1>2. Page(v) \in Pages /\ Page(w) \in Pages
    BY PageType
  <1>3. Page(v) = Page(w)
    BY <1>2 DEF PagesAssumption
  <1>4. QED
    BY <1>1, <1>3 DEF Copies

LEMMA CalmOthers ==
    ASSUME Calm, NEW v \in Workers, pc'[v] = pc[v], todo'[v] = todo[v], msg'[v] = msg[v],
           sends' = sends, rows' = rows
    PROVE  /\ pc'[v] \in {"markFailed", "markSkipped"} => sends'[Current(v)'] = 0
           /\ pc'[v] \in Sending => \A r \in todo'[v] : rows'[r.contact].status = "PENDING"
  BY CurrentKept DEF Calm

\* The frame: the handler goes on with what it has, or leaves it.
LEMMA CalmKept ==
    ASSUME Calm, NEW w \in Workers, OthersKeep(w), sends' = sends, rows' = rows,
           pc'[w] \in {"markFailed", "markSkipped"} => sends'[Current(w)'] = 0,
           pc'[w] \in Sending => \A r \in todo'[w] : rows'[r.contact].status = "PENDING"
    PROVE  Calm'
  <1>1. \A v \in Workers :
            /\ pc'[v] \in {"markFailed", "markSkipped"} => sends'[Current(v)'] = 0
            /\ pc'[v] \in Sending => \A r \in todo'[v] : rows'[r.contact].status = "PENDING"
    BY CalmOthers DEF OthersKeep
  <1>2. QED
    BY <1>1 DEF Calm

\* A handler that gives a contact up has the whole budget of that contact left.
LEMMA WalksKeepsCalm ==
    ASSUME SenderAssumption, HandlersInv, PagesAssumption, Budget, faults = 0, Calm,
           NEW w \in Workers, Walks(w)
    PROVE  Calm'
  <1>1. Current(w)' = Current(w)
    BY CurrentKept DEF Walks, Keeps
  <1>2. ASSUME pc'[w] \in {"markFailed", "markSkipped"}
        PROVE  sends'[Current(w)'] = 0
    <2>1. pc[w] \in Sending /\ pc[w] \notin Marking /\ todo[w] # {} /\ sends' = sends
      BY <1>2 DEF Walks, Early
    <2>2. CurrentRow(w) \in todo[w] /\ Current(w) \in Contacts
      BY <2>1, AtHand
    <2>3. w \in Threats(Current(w))
      BY <2>1, <2>2 DEF Threats, MaySend, Current
    <2>4. Cardinality({}) + 1 <= Cardinality(Threats(Current(w)))
          /\ Cardinality(Threats(Current(w))) \in Nat
      BY <2>3, ThreatsCount DEF Threats
    <2>5. Cardinality({}) = 0
      BY FS_EmptySet
    <2>6. Waits(Current(w)) \in {0, 1} /\ sends[Current(w)] \in Nat
      BY <2>2 DEF Waits, HandlersInv
    <2>7. sends[Current(w)] + Cardinality(Threats(Current(w))) + Waits(Current(w)) <= 1 + faults
      BY <2>2 DEF Budget
    <2>8. QED
      BY <1>1, <2>1, <2>4, <2>5, <2>6, <2>7
  <1>3. pc'[w] \in Sending => pc[w] \in Sending
    BY DEF Walks, Early, Sending, AtContact, Marking
  <1>4. QED
    BY <1>2, <1>3, CalmKept DEF Walks, Keeps, Calm

LEMMA LoadRowsKeepsCalm ==
    ASSUME HandlersInv, Calm, NEW w \in Workers, LoadRows(w)
    PROVE  Calm'
  <1>1. \A r \in todo'[w] : rows'[r.contact].status = "PENDING"
    BY LoadRowsMoves
  <1>2. QED
    BY <1>1, LoadRowsMoves, CalmKept DEF Keeps

LEMMA EndsKeepCalm ==
    ASSUME HandlersInv, Calm, NEW w \in Workers,
           CountPage(w) \/ PublishTracked(w) \/ Leaves(w) \/ DeliverSome(w)
    PROVE  Calm'
  <1>1. CASE CountPage(w)
    BY <1>1, CountPageMoves, CalmKept DEF Keeps, Sending, AtContact, Marking
  <1>2. CASE PublishTracked(w)
    BY <1>2, PublishTrackedMoves, CalmKept DEF Keeps, Sending, AtContact, Marking
  <1>3. CASE Leaves(w)
    BY <1>3, CalmKept DEF Leaves, Sending, AtContact, Marking
  <1>4. CASE DeliverSome(w)
    BY <1>4, DeliverMoves, CalmKept DEF DeliverSome, Sending, AtContact, Marking
  <1>5. QED
    BY <1>1, <1>2, <1>3, <1>4

LEMMA SendsKeepsCalm ==
    ASSUME HandlersInv, PagesAssumption, Copies, faults = 0, faults' = 0, Calm,
           NEW w \in Workers, Sends(w)
    PROVE  Calm'
  <1>1. /\ pc[w] \in Sending /\ pc[w] # "idle" /\ todo[w] # {}
        /\ pc'[w] = "markSent" /\ rows' = rows
    BY DEF Sends, HandlersInv, Own, Sending, AtContact
  <1>2. /\ CurrentRow(w) \in todo[w] /\ Current(w) \in Contacts
        /\ Current(w) \in Members(Page(w))
    BY <1>1, AtHand
  <1>3. sends' = [sends EXCEPT ![Current(w)] = sends[Current(w)] + 1]
        /\ sends \in [Contacts -> Nat]
    BY DEF Sends, Accept, HandlersInv
  <1>4. rows[Current(w)].status = "PENDING"
    BY <1>1, <1>2 DEF Calm, Current
  <1>5. \A c \in Contacts : rows'[c].status \in {"FAILED", "SKIPPED"} => sends'[c] = 0
    BY <1>1, <1>2, <1>3, <1>4 DEF Calm
  <1>6. ASSUME NEW v \in Workers, pc'[v] \in {"markFailed", "markSkipped"}
        PROVE  sends'[Current(v)'] = 0
    <2>1. v # w /\ pc[v] = pc'[v] /\ Current(v)' = Current(v)
      BY <1>1, <1>6, CurrentKept DEF Sends, Keeps, OthersKeep
    <2>2. pc[v] \in Sending /\ pc[v] # "idle" /\ todo[v] # {}
      BY <1>6, <2>1 DEF HandlersInv, Own, Sending, AtContact, Marking
    <2>3. Current(v) \in Members(Page(v)) /\ Current(v) \in Contacts
      BY <2>2, AtHand
    <2>4. Current(v) # Current(w)
      BY <1>1, <1>2, <2>1, <2>2, <2>3, Alone
    <2>5. QED
      BY <1>3, <1>6, <2>1, <2>3, <2>4 DEF Calm
  <1>7. \A v \in Workers : pc'[v] \in Sending =>
            pc[v] \in Sending /\ todo'[v] = todo[v]
    BY <1>1 DEF Sends, Keeps, OthersKeep
  <1>8. QED
    BY <1>1, <1>5, <1>6, <1>7 DEF Calm

LEMMA MarkRowKeepsCalm ==
    ASSUME HandlersInv, PagesAssumption, RowsInv, Lock, Copies, faults = 0, Calm,
           NEW w \in Workers, MarkRow(w)
    PROVE  Calm'
  <1>1. /\ CurrentRow(w) \in todo[w] /\ Current(w) \in Contacts /\ pc[w] \in Sending
        /\ pc[w] # "idle" /\ todo[w] # {}
        /\ \A d \in Contacts : d # Current(w) => rows'[d] = rows[d]
    BY MarkRowSettles DEF Sending, AtContact, Marking
  <1>2. Current(w) \in Members(Page(w))
    BY <1>1, AtHand
  <1>3. /\ pc'[w] = "next" /\ sends' = sends /\ OthersKeep(w)
        /\ todo'[w] = todo[w] \ {CurrentRow(w)}
    BY MarkRowMoves DEF Keeps
  <1>4. ASSUME NEW v \in Workers, pc'[v] \in {"markFailed", "markSkipped"}
        PROVE  sends'[Current(v)'] = 0
    <2>1. v # w /\ pc[v] = pc'[v] /\ Current(v)' = Current(v)
      BY <1>3, <1>4, CurrentKept DEF OthersKeep
    <2>2. QED
      BY <1>3, <1>4, <2>1 DEF Calm
  <1>5. ASSUME NEW v \in Workers, pc'[v] \in Sending, NEW r \in todo'[v]
        PROVE  rows'[r.contact].status = "PENDING"
    <2>1. r \in todo[v] /\ pc[v] \in Sending /\ pc[v] # "idle"
      BY <1>1, <1>3, <1>5 DEF OthersKeep, Sending, AtContact, Marking
    <2>2. r.contact \in Members(Page(v)) /\ r.contact \in Contacts
      BY <2>1 DEF HandlersInv, Own
    <2>3. r.contact # Current(w)
      <3>1. CASE v = w
        BY <1>1, <1>3, <1>5, <2>1, <3>1, OneRowEach DEF Current
      <3>2. CASE v # w
        BY <1>1, <1>2, <2>1, <2>2, <3>2, Alone
      <3>3. QED
        BY <3>1, <3>2
    <2>4. QED
      BY <1>1, <2>1, <2>2, <2>3 DEF Calm
  <1>6. ASSUME NEW c \in Contacts, rows'[c].status \in {"FAILED", "SKIPPED"}
        PROVE  sends'[c] = 0
    <2>1. CASE c # Current(w)
      BY <1>1, <1>3, <1>6, <2>1 DEF Calm
    <2>2. CASE c = Current(w)
      <3>1. PICK from \in Marking, to \in Decided :
                /\ pc[w] = from /\ UpdateRow(Current(w), CurrentRow(w).id, to)
                /\ to # "SENT" => from # "markSent"
        BY DEF MarkRow, Mark, Decided, Marking
      <3>2. rows[c].status = "PENDING" /\ rows[c] \in RowRecords
        BY <1>1, <2>2 DEF Calm, Current, RowsInv
      <3>3. rows'[c] = rows[c] \/ rows'[c] = [rows[c] EXCEPT !.status = to]
        BY <1>1, <2>2, <3>1 DEF UpdateRow, RowsInv
      <3>4. to # "SENT"
        BY <1>6, <3>2, <3>3 DEF RowRecords
      <3>5. pc[w] \in {"markFailed", "markSkipped"}
        BY <3>1, <3>4 DEF Marking
      <3>6. QED
        BY <1>3, <2>2, <3>5 DEF Calm
    <2>3. QED
      BY <2>1, <2>2
  <1>7. QED
    BY <1>4, <1>5, <1>6 DEF Calm

-------------------------------------------------------------------------------
(* The invariant of the sender, and what follows from it.                      *)

SenderInv ==
    /\ RowsInv
    /\ HandlersInv
    /\ AccountInv
    /\ SentInv
    /\ LockInv
    /\ CopiesInv
    /\ BudgetInv
    /\ CalmInv

LEMMA InitSenderInv ==
    ASSUME SenderAssumption, PagesAssumption, Init
    PROVE  SenderInv
  <1>1. RowsInv
    BY DEF Init, RowsInv, RowRecords, RowStatuses
  <1>2. HandlersInv
    BY DEF Init, HandlersInv, AreKept, Own, NoCopies, PCs, AtContact, Marking, Sending
  <1>3. \A w \in Workers : pc[w] = "idle" /\ ~owned[w]
    BY DEF Init
  <1>4. Waiting(sendQ) = {m \in Message : m.attempt = 0}
    BY DEF Init, Waiting
  <1>5. \A c \in Contacts : rows[c] = [id |-> 0, status |-> "PENDING"] /\ sends[c] = 0
    BY DEF Init
  <1>6. AccountInv
    <2>1. \A p \in Pages : FirstCopy(p) \in Waiting(sendQ) /\ FirstCopy(p).body = p
      <3>1. \A p \in Pages : FirstCopy(p) \in Message /\ FirstCopy(p).body = p
        BY FirstCopyType DEF Message
      <3>2. \A p \in Pages : FirstCopy(p).attempt = 0
        BY DEF FirstCopy
      <3>3. QED
        BY <1>4, <3>1, <3>2
    <2>2. QED
      BY <1>3, <2>1 DEF AccountInv, PageAccounted, Outstanding
  <1>7. SentInv
    BY <1>3, <1>5 DEF SentInv
  <1>8. Lock
    BY <1>3, <1>5 DEF Init, Lock, LockOf, Sending, AtContact, Marking
  <1>9. Copies
    <2>1. \A m \in Message : sendQ[m] <= 1
      BY DEF Init
    <2>2. \A m, n \in Waiting(sendQ) : m.body = n.body => m = n
      BY <1>4 DEF Message, Messages
    <2>3. QED
      BY <1>3, <2>1, <2>2 DEF Copies
  <1>10. Budget
    <2>1. \A c \in Contacts : Threats(c) = {}
      BY <1>3 DEF Threats, MaySend, Early, Sending, AtContact, Marking
    <2>2. Cardinality({}) = 0
      BY FS_EmptySet
    <2>3. \A c \in Contacts : Waits(c) \in {0, 1}
      BY DEF Waits
    <2>4. faults = 0
      BY DEF Init
    <2>5. ASSUME NEW c \in Contacts
          PROVE  sends[c] + Cardinality(Threats(c)) + Waits(c) <= 1 + faults
      <3>1. sends[c] = 0 /\ Cardinality(Threats(c)) = 0 /\ Waits(c) \in {0, 1}
        BY <1>5, <2>1, <2>2, <2>3
      <3>2. QED
        BY <2>4, <3>1
    <2>6. QED
      BY <2>5 DEF Budget
  <1>11. Calm
    BY <1>3, <1>5 DEF Calm, Sending, AtContact, Marking
  <1>12. QED
    BY <1>1, <1>2, <1>6, <1>7, <1>8, <1>9, <1>10, <1>11
       DEF SenderInv, LockInv, CopiesInv, BudgetInv, CalmInv

\* No step of a handler touches the packer's progress or takes a fault back.
LEMMA StepKeepsFresh ==
    ASSUME HandlersInv, NEW w \in Workers, DeliverSome(w) \/ Step(w) \/ Fail(w) \/ ReplyLost(w)
    PROVE  /\ Fresh' = Fresh
           /\ faults' = 0 => faults = 0
  <1>1. UNCHANGED <<repacks, packing>> /\ (faults' = faults \/ faults' = faults + 1)
    BY StepKinds, DeliverMoves, LoadRowsMoves, MarkRowMoves, CountPageMoves,
       PublishTrackedMoves DEF DeliverSome, Walks, Sends, Leaves, Keeps
  <1>2. QED
    BY <1>1, FreshStays DEF HandlersInv

LEMMA StepKeepsSender ==
    ASSUME SenderAssumption, PagesAssumption, SenderInv, NEW w \in Workers,
           DeliverSome(w) \/ Step(w) \/ Fail(w) \/ ReplyLost(w)
    PROVE  SenderInv'
  <1>1. RowsInv /\ HandlersInv /\ AccountInv /\ SentInv
    BY DEF SenderInv
  <1>2. RowsInv' /\ HandlersInv' /\ AccountInv' /\ SentInv'
    BY <1>1, StepKeepsRows, StepKeepsHandlers, StepKeepsAccount, StepKeepsSent
  <1>3. ASSUME Fresh'
        PROVE  Lock' /\ Copies' /\ Budget'
    <2>1. Lock /\ Copies /\ Budget
      BY <1>1, <1>3, StepKeepsFresh DEF SenderInv, LockInv, CopiesInv, BudgetInv
    <2>2. CASE DeliverSome(w)
      BY <1>1, <2>1, <2>2, DeliverKeepsLock, DeliverKeepsCopies, DeliverKeepsBudget
         DEF DeliverSome
    <2>3. CASE Walks(w)
      <3>1. pc[w] # "idle"
        BY <2>3 DEF Walks, Early, Sending, AtContact, Marking
      <3>2. QED
        BY <1>1, <2>1, <2>3, <3>1, WalksKeepsLock, KeepsCopies, WalksKeepsBudget DEF Walks
    <2>4. CASE Sends(w)
      BY <1>1, <2>1, <2>4, SendsKeepsLock, KeepsCopies, SendsKeepsBudget DEF Sends
    <2>5. CASE Leaves(w)
      BY <1>1, <2>1, <2>5, LeavesKeepsLock, LeavesKeepsCopies, LeavesKeepsBudget
    <2>6. CASE LoadRows(w)
      BY <1>1, <2>1, <2>6, LoadRowsMoves, LoadRowsKeepsLock, KeepsCopies, LoadRowsKeepsBudget
    <2>7. CASE MarkRow(w)
      <3>1. pc[w] # "idle"
        BY <1>1, <2>7, MarkRowMoves DEF Marking
      <3>2. QED
        BY <1>1, <2>1, <2>7, <3>1, MarkRowMoves, MarkRowKeepsLock, KeepsCopies,
           MarkRowKeepsBudget
    <2>8. CASE CountPage(w)
      BY <1>1, <2>1, <2>8, CountPageMoves, CountPageKeepsLock, KeepsCopies,
         CountOrPublishKeepsBudget
    <2>9. CASE PublishTracked(w)
      BY <1>1, <2>1, <2>9, PublishTrackedMoves, PublishTrackedKeepsLock, KeepsCopies,
         CountOrPublishKeepsBudget
    <2>10. QED
      BY <1>1, <2>2, <2>3, <2>4, <2>5, <2>6, <2>7, <2>8, <2>9, StepKinds
  <1>4. ASSUME Fresh', faults' = 0
        PROVE  Calm'
    <2>1. Fresh /\ faults = 0
      BY <1>1, <1>4, StepKeepsFresh
    <2>2. Lock /\ Copies /\ Budget /\ Calm
      BY <2>1 DEF SenderInv, LockInv, CopiesInv, BudgetInv, CalmInv
    <2>3. QED
      BY <1>1, <1>4, <2>1, <2>2, StepKinds, WalksKeepsCalm, SendsKeepsCalm, EndsKeepCalm,
         LoadRowsKeepsCalm, MarkRowKeepsCalm
  <1>5. QED
    BY <1>2, <1>3, <1>4 DEF SenderInv, LockInv, CopiesInv, BudgetInv, CalmInv

LEMMA ElsewhereKeepsSender ==
    ASSUME SenderAssumption, PagesAssumption, SenderInv, RowsInv', Elsewhere
    PROVE  SenderInv'
  <1>1. RowsInv /\ HandlersInv /\ AccountInv /\ SentInv
    BY DEF SenderInv
  <1>2. HandlersInv' /\ AccountInv' /\ SentInv'
    BY <1>1, ElsewhereKeepsHandlers, ElsewhereKeepsAccount, ElsewhereKeepsSent
  <1>3. ASSUME Fresh'
        PROVE  /\ Lock' /\ Copies' /\ Budget'
               /\ faults' = 0 => Calm'
    <2>1. Fresh /\ UNCHANGED <<rows, repacks, packing, sendQ>>
      BY <1>1, <1>3, FreshBefore
    <2>2. Lock /\ Copies /\ Budget /\ (faults = 0 => Calm)
      BY <2>1 DEF SenderInv, LockInv, CopiesInv, BudgetInv, CalmInv
    <2>3. /\ UNCHANGED <<pc, msg, owned, todo, counts, sends, reports, faults>>
          /\ \A v \in Workers : Page(v)' = Page(v) /\ Current(v)' = Current(v)
      BY CurrentKept DEF Elsewhere, Page
    <2>4. Lock'
      <3>1. \A v \in Workers : LockOf(v)'
        BY <1>1, <2>1, <2>2, <2>3, RowsStaySettled, OthersStayLocked
      <3>2. \A r \in reports' :
                /\ NoPending(r.page)'
                /\ r.sent = Cardinality(InStatus(r.page, "SENT"))'
                /\ r.failed = Cardinality(InStatus(r.page, "FAILED"))'
        BY <1>1, <2>1, <2>2, <2>3, RowsStaySettled, ReportsStayFinal
      <3>3. QED
        BY <2>1, <2>2, <3>1, <3>2 DEF Lock
    <2>5. Copies'
      BY <2>1, <2>2, <2>3 DEF Copies
    <2>6. \A c \in Contacts : Threats(c)' = Threats(c) /\ Waits(c)' = Waits(c)
      BY <2>1, <2>3 DEF Threats, MaySend, Waits
    <2>7. Budget'
      BY <2>2, <2>3, <2>6 DEF Budget
    <2>8. faults' = 0 => Calm'
      BY <2>1, <2>2, <2>3 DEF Calm
    <2>9. QED
      BY <2>4, <2>5, <2>7, <2>8
  <1>4. QED
    BY <1>2, <1>3 DEF SenderInv, LockInv, CopiesInv, BudgetInv, CalmInv

LEMMA HostKeepsSender ==
    ASSUME SenderAssumption, PagesAssumption, SenderInv, RowsInv', NEW h \in Hosts,
           Crash(h) \/ LoseChannel(h)
    PROVE  SenderInv'
  <1>1. RowsInv /\ HandlersInv /\ AccountInv /\ SentInv
    BY DEF SenderInv
  <1>2. HandlersInv' /\ AccountInv' /\ SentInv'
    BY <1>1, HostKeepsHandlers, HostKeepsAccount, HostKeepsSent
  <1>3. Fresh' = Fresh /\ faults' # 0
    BY <1>1, FreshStays DEF Crash, LoseChannel, OneMoreFault, audienceVars, HandlersInv
  <1>4. ASSUME Fresh
        PROVE  Lock' /\ Copies' /\ Budget'
    BY <1>1, <1>4, HostKeepsLock, HostKeepsCopies, HostKeepsBudget
       DEF SenderInv, LockInv, CopiesInv, BudgetInv
  <1>5. QED
    BY <1>2, <1>3, <1>4 DEF SenderInv, LockInv, CopiesInv, BudgetInv, CalmInv

LEMMA NextKeepsSender ==
    ASSUME SenderAssumption, PagesAssumption, SenderInv, [Next]_vars
    PROVE  SenderInv'
  <1>1. RowsInv'
    BY NextKeepsRows DEF SenderInv
  <1>2. CASE \/ Environment
             \/ \E h \in Hosts : HandleControl(h) \/ ExpireCache(h)
             \/ UNCHANGED vars
    BY <1>1, <1>2, EnvironmentElsewhere, ElsewhereKeepsSender
  <1>3. ASSUME NEW h \in Hosts, Crash(h) \/ LoseChannel(h)
        PROVE  SenderInv'
    BY <1>1, <1>3, HostKeepsSender
  <1>4. ASSUME NEW w \in Workers, DeliverSome(w) \/ Step(w) \/ Fail(w) \/ ReplyLost(w)
        PROVE  SenderInv'
    BY <1>4, StepKeepsSender
  <1>5. QED
    BY <1>2, <1>3, <1>4 DEF Next

LEMMA SenderInvAccounts ==
    ASSUME SenderAssumption, SenderInv
    PROVE  ContactsAccounted
  <1>1. SentOncePerFault
    <2>1. ASSUME Fresh, NEW c \in Contacts
          PROVE  sends[c] <= 1 + faults
      <3>1. sends[c] + Cardinality(Threats(c)) + Waits(c) <= 1 + faults
        BY <2>1 DEF SenderInv, BudgetInv, Budget
      <3>2. IsFiniteSet(Threats(c))
        BY FS_Subset DEF SenderAssumption, Threats
      <3>3. Cardinality(Threats(c)) \in Nat /\ Waits(c) \in {0, 1}
        BY <3>2, FS_CardinalityType DEF Waits
      <3>4. sends[c] \in Nat /\ faults \in Nat
        BY DEF SenderInv, HandlersInv
      <3>5. QED
        BY <3>1, <3>3, <3>4
    <2>2. QED
      BY <2>1 DEF SentOncePerFault, Fresh
  <1>2. RowsTellTruth
    <2>1. Recomputations \in Nat /\ faults \in Nat
      BY DEF Recomputations, SenderInv, RowsInv, HandlersInv
    <2>2. ASSUME NEW c \in Contacts, rows[c].status \in {"FAILED", "SKIPPED"}, sends[c] > 0
          PROVE  faults + Recomputations > 0
      <3>1. ~(Fresh /\ faults = 0)
        BY <2>2 DEF SenderInv, CalmInv, Calm
      <3>2. QED
        BY <2>1, <3>1 DEF Fresh
    <2>3. QED
      BY <2>2 DEF RowsTellTruth, SenderInv, SentInv
  <1>3. QED
    BY <1>1, <1>2 DEF ContactsAccounted

LEMMA SenderInvReports ==
    ASSUME SenderInv
    PROVE  PagesReported
  <1>1. PageAccounted
    BY DEF SenderInv, AccountInv
  <1>2. ReportsAreFinal
    BY DEF SenderInv, LockInv, Lock, Fresh, ReportsAreFinal, NoPending, InStatus
  <1>3. QED
    BY <1>1, <1>2 DEF PagesReported

\* No retry, requeue, redelivery, pause or lost channel makes the CRM send a
\* contact's message more often than the faults there were explain, and what the
\* rows record of it is true.
THEOREM ContactsAreAccounted == Spec => []ContactsAccounted
  <1>1. Init => SenderInv
    BY InitSenderInv, SenderAssumption, PagesAssumption
  <1>2. SenderInv /\ [Next]_vars => SenderInv'
    BY NextKeepsSender, SenderAssumption, PagesAssumption
  <1>3. SenderInv => ContactsAccounted
    BY SenderInvAccounts, SenderAssumption
  <1>4. QED
    BY <1>1, <1>2, <1>3, PTL DEF Spec

\* Every page is waiting, in a handler's hands, reported, or on record as given up,
\* discarded or dead-lettered; and a report stays true of the rows.
THEOREM PagesAreReported == Spec => []PagesReported
  <1>1. Init => SenderInv
    BY InitSenderInv, SenderAssumption, PagesAssumption
  <1>2. SenderInv /\ [Next]_vars => SenderInv'
    BY NextKeepsSender, SenderAssumption, PagesAssumption
  <1>3. SenderInv => PagesReported
    BY SenderInvReports
  <1>4. QED
    BY <1>1, <1>2, <1>3, PTL DEF Spec
===============================================================================

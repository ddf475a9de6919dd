---------------------------- MODULE CampaignPacker ----------------------------
(***************************************************************************)
(* The campaign packer (runners/campaign-packer, shared/audience): the     *)
(* consumers of campaigns.pack compute the audience of the campaign into   *)
(* its contact rows, read the rows back and publish them page by page on   *)
(* campaigns.send, or report an empty audience as completed.               *)
(*                                                                         *)
(* One campaign, packed by the handlers of several replicas.  Nothing      *)
(* locks the rows: a message delivered again while its first handler still *)
(* runs makes two of them work on the same rows.  A replica keeps two      *)
(* things in memory: whether a pause or stop has flagged the campaign, and *)
(* the circuit of its CRM client (JourneyNodes), which once open stays so. *)
(***************************************************************************)
EXTENDS Delivery, Sequences, FiniteSets

CONSTANTS
    Hosts, Workers, HostOf,   \* replicas, their handlers, where those run
    Contacts,                 \* contacts the campaign's definition selects
    Unreachable,              \* those without an address for its channel
    BatchSize,                \* CAMPAIGN_PACKER_BATCH_SIZE
    MaxRequests,              \* executions of the campaign
    MaxControls,              \* pauses, stops and resumes
    MaxFaults                 \* failures, outages, lost channels, crashes

ASSUME PackerAssumption ==
    /\ IsFiniteSet(Workers) /\ HostOf \in [Workers -> Hosts]
    /\ BatchSize \in Nat \ {0}
    /\ MaxRequests \in Nat /\ MaxControls \in Nat /\ MaxFaults \in Nat

Message == Messages({"pack"})

(* analyzeSegmentationStrategy: all contacts, listed by the CRM; or a        *)
(* segment, tags or a query, selected in the flow service's own database.    *)
Strategies == {"all", "selected"}

VARIABLES
    strategy,   \* analyzeSegmentationStrategy: how contacts are selected
    queue,      \* copies of pack messages that wait
    dead,       \* those given up
    rows,       \* the campaign's contact rows, in the order of their creation
    work,       \* what each handler is doing
    flagged,    \* abortedCampaigns: the replicas on which it is flagged
    open,       \* the replicas whose CRM circuit is open
    controls,   \* control messages that wait
    published,  \* how often each contact was in a published page
    emptied,    \* empty audiences reported as completed
    requests, passes,  \* pack messages published; handlers that took one
    excuses,    \* what has happened that may leave contacts out
    controlled, faults

vars == <<strategy, queue, dead, rows, work, flagged, open, controls, published,
          emptied, requests, passes, excuses, controlled, faults>>
broker == <<queue, dead>>
host == <<flagged, open>>
outside == <<strategy, controls, requests, controlled>>
output == <<published, emptied>>

Idle == [pc |-> "idle", msg |-> FirstCopy("pack"), owned |-> FALSE, left |-> {},
         list |-> << >>, page |-> 1]

Fault == faults < MaxFaults /\ faults' = faults + 1

Init ==
    /\ strategy \in Strategies
    /\ queue = NoCopies(Message) /\ dead = NoCopies(Message)
    /\ rows = << >>
    /\ work = [w \in Workers |-> Idle]
    /\ flagged = {} /\ open = {}
    /\ controls = [pause |-> 0, resume |-> 0]
    /\ published = [c \in Contacts |-> 0]
    /\ emptied = 0 /\ requests = 0 /\ passes = 0
    /\ excuses = {}
    /\ controlled = 0 /\ faults = 0

-------------------------------------------------------------------------------
(* The environment publishes pack and control messages.                      *)
Request ==
    /\ requests < MaxRequests
    /\ requests' = requests + 1
    /\ queue' = Add(queue, FirstCopy("pack"))
    /\ UNCHANGED <<strategy, dead, rows, work, host, controls, output, passes, excuses,
                   controlled, faults>>

Control ==
    /\ controlled < MaxControls
    /\ controlled' = controlled + 1
    /\ \E c \in {"pause", "resume"} : controls' = [controls EXCEPT ![c] = @ + 1]
    /\ UNCHANGED <<strategy, broker, rows, work, host, output, requests, passes,
                   excuses, faults>>

(* CampaignsControlConsumer: one replica gets the message.                   *)
HandleControl(h) ==
    /\ \E c \in {"pause", "resume"} :
        /\ controls[c] > 0
        /\ controls' = [controls EXCEPT ![c] = @ - 1]
        /\ flagged' = IF c = "resume" THEN flagged \ {h} ELSE flagged \cup {h}
    /\ UNCHANGED <<strategy, broker, rows, work, open, output, requests, passes,
                   excuses, controlled, faults>>

-------------------------------------------------------------------------------
(* The handler.                                                              *)

At(w, pc) == work[w].pc = pc
Goes(w, changed) == work' = [work EXCEPT ![w] = changed]
GoesTo(w, pc) == Goes(w, [work[w] EXCEPT !.pc = pc])

(* The campaign is looked up by pack and again by computeAudience.           *)
Take(w) ==
    /\ At(w, "idle")
    /\ \E m \in Waiting(queue) :
        /\ queue' = Remove(queue, m)
        /\ Goes(w, [Idle EXCEPT !.pc = "clear", !.msg = m, !.owned = TRUE])
    /\ passes' = passes + 1
    /\ excuses' = IF \E v \in Workers : ~At(v, "idle") THEN excuses \cup {"overlap"}
                                                       ELSE excuses
    /\ UNCHANGED <<outside, dead, rows, host, output, faults>>

(* Mutant: the rows of an earlier pass are left in place.                    *)
Unclear(w) ==
    /\ At(w, "clear")
    /\ GoesTo(w, "query")
    /\ UNCHANGED <<outside, broker, rows, host, output, passes, excuses, faults>>

(* clearAudience.                                                            *)
Clear(w) ==
    /\ At(w, "clear")
    /\ rows' = << >>
    /\ GoesTo(w, "query")
    /\ UNCHANGED <<outside, broker, host, output, passes, excuses, faults>>

(* nack(requeue = true) and nack(requeue = false); a handler whose channel   *)
(* is gone no longer settles anything.                                       *)
Requeue(w) ==
    /\ IF work[w].owned
       THEN /\ queue' = QueueAfterNack(queue, work[w].msg)
            /\ dead' = DeadAfterNack(dead, work[w].msg)
       ELSE UNCHANGED broker
    /\ excuses' = IF work[w].owned /\ Exhausted(work[w].msg) THEN excuses \cup {"dead"}
                                                             ELSE excuses
    /\ Goes(w, Idle)

(* Mutant: the listing waits for a CRM that is out of reach.                 *)
QueryWaits(w) ==
    /\ At(w, "query")
    /\ strategy /= "all" \/ HostOf[w] \notin open
    /\ \/ /\ Goes(w, [work[w] EXCEPT !.pc = "hydrate", !.left = Contacts])
          /\ UNCHANGED open
       \/ /\ GoesTo(w, "query")
          /\ open' = open \cup {HostOf[w]}
    /\ UNCHANGED <<outside, broker, rows, flagged, output, passes, excuses, faults>>

(* Selecting all contacts lists them in the CRM, and fails when the CRM does *)
(* not answer; the other strategies read the flow service's own database.    *)
Query(w) ==
    /\ At(w, "query")
    /\ \/ /\ strategy /= "all" \/ HostOf[w] \notin open
          /\ Goes(w, [work[w] EXCEPT !.pc = "hydrate", !.left = Contacts])
          /\ UNCHANGED <<broker, open, excuses, faults>>
       \/ /\ strategy = "all"
          /\ \/ HostOf[w] \in open /\ UNCHANGED <<open, faults>>
             \/ /\ HostOf[w] \notin open /\ Fault
                /\ open' \in {open, open \cup {HostOf[w]}}
          /\ Requeue(w)
    /\ UNCHANGED <<outside, rows, flagged, output, passes>>

(* Mutant: the channel type is not one the validation knows.                 *)
ValidNone(found) == {}

(* validateContactForChannel.                                                *)
Valid(found) == found \ Unreachable

(* findByIds turns every contact it cannot fetch into one that is missing.   *)
Hydrate(w) ==
    /\ At(w, "hydrate")
    /\ \/ /\ HostOf[w] \notin open
          /\ Goes(w, [work[w] EXCEPT !.pc = "insert", !.left = Valid(@)])
          /\ UNCHANGED <<open, excuses, faults>>
       \/ /\ HostOf[w] \notin open /\ Fault
          /\ \E found \in SUBSET work[w].left \ {work[w].left} :
              /\ Goes(w, [work[w] EXCEPT !.pc = "insert", !.left = Valid(found)])
              /\ open' \in IF found = {} THEN {open, open \cup {HostOf[w]}} ELSE {open}
          /\ excuses' = excuses \cup {"blind"}
       \/ /\ HostOf[w] \in open
          /\ Goes(w, [work[w] EXCEPT !.pc = "insert", !.left = {}])
          /\ excuses' = excuses \cup {"blind"}
          /\ UNCHANGED <<open, faults>>
    /\ UNCHANGED <<outside, broker, rows, flagged, output, passes>>

(* The rows are inserted in chunks, here of one, outside any transaction, in *)
(* the order in which the contacts were found.                               *)
Insert(w) ==
    /\ At(w, "insert")
    /\ \/ /\ work[w].left /= {}
          /\ LET c == CHOOSE x \in work[w].left : TRUE IN
                /\ rows' = Append(rows, c)
                /\ Goes(w, [work[w] EXCEPT !.left = @ \ {c}])
       \/ work[w].left = {} /\ GoesTo(w, "load") /\ UNCHANGED rows
    /\ UNCHANGED <<outside, broker, host, output, passes, excuses, faults>>

(* loadContactIds.                                                           *)
Load(w) ==
    /\ At(w, "load")
    /\ Goes(w, [work[w] EXCEPT !.pc = IF rows = << >> THEN "empty" ELSE "publish",
                               !.list = rows])
    /\ UNCHANGED <<outside, broker, rows, host, output, passes, excuses, faults>>

(* publishEmptyAudience leaves the flag alone.                               *)
PublishEmpty(w) ==
    /\ At(w, "empty")
    /\ emptied' = emptied + 1
    /\ GoesTo(w, "ack")
    /\ UNCHANGED <<outside, broker, rows, host, published, passes, excuses, faults>>

(* Mutant: pages counted from zero are asked for from one on.                *)
LaterPage(list, page) ==
    SubSeq(list, page * BatchSize + 1,
           IF (page + 1) * BatchSize < Len(list) THEN (page + 1) * BatchSize ELSE Len(list))

(* PaginationService.split: pages of BatchSize contacts, counted from 1.     *)
TotalPages(list) == (Len(list) + BatchSize - 1) \div BatchSize
Page(list, page) ==
    SubSeq(list, (page - 1) * BatchSize + 1,
           IF page * BatchSize < Len(list) THEN page * BatchSize ELSE Len(list))
Times(c, list) == Cardinality({i \in DOMAIN list : list[i] = c})

(* publishBatches: the flag is asked before each page and cleared at the end. *)
Publish(w) ==
    LET page == Page(work[w].list, work[w].page) IN
    /\ At(w, "publish")
    /\ IF work[w].page > TotalPages(work[w].list)
       THEN /\ flagged' = flagged \ {HostOf[w]}
            /\ GoesTo(w, "ack")
            /\ UNCHANGED <<published, excuses>>
       ELSE IF HostOf[w] \in flagged
       THEN /\ flagged' = flagged \ {HostOf[w]}
            /\ excuses' = excuses \cup {"stopped"}
            /\ GoesTo(w, "ack")
            /\ UNCHANGED published
       ELSE /\ published' = [c \in Contacts |-> published[c] + Times(c, page)]
            /\ Goes(w, [work[w] EXCEPT !.page = @ + 1])
            /\ UNCHANGED <<flagged, excuses>>
    /\ UNCHANGED <<outside, broker, rows, open, emptied, passes, faults>>

Ack(w) ==
    /\ At(w, "ack")
    /\ Goes(w, Idle)
    /\ UNCHANGED <<outside, broker, rows, host, output, passes, excuses, faults>>

-------------------------------------------------------------------------------
(* Faults.                                                                   *)

(* A database or broker call throws: the message is delivered again.  The    *)
(* finally of publishBatches clears the flag.                                *)
Fail(w) ==
    /\ work[w].pc \notin {"idle", "hydrate", "ack"} /\ Fault
    /\ Requeue(w)
    /\ flagged' = IF At(w, "publish") THEN flagged \ {HostOf[w]} ELSE flagged
    /\ UNCHANGED <<outside, rows, open, output, passes>>

(* The campaign is missing, its segment or query is invalid, its channel or  *)
(* template is not configured: the message is dropped.                       *)
Reject(w) ==
    /\ At(w, "clear") \/ At(w, "query") \/ (At(w, "publish") /\ work[w].page = 1)
    /\ Fault
    /\ dead' = IF work[w].owned THEN Add(dead, work[w].msg) ELSE dead
    /\ excuses' = IF work[w].owned THEN excuses \cup {"dead"} ELSE excuses
    /\ Goes(w, Idle)
    /\ UNCHANGED <<outside, queue, rows, host, output, passes>>

On(h) == {w \in Workers : HostOf[w] = h}
Held(h) == {w \in On(h) : work[w].owned}
Returned(h) == [m \in Message |-> queue[m] + Cardinality({w \in Held(h) : work[w].msg = m})]

(* A replica loses its channel: its copies return while its handlers run on. *)
LoseChannel(h) ==
    /\ Held(h) /= {} /\ Fault
    /\ queue' = Returned(h)
    /\ work' = [w \in Workers |->
                  IF w \in On(h) THEN [work[w] EXCEPT !.owned = FALSE] ELSE work[w]]
    /\ UNCHANGED <<outside, dead, rows, host, output, passes, excuses>>

Crash(h) ==
    /\ Fault
    /\ queue' = Returned(h)
    /\ work' = [w \in Workers |-> IF w \in On(h) THEN Idle ELSE work[w]]
    /\ flagged' = flagged \ {h} /\ open' = open \ {h}
    /\ UNCHANGED <<outside, dead, rows, output, passes, excuses>>

-------------------------------------------------------------------------------
Step(w) ==
    \/ Clear(w) \/ Query(w) \/ Hydrate(w) \/ Insert(w) \/ Load(w)
    \/ PublishEmpty(w) \/ Publish(w) \/ Ack(w)

Next ==
    \/ Request \/ Control
    \/ \E w \in Workers : Take(w) \/ Step(w) \/ Fail(w) \/ Reject(w)
    \/ \E h \in Hosts : HandleControl(h) \/ LoseChannel(h) \/ Crash(h)

Spec == Init /\ [][Next]_vars

(* Consumers take what waits, and a handler goes on.                         *)
FairSpec == Spec /\ \A w \in Workers : WF_vars(Take(w)) /\ WF_vars(Step(w))

-------------------------------------------------------------------------------
TypeOK ==
    /\ strategy \in Strategies
    /\ queue \in [Message -> Nat] /\ dead \in [Message -> Nat]
    /\ rows \in Seq(Contacts)
    /\ work \in [Workers -> [pc : {"idle", "clear", "query", "hydrate", "insert",
                                   "load", "empty", "publish", "ack"},
                             msg : Message, owned : BOOLEAN, left : SUBSET Contacts,
                             list : Seq(Contacts), page : Nat \ {0}]]
    /\ flagged \subseteq Hosts /\ open \subseteq Hosts
    /\ published \in [Contacts -> Nat]
    /\ emptied \in Nat /\ requests \in 0 .. MaxRequests /\ passes \in Nat
    /\ excuses \subseteq {"overlap", "stopped", "blind", "dead"}

Quiet == Waiting(queue) = {} /\ \A w \in Workers : At(w, "idle")

(* A pass over the campaign publishes a contact once, however often the      *)
(* message was delivered before: what a failed pass left in the rows is not  *)
(* published a second time by the next.  Only passes that overlap, which no  *)
(* lock prevents, can double a contact.                                      *)
OncePerPass == "overlap" \notin excuses => \A c \in Contacts : published[c] <= passes

(* Once a requested pack is settled, every contact that can be reached is in *)
(* a published page, unless one of the things that the code lets happen      *)
(* silently has happened: a pause or stop that stopped the pages (the        *)
(* message is acknowledged all the same, and a later resume publishes        *)
(* nothing), contacts that could not be fetched, overlapping passes, or a    *)
(* message that was given up.                                                *)
NobodyForgotten ==
    Quiet /\ requests > 0 /\ excuses = {} =>
        \A c \in Contacts \ Unreachable : published[c] >= 1

(* An empty audience is reported as completed only when nobody can be        *)
(* reached, or, silently, when the CRM was, or the circuit kept it, out of   *)
(* reach, or another pass had just cleared the rows.                         *)
EmptyOnlyWhenUnreachable ==
    emptied > 0 => Contacts \subseteq Unreachable \/ excuses \cap {"blind", "overlap"} /= {}

(* Whoever can be reached is reached, or the campaign does not claim to be   *)
(* done.                                                                     *)
EveryoneServed == TypeOK /\ NobodyForgotten /\ EmptyOnlyWhenUnreachable

(* Every requested pack is settled: published, reported empty or given up.   *)
PackSettles == Waiting(queue) /= {} ~> Quiet
===============================================================================

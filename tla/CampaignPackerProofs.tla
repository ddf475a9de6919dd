------------------------- MODULE CampaignPackerProofs -------------------------
(***************************************************************************)
(* What a pass of the packer publishes, for any number of replicas,        *)
(* handlers, contacts, requests, pauses and failures.                      *)
(*                                                                         *)
(* Unless two passes overlap one handler at a time is at work, and the     *)
(* rows are its own from the moment it has cleared them: a pass that has   *)
(* published pages before its n-th has published the contacts of the list  *)
(* up to that page, and no other.  Unless a contact could not be fetched   *)
(* the contacts that can be reached are, step by step, in the selection,   *)
(* among the rows, in the list.                                            *)
(*                                                                         *)
(* And what a journey node reports, the other work that asks the CRM for a *)
(* contact (JourneyNodes): each attempt of its activity has so many more   *)
(* effects ahead of it, and what it has sent left a trace.                 *)
(*                                                                         *)
(* And what the nodes of a session count and which way they branch         *)
(* (ConditionalPaths): between its nodes the record of a session is the    *)
(* workflow's variables, or an activity has put others there.              *)
(***************************************************************************)
EXTENDS CampaignPacker, JourneyNodes, ConditionalPaths, FiniteSetTheorems, SequenceTheorems

-------------------------------------------------------------------------------
WorkRecords == [pc : {"idle", "clear", "query", "hydrate", "insert", "load", "empty",
                      "publish", "ack"},
                msg : Message, owned : BOOLEAN, left : SUBSET Contacts,
                list : Seq(Contacts), page : Nat \ {0}]

Busy(w) == work[w].pc # "idle"

\* No contact is in a list twice.
Once(list) == \A i, j \in DOMAIN list : list[i] = list[j] => i = j

\* The contacts of the pages before a handler's next one.
Before(w) == (work[w].page - 1) * BatchSize

AloneInv ==
    "overlap" \notin excuses => \A v, w \in Workers : Busy(v) /\ Busy(w) => v = w

\* What a pass has published so far, and what it still may publish.
Metered(w) ==
    /\ work[w].pc \in {"clear", "query", "hydrate", "insert", "load", "empty"} =>
          \A c \in Contacts : published[c] < passes
    /\ work[w].pc \in {"query", "hydrate"} => rows = << >>
    /\ work[w].pc \in {"insert", "load"} => Once(rows)
    /\ work[w].pc = "insert" => \A i \in DOMAIN rows : rows[i] \notin work[w].left
    /\ work[w].pc = "publish" =>
          /\ Once(work[w].list)
          /\ \A c \in Contacts :
                (\A i \in DOMAIN work[w].list : work[w].list[i] = c => i > Before(w)) =>
                    published[c] < passes

MeterInv ==
    "overlap" \notin excuses =>
        /\ \A c \in Contacts : published[c] <= passes
        /\ \A w \in Workers : Metered(w)

Reachable == Contacts \ Unreachable
Served == \A c \in Reachable : published[c] >= 1
Sighted == excuses \cap {"blind", "overlap"} = {}

\* Whoever can be reached is on the way into a page.
Covered(w) ==
    /\ work[w].pc = "hydrate" => work[w].left = Contacts
    /\ work[w].pc = "insert" =>
          \A c \in Reachable : c \in work[w].left \/ \E i \in DOMAIN rows : rows[i] = c
    /\ work[w].pc = "load" => \A c \in Reachable : \E i \in DOMAIN rows : rows[i] = c
    /\ work[w].pc = "empty" => Reachable = {}
    /\ work[w].pc = "publish" =>
          \A c \in Reachable : \E i \in DOMAIN work[w].list :
              work[w].list[i] = c /\ (i <= Before(w) => published[c] >= 1)
    /\ work[w].pc = "ack" /\ "stopped" \notin excuses => Served

CoverInv ==
    Sighted => /\ emptied > 0 => Reachable = {}
               /\ \A w \in Workers : Covered(w)

SettleInv ==
    excuses = {} /\ requests > 0 =>
        \/ Waiting(queue) # {}
        \/ \E w \in Workers : Busy(w) /\ work[w].owned
        \/ Served

\* No page is behind a handler that has not read its list.
FreshInv ==
    \A w \in Workers :
        work[w].pc \in {"clear", "query", "hydrate", "insert", "load"} => work[w].page = 1

PackerInv == TypeOK /\ FreshInv /\ AloneInv /\ MeterInv /\ CoverInv /\ SettleInv


-------------------------------------------------------------------------------
(* What each step does to its handler.                                       *)

\* Only handler w changes.
Alone(w) ==
    /\ work' \in [Workers -> WorkRecords]
    /\ \A v \in Workers : v # w => work'[v] = work[v]

LEMMA Altered ==
    ASSUME TypeOK, NEW w \in Workers, NEW p \in WorkRecords, Goes(w, p)
    PROVE  work'[w] = p /\ Alone(w)
  BY DEF TypeOK, Goes, Alone, WorkRecords

AtPc(r, pc) == [r EXCEPT !.pc = pc]
AtLeft(r, pc, left) == [r EXCEPT !.pc = pc, !.left = left]
Taking(r, c) == [r EXCEPT !.left = @ \ {c}]
AtList(r, pc, list) == [r EXCEPT !.pc = pc, !.list = list]
AtNext(r) == [r EXCEPT !.page = @ + 1]
Given(m) == [Idle EXCEPT !.pc = "clear", !.msg = m, !.owned = TRUE]

Pcs == {"idle", "clear", "query", "hydrate", "insert", "load", "empty", "publish", "ack"}

LEMMA AtPcType ==
    ASSUME NEW r \in WorkRecords, NEW pc \in Pcs, NEW p, p = AtPc(r, pc)
    PROVE  /\ p \in WorkRecords /\ p.pc = pc /\ p.msg = r.msg /\ p.owned = r.owned
           /\ p.left = r.left /\ p.list = r.list /\ p.page = r.page
  BY DEF WorkRecords, AtPc, Pcs

LEMMA AtLeftType ==
    ASSUME NEW r \in WorkRecords, NEW pc \in Pcs, NEW l \in SUBSET Contacts,
           NEW p, p = AtLeft(r, pc, l)
    PROVE  /\ p \in WorkRecords /\ p.pc = pc /\ p.msg = r.msg /\ p.owned = r.owned
           /\ p.left = l /\ p.list = r.list /\ p.page = r.page
  BY DEF WorkRecords, AtLeft, Pcs

LEMMA TakingType ==
    ASSUME NEW r \in WorkRecords, NEW c, NEW p, p = Taking(r, c)
    PROVE  /\ p \in WorkRecords /\ p.pc = r.pc /\ p.msg = r.msg /\ p.owned = r.owned
           /\ p.left = r.left \ {c} /\ p.list = r.list /\ p.page = r.page
  BY DEF WorkRecords, Taking

LEMMA AtListType ==
    ASSUME NEW r \in WorkRecords, NEW pc \in Pcs, NEW l \in Seq(Contacts),
           NEW p, p = AtList(r, pc, l)
    PROVE  /\ p \in WorkRecords /\ p.pc = pc /\ p.msg = r.msg /\ p.owned = r.owned
           /\ p.left = r.left /\ p.list = l /\ p.page = r.page
  BY DEF WorkRecords, AtList, Pcs

LEMMA AtNextType ==
    ASSUME NEW r \in WorkRecords, NEW p, p = AtNext(r)
    PROVE  /\ p \in WorkRecords /\ p.pc = r.pc /\ p.msg = r.msg /\ p.owned = r.owned
           /\ p.left = r.left /\ p.list = r.list /\ p.page = r.page + 1
  BY DEF WorkRecords, AtNext

LEMMA IdleType ==
    /\ Idle \in WorkRecords /\ Idle.pc = "idle" /\ Idle.owned = FALSE
    /\ Idle.page = 1
  <1>1. FirstCopy("pack") \in Message
    BY FirstCopyType DEF Message
  <1>2. << >> \in Seq(Contacts)
    OBVIOUS
  <1>3. QED
    BY <1>1, <1>2 DEF Idle, WorkRecords

LEMMA GivenType ==
    ASSUME NEW m \in Message, NEW p, p = Given(m)
    PROVE  p \in WorkRecords /\ p.pc = "clear" /\ p.msg = m /\ p.owned = TRUE /\ p.page = 1
  <1>1. /\ DOMAIN p = {"pc", "msg", "owned", "left", "list", "page"}
        /\ p.pc = "clear" /\ p.msg = m /\ p.owned = TRUE
        /\ p.left = {} /\ p.list = << >> /\ p.page = 1
    BY DEF Given, Idle
  <1>2. QED
    BY IdleType DEF Given, WorkRecords

\* What a step of handler w leaves as it is.
Keeps(w) ==
    /\ Alone(w)
    /\ work'[w].msg = work[w].msg /\ work'[w].owned = work[w].owned

Counts == UNCHANGED <<requests, passes, published, emptied>>

LEMMA WorkType ==
    ASSUME TypeOK, NEW w \in Workers
    PROVE  work[w] \in WorkRecords
  BY DEF TypeOK, WorkRecords

\* A handler whose program counter alone moves.
LEMMA GoesToMoves ==
    ASSUME TypeOK, NEW w \in Workers, NEW pc \in Pcs, GoesTo(w, pc)
    PROVE  /\ Keeps(w) /\ work'[w].pc = pc /\ work'[w].left = work[w].left
           /\ work'[w].list = work[w].list /\ work'[w].page = work[w].page
  <1> DEFINE p == AtPc(work[w], pc)
  <1>1. work[w] \in WorkRecords
    BY WorkType
  <1>2. /\ p \in WorkRecords /\ p.pc = pc /\ p.msg = work[w].msg /\ p.owned = work[w].owned
        /\ p.left = work[w].left /\ p.list = work[w].list /\ p.page = work[w].page
    BY <1>1, AtPcType
  <1>3. Goes(w, p)
    BY DEF GoesTo, AtPc
  <1>4. work'[w] = p /\ Alone(w)
    BY <1>2, <1>3, Altered
  <1>5. QED
    BY <1>2, <1>4 DEF Keeps

\* A handler that gets or keeps its selection.
LEMMA LeftMoves ==
    ASSUME TypeOK, NEW w \in Workers, NEW pc \in Pcs, NEW l \in SUBSET Contacts,
           Goes(w, AtLeft(work[w], pc, l))
    PROVE  /\ Keeps(w) /\ work'[w].pc = pc /\ work'[w].left = l
           /\ work'[w].list = work[w].list /\ work'[w].page = work[w].page
  <1> DEFINE p == AtLeft(work[w], pc, l)
  <1>1. work[w] \in WorkRecords
    BY WorkType
  <1>2. /\ p \in WorkRecords /\ p.pc = pc /\ p.msg = work[w].msg /\ p.owned = work[w].owned
        /\ p.left = l /\ p.list = work[w].list /\ p.page = work[w].page
    BY <1>1, AtLeftType
  <1>3. work'[w] = p /\ Alone(w)
    BY <1>2, Altered
  <1>4. QED
    BY <1>2, <1>3 DEF Keeps

\* A handler whose message is settled.
LEMMA IdleMoves ==
    ASSUME TypeOK, NEW w \in Workers, Goes(w, Idle)
    PROVE  Alone(w) /\ work'[w].pc = "idle" /\ work'[w].page = 1
  BY IdleType, Altered

LEMMA RequeueMoves ==
    ASSUME TypeOK, NEW w \in Workers, Requeue(w)
    PROVE  /\ Alone(w) /\ work'[w].pc = "idle" /\ work'[w].page = 1
           /\ queue' \in [Message -> Nat] /\ dead' \in [Message -> Nat]
           /\ excuses' \in {excuses, excuses \cup {"dead"}}
           /\ Waiting(queue) \subseteq Waiting(queue')
           /\ work[w].owned => Waiting(queue') # {} \/ "dead" \in excuses'
  <1>1. Alone(w) /\ work'[w].pc = "idle" /\ work'[w].page = 1
    BY IdleMoves DEF Requeue
  <1>2. work[w].msg \in Message /\ work[w].owned \in BOOLEAN
    BY WorkType DEF WorkRecords
  <1>3. queue \in [Message -> Nat] /\ dead \in [Message -> Nat]
    BY DEF TypeOK
  <1>4. /\ QueueAfterNack(queue, work[w].msg) \in [Message -> Nat]
        /\ DeadAfterNack(dead, work[w].msg) \in [Message -> Nat]
    BY <1>2, <1>3, NackType DEF Message
  <1>5. Waiting(queue) \subseteq Waiting(QueueAfterNack(queue, work[w].msg))
    BY <1>2, <1>3, NackKeeps DEF Message
  <1>6. CASE work[w].owned
    <2>1. /\ queue' = QueueAfterNack(queue, work[w].msg)
          /\ dead' = DeadAfterNack(dead, work[w].msg)
      BY <1>6 DEF Requeue
    <2>2. CASE Exhausted(work[w].msg)
      <3>1. excuses' = excuses \cup {"dead"}
        BY <1>6, <2>2 DEF Requeue
      <3>2. QED
        BY <1>1, <1>4, <1>5, <2>1, <3>1
    <2>3. CASE ~Exhausted(work[w].msg)
      <3> DEFINE n == [work[w].msg EXCEPT !.attempt = NextAttempt(work[w].msg)]
      <3>1. n \in Message
        BY <1>2, <2>3, DeliveryLimitAssumption DEF Message, Messages, Exhausted, NextAttempt
      <3>2. Waiting(queue') = Waiting(queue) \cup {n}
        BY <1>3, <2>1, <2>3, <3>1, WaitingAfter DEF QueueAfterNack
      <3>3. excuses' = excuses
        BY <2>3 DEF Requeue
      <3>4. QED
        BY <1>1, <1>4, <1>5, <2>1, <3>2, <3>3
    <2>4. QED
      BY <2>2, <2>3
  <1>7. CASE ~work[w].owned
    BY <1>1, <1>3, <1>7 DEF Requeue, broker
  <1>8. QED
    BY <1>6, <1>7

-------------------------------------------------------------------------------
(* What keeps the invariant.                                                 *)

Grows == \A c \in Contacts : published'[c] >= published[c]

\* Nothing that was to serve the campaign is given up without an excuse.
LEMMA SettleKept ==
    ASSUME TypeOK, TypeOK', SettleInv, excuses \subseteq excuses', requests' = requests, Grows,
           \/ Waiting(queue) \subseteq Waiting(queue')
           \/ \E w \in Workers : Busy(w)' /\ work'[w].owned,
           \A w \in Workers : Busy(w) /\ work[w].owned /\ excuses' = {} =>
               \/ Busy(w)' /\ work'[w].owned
               \/ Waiting(queue') # {}
               \/ Served'
    PROVE  SettleInv'
  <1> SUFFICES ASSUME excuses' = {}, requests' > 0
               PROVE  \/ Waiting(queue') # {}
                      \/ \E w \in Workers : Busy(w)' /\ work'[w].owned
                      \/ Served'
    BY DEF SettleInv
  <1>1. excuses = {} /\ requests > 0
    OBVIOUS
  <1>2. Served => Served'
    BY DEF Served, Grows, TypeOK, Reachable
  <1>3. CASE Waiting(queue) # {}
    BY <1>3
  <1>4. CASE \E w \in Workers : Busy(w) /\ work[w].owned
    BY <1>4
  <1>5. QED
    BY <1>1, <1>2, <1>3, <1>4 DEF SettleInv

\* A step of a handler that is the only one at work, unless passes overlap.
LEMMA StepKept ==
    ASSUME NEW w \in Workers, Alone(w), excuses \subseteq excuses',
           TypeOK', SettleInv', FreshInv,
           work'[w].pc \in {"clear", "query", "hydrate", "insert", "load"} => work'[w].page = 1,
           "overlap" \notin excuses' => \A v \in Workers : v # w => work[v].pc = "idle",
           "overlap" \notin excuses' =>
               (\A c \in Contacts : published'[c] <= passes') /\ Metered(w)',
           Sighted' => (emptied' > 0 => Reachable = {}) /\ Covered(w)'
    PROVE  PackerInv'
  <1>1. \A v \in Workers : v # w => work'[v] = work[v]
    BY DEF Alone
  <1>2. FreshInv'
    BY <1>1 DEF FreshInv
  <1>3. ASSUME "overlap" \notin excuses', NEW v \in Workers, v # w
        PROVE  work'[v].pc = "idle" /\ ~Busy(v)' /\ Metered(v)' /\ Covered(v)'
    <2>1. work'[v].pc = "idle"
      BY <1>1, <1>3
    <2>2. QED
      BY <2>1 DEF Busy, Metered, Covered
  <1>4. AloneInv'
    BY <1>3 DEF AloneInv
  <1>5. MeterInv'
    BY <1>3 DEF MeterInv
  <1>6. Sighted' => "overlap" \notin excuses'
    BY DEF Sighted
  <1>7. CoverInv'
    BY <1>3, <1>6 DEF CoverInv, Reachable
  <1>8. QED
    BY <1>2, <1>4, <1>5, <1>7 DEF PackerInv

\* What is known before a step of a handler at work.
LEMMA AtWork ==
    ASSUME PackerInv, NEW w \in Workers, Busy(w), excuses \subseteq excuses'
    PROVE  /\ "overlap" \notin excuses' =>
                /\ \A v \in Workers : v # w => work[v].pc = "idle"
                /\ \A c \in Contacts : published[c] <= passes
                /\ Metered(w)
           /\ Sighted' => Sighted /\ (emptied > 0 => Reachable = {}) /\ Covered(w)
  <1>1. Sighted' => Sighted
    BY DEF Sighted
  <1>2. QED
    BY <1>1 DEF PackerInv, AloneInv, MeterInv, CoverInv, Busy

\* A handler that goes on and publishes nothing.
LEMMA QuietStepKept ==
    ASSUME PackerInv, NEW w \in Workers, Keeps(w), Busy(w), Busy(w)',
           excuses \subseteq excuses', TypeOK', UNCHANGED <<queue, requests, passes, published>>,
           work'[w].pc \in {"clear", "query", "hydrate", "insert", "load"} => work'[w].page = 1,
           "overlap" \notin excuses' => Metered(w)',
           Sighted' => (emptied' > 0 => Reachable = {}) /\ Covered(w)'
    PROVE  PackerInv'
  <1>1. Grows
    BY DEF Grows, PackerInv, TypeOK
  <1>2. \A v \in Workers : Busy(v) => Busy(v)' /\ work'[v].owned = work[v].owned
    BY DEF Keeps, Alone, Busy
  <1>3. SettleInv'
    BY <1>1, <1>2, SettleKept DEF PackerInv
  <1>4. "overlap" \notin excuses' => \A v \in Workers : v # w => work[v].pc = "idle"
    BY AtWork
  <1>5. "overlap" \notin excuses' => \A c \in Contacts : published'[c] <= passes'
    BY AtWork
  <1>6. QED
    BY <1>3, <1>4, <1>5, StepKept DEF PackerInv, Keeps

-------------------------------------------------------------------------------
(* Each step of a handler.                                                   *)

LEMMA ClearKeeps ==
    ASSUME PackerInv, NEW w \in Workers, Clear(w)
    PROVE  PackerInv'
  <1>1. TypeOK /\ work[w].pc = "clear" /\ GoesTo(w, "query") /\ rows' = << >>
    BY DEF PackerInv, Clear, At
  <1>2. /\ Keeps(w) /\ work'[w].pc = "query" /\ work'[w].page = work[w].page
    BY <1>1, GoesToMoves DEF Pcs
  <1>3. UNCHANGED <<outside, broker, host, output, passes, excuses, faults>>
    BY DEF Clear
  <1>4. TypeOK'
    BY <1>1, <1>2, <1>3 DEF TypeOK, Keeps, Alone, WorkRecords, outside, broker, host, output
  <1>5. work'[w].page = 1
    BY <1>1, <1>2 DEF PackerInv, FreshInv
  <1>6. Busy(w) /\ Busy(w)'
    BY <1>1, <1>2 DEF Busy
  <1>7. "overlap" \notin excuses' => Metered(w)'
    <2>1. "overlap" \notin excuses' => Metered(w)
      BY <1>3, <1>6, AtWork
    <2>2. QED
      BY <1>1, <1>2, <1>3, <2>1 DEF Metered, output
  <1>8. Sighted' => (emptied' > 0 => Reachable = {}) /\ Covered(w)'
    <2>1. Sighted' => (emptied > 0 => Reachable = {})
      BY <1>3, <1>6, AtWork
    <2>2. QED
      BY <1>2, <1>3, <2>1 DEF Covered, output
  <1>9. QED
    BY <1>2, <1>3, <1>4, <1>5, <1>6, <1>7, <1>8, QuietStepKept DEF outside, broker, output

\* A handler that gives up: what it held is back in the queue or excused.
LEMMA LeavesKept ==
    ASSUME PackerInv, NEW w \in Workers, Busy(w), Alone(w), work'[w].pc = "idle",
           excuses \subseteq excuses', TypeOK',
           UNCHANGED <<requests, passes, published, emptied>>,
           Waiting(queue) \subseteq Waiting(queue'),
           work[w].owned /\ excuses' = {} => Waiting(queue') # {} \/ Served
    PROVE  PackerInv'
  <1>1. Grows
    BY DEF Grows, PackerInv, TypeOK
  <1>2. Served => Served'
    BY DEF Served, Reachable
  <1>3. ASSUME NEW v \in Workers, Busy(v), work[v].owned, excuses' = {}
        PROVE  (Busy(v)' /\ work'[v].owned) \/ Waiting(queue') # {} \/ Served'
    BY <1>2, <1>3 DEF Alone, Busy
  <1>4. SettleInv'
    BY <1>1, <1>3, SettleKept DEF PackerInv
  <1>5. Metered(w)' /\ Covered(w)'
    BY DEF Metered, Covered
  <1>6. QED
    BY <1>4, <1>5, AtWork, StepKept DEF PackerInv

LEMMA RequeueKeeps ==
    ASSUME PackerInv, NEW w \in Workers, Busy(w), Requeue(w), open' \subseteq Hosts,
           flagged' \subseteq Hosts, UNCHANGED <<outside, rows, output, passes>>
    PROVE  PackerInv'
  <1>1. TypeOK
    BY DEF PackerInv
  <1>2. /\ Alone(w) /\ work'[w].pc = "idle"
        /\ queue' \in [Message -> Nat] /\ dead' \in [Message -> Nat]
        /\ excuses' \in {excuses, excuses \cup {"dead"}}
        /\ Waiting(queue) \subseteq Waiting(queue')
        /\ work[w].owned => Waiting(queue') # {} \/ "dead" \in excuses'
    BY <1>1, RequeueMoves
  <1>3. excuses \subseteq excuses'
    BY <1>2
  <1>4. TypeOK'
    BY <1>1, <1>2 DEF TypeOK, Alone, WorkRecords, outside, output
  <1>5. work[w].owned /\ excuses' = {} => Waiting(queue') # {}
    BY <1>2
  <1>6. QED
    BY <1>2, <1>3, <1>4, <1>5, LeavesKept DEF outside, output

LEMMA QueryKeeps ==
    ASSUME PackerAssumption, PackerInv, NEW w \in Workers, Query(w)
    PROVE  PackerInv'
  <1>1. TypeOK /\ work[w].pc = "query" /\ Busy(w)
    BY DEF PackerInv, Query, At, Busy
  <1>2. UNCHANGED <<outside, rows, flagged, output, passes>>
    BY DEF Query
  <1>3. CASE /\ Goes(w, [work[w] EXCEPT !.pc = "hydrate", !.left = Contacts])
             /\ UNCHANGED <<broker, open, excuses, faults>>
    <2>1. Keeps(w) /\ work'[w].pc = "hydrate" /\ work'[w].left = Contacts
          /\ work'[w].page = work[w].page
      BY <1>1, <1>3, LeftMoves DEF Pcs, AtLeft
    <2>2. TypeOK'
      BY <1>1, <1>2, <1>3, <2>1 DEF TypeOK, Keeps, Alone, WorkRecords, outside, broker, output
    <2>3. work'[w].page = 1
      BY <1>1, <2>1 DEF PackerInv, FreshInv
    <2>4. "overlap" \notin excuses' => Metered(w)'
      <3>1. "overlap" \notin excuses' => Metered(w)
        BY <1>1, <1>3, AtWork
      <3>2. QED
        BY <1>1, <1>2, <2>1, <3>1 DEF Metered, output
    <2>5. Sighted' => (emptied' > 0 => Reachable = {}) /\ Covered(w)'
      <3>1. Sighted' => (emptied > 0 => Reachable = {})
        BY <1>1, <1>3, AtWork
      <3>2. QED
        BY <1>2, <2>1, <3>1 DEF Covered, output
    <2>6. Busy(w)'
      BY <2>1 DEF Busy
    <2>7. QED
      BY <1>1, <1>2, <1>3, <2>1, <2>2, <2>3, <2>4, <2>5, <2>6, QuietStepKept
      DEF outside, broker, output
  <1>4. CASE Requeue(w) /\ open' \in {open, open \cup {HostOf[w]}}
    <2>1. open' \subseteq Hosts /\ flagged' \subseteq Hosts
      BY <1>1, <1>2, <1>4 DEF TypeOK, PackerAssumption
    <2>2. QED
      BY <1>1, <1>2, <1>4, <2>1, RequeueKeeps
  <1>5. QED
    BY <1>3, <1>4 DEF Query

\* What the contacts found by the CRM leave of the selection.
LEMMA HydrateMoves ==
    ASSUME PackerAssumption, PackerInv, NEW w \in Workers, Hydrate(w)
    PROVE  /\ Keeps(w) /\ work'[w].pc = "insert" /\ work'[w].page = work[w].page
           /\ work'[w].left \subseteq Contacts /\ open' \subseteq Hosts
           /\ \/ excuses' = excuses /\ work'[w].left = work[w].left \ Unreachable
              \/ excuses' = excuses \cup {"blind"}
  <1>1. TypeOK /\ work[w] \in WorkRecords
    BY WorkType DEF PackerInv
  <1>2. open \subseteq Hosts /\ HostOf[w] \in Hosts /\ work[w].left \subseteq Contacts
    BY <1>1 DEF TypeOK, PackerAssumption, WorkRecords
  <1>3. ASSUME NEW l \in SUBSET Contacts, Goes(w, AtLeft(work[w], "insert", l))
        PROVE  /\ Keeps(w) /\ work'[w].pc = "insert" /\ work'[w].page = work[w].page
               /\ work'[w].left = l
    BY <1>1, <1>3, LeftMoves DEF Pcs
  <1>4. CASE /\ Goes(w, [work[w] EXCEPT !.pc = "insert", !.left = Valid(@)])
             /\ UNCHANGED <<open, excuses, faults>>
    <2>1. Goes(w, AtLeft(work[w], "insert", Valid(work[w].left)))
      BY <1>4 DEF AtLeft
    <2>2. Valid(work[w].left) \in SUBSET Contacts
      BY <1>2 DEF Valid
    <2>3. QED
      BY <1>2, <1>3, <1>4, <2>1, <2>2 DEF Valid
  <1>5. CASE /\ \E found \in SUBSET work[w].left \ {work[w].left} :
                    /\ Goes(w, [work[w] EXCEPT !.pc = "insert", !.left = Valid(found)])
                    /\ open' \in IF found = {} THEN {open, open \cup {HostOf[w]}} ELSE {open}
             /\ excuses' = excuses \cup {"blind"}
    <2>1. PICK found \in SUBSET work[w].left :
              /\ Goes(w, AtLeft(work[w], "insert", Valid(found)))
              /\ open' \in {open, open \cup {HostOf[w]}}
      BY <1>5 DEF AtLeft
    <2>2. Valid(found) \in SUBSET Contacts
      BY <1>2 DEF Valid
    <2>3. QED
      BY <1>2, <1>3, <1>5, <2>1, <2>2
  <1>6. CASE /\ Goes(w, [work[w] EXCEPT !.pc = "insert", !.left = {}])
             /\ excuses' = excuses \cup {"blind"}
             /\ UNCHANGED <<open, faults>>
    <2>1. Goes(w, AtLeft(work[w], "insert", {}))
      BY <1>6 DEF AtLeft
    <2>2. QED
      BY <1>2, <1>3, <1>6, <2>1
  <1>7. QED
    BY <1>4, <1>5, <1>6 DEF Hydrate

LEMMA HydrateKeeps ==
    ASSUME PackerAssumption, PackerInv, NEW w \in Workers, Hydrate(w)
    PROVE  PackerInv'
  <1>1. TypeOK /\ work[w].pc = "hydrate" /\ Busy(w)
    BY DEF PackerInv, Hydrate, At, Busy
  <1>2. /\ Keeps(w) /\ work'[w].pc = "insert" /\ work'[w].page = work[w].page
        /\ work'[w].left \subseteq Contacts /\ open' \subseteq Hosts
        /\ \/ excuses' = excuses /\ work'[w].left = work[w].left \ Unreachable
           \/ excuses' = excuses \cup {"blind"}
    BY HydrateMoves
  <1>3. UNCHANGED <<outside, broker, rows, flagged, output, passes>>
    BY DEF Hydrate
  <1>4. TypeOK'
    BY <1>1, <1>2, <1>3 DEF TypeOK, Keeps, Alone, WorkRecords, outside, broker, output
  <1>5. excuses \subseteq excuses' /\ Busy(w)'
    BY <1>2 DEF Busy
  <1>6. work'[w].page = 1
    BY <1>1, <1>2 DEF PackerInv, FreshInv
  <1>7. "overlap" \notin excuses' => Metered(w)'
    <2>1. "overlap" \notin excuses' => Metered(w)
      BY <1>1, <1>5, AtWork
    <2>2. "overlap" \notin excuses' => rows' = << >>
      BY <1>1, <1>3, <2>1 DEF Metered
    <2>3. QED
      BY <1>1, <1>2, <1>3, <2>1, <2>2 DEF Metered, Once, output
  <1>8. Sighted' => (emptied' > 0 => Reachable = {}) /\ Covered(w)'
    <2>1. Sighted' => (emptied > 0 => Reachable = {}) /\ Covered(w)
      BY <1>1, <1>5, AtWork
    <2>2. Sighted' => work[w].left = Contacts
      BY <1>1, <2>1 DEF Covered
    <2>3. Sighted' => work'[w].left = work[w].left \ Unreachable
      BY <1>2 DEF Sighted
    <2>4. QED
      BY <1>2, <1>3, <2>1, <2>2, <2>3 DEF Covered, Reachable, output
  <1>9. QED
    BY <1>1, <1>2, <1>3, <1>4, <1>5, <1>6, <1>7, <1>8, QuietStepKept
    DEF outside, broker, output

LEMMA AppendFacts ==
    ASSUME NEW s \in Seq(Contacts), NEW c \in Contacts
    PROVE  /\ Append(s, c) \in Seq(Contacts)
           /\ DOMAIN Append(s, c) = DOMAIN s \cup {Len(s) + 1}
           /\ \A i \in DOMAIN s : Append(s, c)[i] = s[i]
           /\ Append(s, c)[Len(s) + 1] = c
  OBVIOUS

\* One more row: it was nobody's yet.
LEMMA OnceAppend ==
    ASSUME NEW s \in Seq(Contacts), NEW c \in Contacts, Once(s), \A i \in DOMAIN s : s[i] # c
    PROVE  Once(Append(s, c))
  BY AppendFacts DEF Once

LEMMA InsertKeeps ==
    ASSUME PackerInv, NEW w \in Workers, Insert(w)
    PROVE  PackerInv'
  <1>1. TypeOK /\ work[w].pc = "insert" /\ Busy(w) /\ work[w].page = 1 /\ rows \in Seq(Contacts)
    BY DEF PackerInv, FreshInv, TypeOK, Insert, At, Busy
  <1>2. UNCHANGED <<outside, broker, host, output, passes, excuses, faults>>
    BY DEF Insert
  <1>3. "overlap" \notin excuses' => Metered(w)
    BY <1>1, <1>2, AtWork
  <1>4. Sighted' => (emptied > 0 => Reachable = {}) /\ Covered(w)
    BY <1>1, <1>2, AtWork
  <1>5. work[w] \in WorkRecords /\ work[w].left \subseteq Contacts
    BY <1>1, WorkType DEF WorkRecords
  <1>6. ASSUME NEW c \in work[w].left, rows' = Append(rows, c),
               Goes(w, [work[w] EXCEPT !.left = @ \ {c}])
        PROVE  PackerInv'
    <2> DEFINE p == Taking(work[w], c)
    <2>1. /\ p \in WorkRecords /\ p.pc = work[w].pc /\ p.msg = work[w].msg
          /\ p.owned = work[w].owned /\ p.left = work[w].left \ {c}
          /\ p.list = work[w].list /\ p.page = work[w].page
      BY <1>5, TakingType
    <2>2. Goes(w, p)
      BY <1>6 DEF Taking
    <2>3. work'[w] = p /\ Alone(w)
      BY <1>1, <2>1, <2>2, Altered
    <2>4. /\ Keeps(w) /\ work'[w].pc = "insert" /\ work'[w].page = 1
          /\ work'[w].left = work[w].left \ {c}
      BY <1>1, <2>1, <2>3 DEF Keeps
    <2>5. /\ rows' \in Seq(Contacts)
          /\ DOMAIN rows' = DOMAIN rows \cup {Len(rows) + 1}
          /\ \A i \in DOMAIN rows : rows'[i] = rows[i]
          /\ rows'[Len(rows) + 1] = c
      BY <1>1, <1>5, <1>6, AppendFacts
    <2>6. TypeOK'
      BY <1>1, <1>2, <2>3, <2>5 DEF TypeOK, Alone, WorkRecords, outside, broker, host, output
    <2>7. "overlap" \notin excuses' => Metered(w)'
      <3> SUFFICES ASSUME "overlap" \notin excuses' PROVE Metered(w)'
        OBVIOUS
      <3>1. /\ \A d \in Contacts : published[d] < passes
            /\ Once(rows) /\ \A i \in DOMAIN rows : rows[i] \notin work[w].left
        BY <1>1, <1>3 DEF Metered
      <3>2. Once(rows')
        BY <1>1, <1>5, <1>6, <3>1, OnceAppend
      <3>3. \A i \in DOMAIN rows' : rows'[i] \notin work'[w].left
        BY <2>4, <2>5, <3>1
      <3>4. QED
        BY <1>2, <2>4, <3>1, <3>2, <3>3 DEF Metered, output
    <2>8. Sighted' => (emptied' > 0 => Reachable = {}) /\ Covered(w)'
      <3> SUFFICES ASSUME Sighted' PROVE (emptied' > 0 => Reachable = {}) /\ Covered(w)'
        OBVIOUS
      <3>1. \A d \in Reachable : d \in work[w].left \/ \E i \in DOMAIN rows : rows[i] = d
        BY <1>1, <1>4 DEF Covered
      <3>2. ASSUME NEW d \in Reachable
            PROVE  d \in work'[w].left \/ \E i \in DOMAIN rows' : rows'[i] = d
        BY <2>4, <2>5, <3>1
      <3>3. QED
        BY <1>2, <1>4, <2>4, <3>2 DEF Covered, Reachable, output
    <2>9. Busy(w)'
      BY <2>4 DEF Busy
    <2>10. QED
      BY <1>1, <1>2, <2>4, <2>6, <2>7, <2>8, <2>9, QuietStepKept DEF outside, broker, output
  <1>7. CASE work[w].left = {} /\ GoesTo(w, "load") /\ UNCHANGED rows
    <2>1. Keeps(w) /\ work'[w].pc = "load" /\ work'[w].page = 1
      BY <1>1, <1>7, GoesToMoves DEF Pcs
    <2>2. TypeOK'
      BY <1>1, <1>2, <1>7, <2>1
      DEF TypeOK, Keeps, Alone, WorkRecords, outside, broker, host, output
    <2>3. "overlap" \notin excuses' => Metered(w)'
      BY <1>1, <1>2, <1>3, <1>7, <2>1 DEF Metered, output
    <2>4. Sighted' => (emptied' > 0 => Reachable = {}) /\ Covered(w)'
      BY <1>1, <1>2, <1>4, <1>7, <2>1 DEF Covered, Reachable, output
    <2>5. Busy(w)'
      BY <2>1 DEF Busy
    <2>6. QED
      BY <1>1, <1>2, <2>1, <2>2, <2>3, <2>4, <2>5, QuietStepKept DEF outside, broker, output
  <1>8. CASE /\ work[w].left /= {}
             /\ LET c == CHOOSE x \in work[w].left : TRUE IN
                    /\ rows' = Append(rows, c)
                    /\ Goes(w, [work[w] EXCEPT !.left = @ \ {c}])
    BY <1>6, <1>8
  <1>9. QED
    BY <1>7, <1>8 DEF Insert

LEMMA LoadKeeps ==
    ASSUME PackerAssumption, PackerInv, NEW w \in Workers, Load(w)
    PROVE  PackerInv'
  <1>1. TypeOK /\ work[w].pc = "load" /\ Busy(w) /\ work[w].page = 1 /\ rows \in Seq(Contacts)
    BY DEF PackerInv, FreshInv, TypeOK, Load, At, Busy
  <1>2. UNCHANGED <<outside, broker, rows, host, output, passes, excuses, faults>>
    BY DEF Load
  <1>3. "overlap" \notin excuses' => Metered(w)
    BY <1>1, <1>2, AtWork
  <1>4. Sighted' => (emptied > 0 => Reachable = {}) /\ Covered(w)
    BY <1>1, <1>2, AtWork
  <1> DEFINE pc == IF rows = << >> THEN "empty" ELSE "publish"
             p == AtList(work[w], pc, rows)
  <1>5. work[w] \in WorkRecords /\ pc \in Pcs
    BY <1>1, WorkType DEF Pcs
  <1> HIDE DEF pc
  <1>6. /\ p \in WorkRecords /\ p.pc = pc /\ p.msg = work[w].msg /\ p.owned = work[w].owned
        /\ p.list = rows /\ p.page = work[w].page
    BY <1>1, <1>5, AtListType
  <1>7. Goes(w, p)
    BY DEF Load, AtList, pc
  <1>8. work'[w] = p /\ Alone(w)
    BY <1>1, <1>6, <1>7, Altered
  <1>9. Keeps(w) /\ work'[w].pc = pc /\ work'[w].list = rows /\ work'[w].page = 1
    BY <1>1, <1>6, <1>8 DEF Keeps
  <1>10. TypeOK'
    BY <1>1, <1>2, <1>8 DEF TypeOK, Alone, WorkRecords, outside, broker, host, output
  <1>11. Before(w)' = 0
    BY <1>9 DEF Before, PackerAssumption
  <1>12. "overlap" \notin excuses' => Metered(w)'
    <2> SUFFICES ASSUME "overlap" \notin excuses' PROVE Metered(w)'
      OBVIOUS
    <2>1. (\A c \in Contacts : published[c] < passes) /\ Once(rows)
      BY <1>1, <1>3 DEF Metered
    <2>2. QED
      BY <1>2, <1>9, <2>1 DEF Metered, output, pc
  <1>13. Sighted' => (emptied' > 0 => Reachable = {}) /\ Covered(w)'
    <2> SUFFICES ASSUME Sighted' PROVE (emptied' > 0 => Reachable = {}) /\ Covered(w)'
      OBVIOUS
    <2>1. \A c \in Reachable : \E i \in DOMAIN rows : rows[i] = c
      BY <1>1, <1>4 DEF Covered
    <2>2. rows = << >> => Reachable = {}
      BY <2>1
    <2>3. \A i \in DOMAIN rows : i > 0
      BY <1>1
    <2>4. \A c \in Reachable : \E i \in DOMAIN work'[w].list :
              work'[w].list[i] = c /\ ~(i <= Before(w)')
      <3>1. ASSUME NEW c \in Reachable
            PROVE  \E i \in DOMAIN rows : rows[i] = c /\ ~(i <= Before(w)')
        <4>1. PICK i \in DOMAIN rows : rows[i] = c
          BY <2>1
        <4>2. i \in Nat /\ i > 0
          BY <1>1, <2>3
        <4>3. QED
          BY <1>11, <4>1, <4>2
      <3>2. QED
        BY <1>9, <3>1
    <2>5. QED
      BY <1>2, <1>4, <1>9, <2>2, <2>4 DEF Covered, Reachable, output, pc
  <1>14. Busy(w)' /\ work'[w].pc \in {"empty", "publish"}
    BY <1>9 DEF Busy, pc
  <1>15. QED
    BY <1>1, <1>2, <1>9, <1>10, <1>12, <1>13, <1>14, QuietStepKept DEF outside, broker, output

LEMMA PublishEmptyKeeps ==
    ASSUME PackerInv, NEW w \in Workers, PublishEmpty(w)
    PROVE  PackerInv'
  <1>1. TypeOK /\ work[w].pc = "empty" /\ Busy(w) /\ emptied \in Nat
    BY DEF PackerInv, TypeOK, PublishEmpty, At, Busy
  <1>2. UNCHANGED <<outside, broker, rows, host, published, passes, excuses, faults>>
        /\ emptied' = emptied + 1
    BY DEF PublishEmpty
  <1>3. Sighted' => Covered(w)
    BY <1>1, <1>2, AtWork
  <1>4. Keeps(w) /\ work'[w].pc = "ack"
    BY <1>1, GoesToMoves DEF PublishEmpty, Pcs
  <1>5. TypeOK'
    BY <1>1, <1>2, <1>4 DEF TypeOK, Keeps, Alone, WorkRecords, outside, broker, host
  <1>6. Metered(w)'
    BY <1>4 DEF Metered
  <1>7. Sighted' => (emptied' > 0 => Reachable = {}) /\ Covered(w)'
    BY <1>1, <1>3, <1>4 DEF Covered, Served, Reachable
  <1>8. Busy(w)'
    BY <1>4 DEF Busy
  <1>9. QED
    BY <1>1, <1>2, <1>4, <1>5, <1>6, <1>7, <1>8, QuietStepKept DEF outside, broker

LEMMA AckKeeps ==
    ASSUME PackerInv, NEW w \in Workers, Ack(w)
    PROVE  PackerInv'
  <1>1. TypeOK /\ work[w].pc = "ack" /\ Busy(w)
    BY DEF PackerInv, Ack, At, Busy
  <1>2. UNCHANGED <<outside, broker, rows, host, output, passes, excuses, faults>>
    BY DEF Ack
  <1>3. Alone(w) /\ work'[w].pc = "idle"
    BY <1>1, IdleMoves DEF Ack
  <1>4. TypeOK'
    BY <1>1, <1>2, <1>3 DEF TypeOK, Alone, WorkRecords, outside, broker, host, output
  <1>5. excuses' = {} => Served
    BY <1>1, <1>2, AtWork DEF Sighted, Covered
  <1>6. QED
    BY <1>1, <1>2, <1>3, <1>4, <1>5, LeavesKept DEF outside, broker, output

-------------------------------------------------------------------------------
(* Pages.                                                                    *)

\* Where a page begins and ends.
LEMMA PageBounds ==
    ASSUME NEW L \in Nat, NEW b \in Nat \ {0}, NEW p \in Nat \ {0}
    PROVE  /\ (p - 1) * b \in Nat /\ p * b = (p - 1) * b + b
           /\ (L + b - 1) \div b \in Nat
           /\ p > (L + b - 1) \div b => (p - 1) * b >= L
           /\ p <= (L + b - 1) \div b => (p - 1) * b < L
  <1> DEFINE d == (L + b - 1) \div b
  <1>1. (p - 1) * b \in Nat /\ p * b = (p - 1) * b + b
    OBVIOUS
  <1>2. d \in Nat /\ d * b <= L + b - 1 /\ L + b - 1 < d * b + b
    OBVIOUS
  <1> HIDE DEF d
  <1>3. CASE p > d
    <2>1. (p - 1) * b >= d * b
      BY <1>2, <1>3
    <2>2. QED
      BY <1>1, <1>2, <1>3, <2>1 DEF d
  <1>4. CASE p <= d
    <2>1. p * b <= d * b
      BY <1>2, <1>4
    <2>2. QED
      BY <1>1, <1>2, <1>4, <2>1 DEF d
  <1>5. QED
    BY <1>1, <1>2, <1>3, <1>4 DEF d

LEMMA PageFacts ==
    ASSUME PackerAssumption, NEW list \in Seq(Contacts), NEW p \in Nat \ {0},
           p <= TotalPages(list)
    PROVE  /\ Page(list, p) \in Seq(Contacts)
           /\ \A i \in DOMAIN Page(list, p) :
                 /\ (p - 1) * BatchSize + i \in DOMAIN list
                 /\ (p - 1) * BatchSize + i <= p * BatchSize
                 /\ Page(list, p)[i] = list[(p - 1) * BatchSize + i]
           /\ \A j \in DOMAIN list :
                 (p - 1) * BatchSize < j /\ j <= p * BatchSize =>
                     \E i \in DOMAIN Page(list, p) : j = (p - 1) * BatchSize + i
  <1> DEFINE lo == (p - 1) * BatchSize
             hi == IF p * BatchSize < Len(list) THEN p * BatchSize ELSE Len(list)
             s == SubSeq(list, lo + 1, hi)
  <1>1. BatchSize \in Nat \ {0} /\ Len(list) \in Nat
    BY DEF PackerAssumption
  <1>2. lo \in Nat /\ p * BatchSize = lo + BatchSize /\ lo < Len(list)
    BY <1>1, PageBounds DEF TotalPages
  <1>3. hi \in Nat /\ lo < hi /\ hi <= Len(list) /\ hi <= p * BatchSize
    BY <1>1, <1>2
  <1>4. \A j \in DOMAIN list : j <= p * BatchSize => j <= hi
    BY <1>1, <1>2
  <1>5. Page(list, p) = s
    BY DEF Page
  <1> HIDE DEF hi, lo
  <1>6. \A i \in lo + 1 .. hi : list[i] \in Contacts
    BY <1>2, <1>3
  <1>7. /\ s \in Seq(Contacts)
        /\ Len(s) = IF lo + 1 <= hi THEN hi - (lo + 1) + 1 ELSE 0
        /\ \A i \in 1 .. hi - (lo + 1) + 1 : s[i] = list[(lo + 1) + i - 1]
    BY <1>2, <1>3, <1>6, SubSeqProperties
  <1>8. s \in Seq(Contacts) /\ DOMAIN s = 1 .. (hi - lo) /\ \A i \in 1 .. (hi - lo) : s[i] = list[lo + i]
    <2>1. Len(s) = hi - lo
      BY <1>2, <1>3, <1>7
    <2>2. DOMAIN s = 1 .. (hi - lo)
      BY <1>7, <2>1
    <2>3. ASSUME NEW i \in 1 .. (hi - lo)
          PROVE  s[i] = list[lo + i]
      <3>1. i \in 1 .. hi - (lo + 1) + 1 /\ (lo + 1) + i - 1 = lo + i
        BY <1>2, <1>3, <2>3
      <3>2. s[i] = list[(lo + 1) + i - 1]
        BY <1>7, <3>1
      <3>3. QED
        BY <3>1, <3>2
    <2>4. QED
      BY <1>7, <2>2, <2>3
  <1> HIDE DEF s
  <1>9. \A i \in DOMAIN s : lo + i \in DOMAIN list /\ lo + i <= p * BatchSize
    BY <1>1, <1>2, <1>3, <1>8
  <1>10. ASSUME NEW j \in DOMAIN list, lo < j, j <= p * BatchSize
         PROVE  \E i \in DOMAIN s : j = lo + i
    <2>1. j - lo \in DOMAIN s /\ j = lo + (j - lo)
      BY <1>1, <1>2, <1>3, <1>4, <1>8, <1>10
    <2>2. QED
      BY <2>1
  <1>11. QED
    BY <1>5, <1>8, <1>9, <1>10 DEF lo

\* How often a contact is in a list: once at most when nobody is in it twice.
LEMMA TimesFacts ==
    ASSUME NEW s \in Seq(Contacts), NEW c
    PROVE  /\ Times(c, s) \in Nat
           /\ Times(c, s) = 0 <=> \A i \in DOMAIN s : s[i] # c
           /\ (\A i, j \in DOMAIN s : s[i] = s[j] => i = j) => Times(c, s) <= 1
  <1> DEFINE T == {i \in DOMAIN s : s[i] = c}
  <1>1. IsFiniteSet(DOMAIN s) /\ T \subseteq DOMAIN s
    BY FS_Interval
  <1>2. IsFiniteSet(T) /\ Cardinality(T) \in Nat
    BY <1>1, FS_Subset, FS_CardinalityType
  <1>3. Cardinality(T) = 0 <=> T = {}
    BY <1>2, FS_EmptySet
  <1>4. ASSUME \A i, j \in DOMAIN s : s[i] = s[j] => i = j
        PROVE  Cardinality(T) <= 1
    <2>1. CASE T = {}
      BY <1>2, <1>3, <2>1
    <2>2. CASE \E i : i \in T
      <3>1. PICK i : i \in T
        BY <2>2
      <3>2. T = {i}
        BY <1>4, <3>1
      <3>3. Cardinality({i}) = 1
        BY FS_Singleton
      <3> HIDE DEF T
      <3>4. Cardinality(T) = 1
        BY <3>2, <3>3
      <3>5. QED
        BY <3>4
    <2>3. QED
      BY <2>1, <2>2
  <1>5. QED
    BY <1>2, <1>3, <1>4 DEF Times

-------------------------------------------------------------------------------
(* Publishing.                                                               *)

\* The handler turns to its next page.
LEMMA PageMoves ==
    ASSUME TypeOK, NEW w \in Workers, Goes(w, [work[w] EXCEPT !.page = @ + 1])
    PROVE  /\ Keeps(w) /\ work'[w].pc = work[w].pc
           /\ work'[w].list = work[w].list /\ work'[w].page = work[w].page + 1
  <1> DEFINE p == AtNext(work[w])
  <1>1. work[w] \in WorkRecords
    BY WorkType
  <1>2. /\ p \in WorkRecords /\ p.pc = work[w].pc /\ p.msg = work[w].msg
        /\ p.owned = work[w].owned /\ p.list = work[w].list /\ p.page = work[w].page + 1
    BY <1>1, AtNextType
  <1>3. work'[w] = p /\ Alone(w)
    BY <1>2, Altered DEF AtNext
  <1>4. QED
    BY <1>2, <1>3 DEF Keeps

\* The end of a pass: its last page is out, or a flag has stopped it.
LEMMA PassEnds ==
    ASSUME PackerInv, NEW w \in Workers, work[w].pc = "publish", GoesTo(w, "ack"),
           flagged' \subseteq Hosts, excuses \subseteq excuses',
           excuses' \in {excuses, excuses \cup {"stopped"}},
           UNCHANGED <<outside, broker, rows, open, emptied, passes, published>>,
           Sighted' /\ "stopped" \notin excuses' => Served
    PROVE  PackerInv'
  <1>1. TypeOK /\ Busy(w)
    BY DEF PackerInv, Busy
  <1>2. Keeps(w) /\ work'[w].pc = "ack"
    BY <1>1, GoesToMoves DEF Pcs
  <1>3. TypeOK'
    BY <1>1, <1>2 DEF TypeOK, Keeps, Alone, WorkRecords, outside, broker
  <1>4. Metered(w)' /\ Busy(w)'
    BY <1>2 DEF Metered, Busy
  <1>5. Sighted' => (emptied' > 0 => Reachable = {}) /\ Covered(w)'
    <2>1. Sighted' => (emptied > 0 => Reachable = {})
      BY <1>1, AtWork
    <2>2. QED
      BY <1>2, <2>1 DEF Covered, Served, Reachable
  <1>6. QED
    BY <1>1, <1>2, <1>3, <1>4, <1>5, QuietStepKept DEF outside, broker

LEMMA PublishKeeps ==
    ASSUME PackerAssumption, PackerInv, NEW w \in Workers, Publish(w)
    PROVE  PackerInv'
  <1> DEFINE list == work[w].list
             page == Page(list, work[w].page)
             lo == Before(w)
  <1>1. /\ TypeOK /\ work[w].pc = "publish" /\ Busy(w)
        /\ work[w] \in WorkRecords /\ list \in Seq(Contacts) /\ work[w].page \in Nat \ {0}
        /\ published \in [Contacts -> Nat] /\ passes \in Nat
    BY WorkType DEF PackerInv, TypeOK, Publish, At, Busy, WorkRecords
  <1>2. UNCHANGED <<outside, broker, rows, open, emptied, passes, faults>>
    BY DEF Publish
  <1>3. BatchSize \in Nat \ {0} /\ HostOf[w] \in Hosts /\ flagged \subseteq Hosts
        /\ Len(list) \in Nat
    BY <1>1 DEF PackerAssumption, TypeOK
  <1>4. CASE /\ work[w].page > TotalPages(list)
             /\ flagged' = flagged \ {HostOf[w]} /\ GoesTo(w, "ack")
             /\ UNCHANGED <<published, excuses>>
    <2>1. lo >= Len(list)
      BY <1>1, <1>3, <1>4, PageBounds DEF TotalPages, Before
    <2>2. \A i \in DOMAIN list : i <= lo
      <3>1. lo \in Nat
        BY <1>1, <1>3, PageBounds DEF Before
      <3>2. QED
        BY <1>1, <1>3, <2>1, <3>1
    <2>3. Sighted' => Served
      <3>1. Sighted' => Covered(w)
        BY <1>1, <1>4, AtWork
      <3>2. QED
        BY <1>1, <2>2, <3>1 DEF Covered, Served
    <2>4. QED
      BY <1>1, <1>2, <1>3, <1>4, <2>3, PassEnds
  <1>5. CASE /\ flagged' = flagged \ {HostOf[w]} /\ GoesTo(w, "ack")
             /\ excuses' = excuses \cup {"stopped"} /\ UNCHANGED published
    BY <1>1, <1>2, <1>3, <1>5, PassEnds
  <1>6. CASE /\ ~(work[w].page > TotalPages(list))
             /\ published' = [c \in Contacts |-> published[c] + Times(c, page)]
             /\ Goes(w, [work[w] EXCEPT !.page = @ + 1])
             /\ UNCHANGED <<flagged, excuses>>
    <2>1. /\ Keeps(w) /\ work'[w].pc = "publish" /\ work'[w].list = list
          /\ work'[w].page = work[w].page + 1
      BY <1>1, <1>6, PageMoves
    <2>2. work[w].page <= TotalPages(list)
      <3>1. TotalPages(list) \in Nat
        BY <1>1, <1>3, PageBounds DEF TotalPages
      <3>2. QED
        BY <1>1, <1>6, <3>1
    <2>3. /\ page \in Seq(Contacts)
          /\ \A i \in DOMAIN page :
                 /\ lo + i \in DOMAIN list /\ lo + i <= work[w].page * BatchSize
                 /\ page[i] = list[lo + i]
          /\ \A j \in DOMAIN list : lo < j /\ j <= work[w].page * BatchSize =>
                 \E i \in DOMAIN page : j = lo + i
      BY <1>1, <2>2, PageFacts DEF Before
    <2>4. lo \in Nat /\ work[w].page * BatchSize = lo + BatchSize
      BY <1>1, <1>3, PageBounds DEF Before
    <2>5. Before(w)' = lo + BatchSize
      BY <1>1, <1>3, <2>1, <2>4 DEF Before
    <2> HIDE DEF page, list, lo
    <2>6. \A c \in Contacts : Times(c, page) \in Nat /\ published'[c] = published[c] + Times(c, page)
      BY <1>1, <1>6, <2>3, TimesFacts
    <2>7. TypeOK'
      <3>1. published' \in [Contacts -> Nat]
        BY <1>1, <1>6, <2>6
      <3>2. QED
        BY <1>1, <1>2, <1>6, <2>1, <3>1
        DEF TypeOK, Keeps, Alone, WorkRecords, outside, broker
    <2>8. Grows
      BY <1>1, <2>6 DEF Grows
    <2>9. SettleInv'
      <3>1. \A v \in Workers : Busy(v) => Busy(v)' /\ work'[v].owned = work[v].owned
        BY <1>1, <2>1 DEF Keeps, Alone, Busy
      <3>2. QED
        BY <1>1, <1>2, <1>6, <2>7, <2>8, <3>1, SettleKept DEF PackerInv, outside, broker
    <2>10. "overlap" \notin excuses' =>
               (\A c \in Contacts : published'[c] <= passes') /\ Metered(w)'
      <3> SUFFICES ASSUME "overlap" \notin excuses'
                   PROVE  (\A c \in Contacts : published'[c] <= passes') /\ Metered(w)'
        OBVIOUS
      <3>1. (\A c \in Contacts : published[c] <= passes) /\ Metered(w)
        BY <1>1, <1>6, AtWork
      <3>2. /\ Once(list)
            /\ \A c \in Contacts :
                  (\A i \in DOMAIN list : list[i] = c => i > lo) => published[c] < passes
        BY <1>1, <3>1 DEF Metered, list, lo
      <3>3. \A i, j \in DOMAIN page : page[i] = page[j] => i = j
        <4>1. ASSUME NEW i \in DOMAIN page, NEW j \in DOMAIN page, page[i] = page[j]
              PROVE  i = j
          <5>1. lo + i = lo + j
            BY <2>3, <3>2, <4>1 DEF Once
          <5>2. i \in Nat /\ j \in Nat
            BY <2>3, <4>1
          <5>3. QED
            BY <2>4, <5>1, <5>2
        <4>2. QED
          BY <4>1
      <3>4. ASSUME NEW c \in Contacts, \A i \in DOMAIN page : page[i] # c
            PROVE  published'[c] = published[c]
        <4>1. Times(c, page) = 0
          BY <2>3, <3>4, TimesFacts
        <4>2. QED
          BY <1>1, <2>6, <4>1
      <3>5. ASSUME NEW c \in Contacts, NEW k \in DOMAIN page, page[k] = c
            PROVE  published'[c] <= passes
        <4>1. Times(c, page) <= 1
          BY <2>3, <3>3, TimesFacts
        <4>2. k \in Nat /\ k >= 1 /\ lo + k \in DOMAIN list /\ list[lo + k] = c
          BY <2>3, <3>5
        <4>3. \A i \in DOMAIN list : list[i] = c => i > lo
          BY <2>4, <3>2, <4>2 DEF Once
        <4>4. published[c] < passes
          BY <3>2, <4>3
        <4>5. QED
          BY <1>1, <2>6, <4>1, <4>4
      <3>6. \A c \in Contacts : published'[c] <= passes
        BY <3>1, <3>4, <3>5
      <3>7. ASSUME NEW c \in Contacts,
                   \A i \in DOMAIN list : list[i] = c => i > lo + BatchSize
            PROVE  published'[c] < passes
        <4>1. \A i \in DOMAIN list : i \in Nat
          BY <1>1 DEF list
        <4>2. \A i \in DOMAIN list : list[i] = c => i > lo
          BY <1>3, <2>4, <3>7, <4>1
        <4>3. \A i \in DOMAIN page : page[i] # c
          <5>1. ASSUME NEW i \in DOMAIN page, page[i] = c PROVE FALSE
            <6>1. lo + i \in DOMAIN list /\ list[lo + i] = c /\ lo + i <= lo + BatchSize
              BY <2>3, <2>4, <5>1
            <6>2. lo + i > lo + BatchSize
              BY <3>7, <6>1
            <6>3. i \in Nat
              BY <2>3, <5>1
            <6>4. QED
              BY <1>3, <2>4, <6>1, <6>2, <6>3
          <5>2. QED
            BY <5>1
        <4>4. QED
          BY <3>2, <3>4, <4>2, <4>3
      <3>8. Metered(w)'
        BY <1>2, <2>1, <2>5, <3>2, <3>7 DEF Metered
      <3>9. QED
        BY <1>2, <3>6, <3>8
    <2>11. Sighted' => (emptied' > 0 => Reachable = {}) /\ Covered(w)'
      <3> SUFFICES ASSUME Sighted'
                   PROVE  (emptied' > 0 => Reachable = {}) /\ Covered(w)'
        OBVIOUS
      <3>1. (emptied > 0 => Reachable = {}) /\ Covered(w)
        BY <1>1, <1>6, AtWork
      <3>2. \A c \in Reachable : \E i \in DOMAIN list :
                list[i] = c /\ (i <= lo => published[c] >= 1)
        BY <1>1, <3>1 DEF Covered, list, lo
      <3>3. ASSUME NEW c \in Reachable
            PROVE  \E i \in DOMAIN list :
                       list[i] = c /\ (i <= lo + BatchSize => published'[c] >= 1)
        <4>1. PICK i \in DOMAIN list : list[i] = c /\ (i <= lo => published[c] >= 1)
          BY <3>2
        <4>2. i \in Nat /\ c \in Contacts
          BY <1>1, <4>1 DEF list, Reachable
        <4>3. ASSUME i <= lo + BatchSize PROVE published'[c] >= 1
          <5>1. CASE i <= lo
            BY <1>1, <2>6, <4>1, <4>2, <5>1
          <5>2. CASE lo < i
            <6>1. PICK k \in DOMAIN page : i = lo + k
              BY <2>3, <2>4, <4>3, <5>2
            <6>2. page[k] = c
              BY <2>3, <4>1, <6>1
            <6>3. Times(c, page) # 0
              BY <2>3, <6>2, TimesFacts
            <6>4. QED
              BY <1>1, <2>6, <4>2, <6>3
          <5>3. QED
            BY <2>4, <4>2, <5>1, <5>2
        <4>4. QED
          BY <4>1, <4>3
      <3>4. Covered(w)'
        BY <2>1, <2>5, <3>3 DEF Covered, Reachable
      <3>5. QED
        BY <1>2, <3>1, <3>4
    <2>12. "overlap" \notin excuses' => \A v \in Workers : v # w => work[v].pc = "idle"
      BY <1>1, <1>6, AtWork
    <2>13. QED
      BY <1>6, <2>1, <2>7, <2>9, <2>10, <2>11, <2>12, StepKept DEF PackerInv, Keeps
  <1>7. QED
    BY <1>4, <1>5, <1>6 DEF Publish

-------------------------------------------------------------------------------
(* A message is taken, dropped or given back.                                *)

LEMMA TakeKeeps ==
    ASSUME PackerInv, NEW w \in Workers, Take(w)
    PROVE  PackerInv'
  <1>1. TypeOK /\ work[w].pc = "idle" /\ queue \in [Message -> Nat]
        /\ published \in [Contacts -> Nat] /\ passes \in Nat /\ excuses \subseteq excuses'
    BY DEF PackerInv, TypeOK, Take, At
  <1>2. /\ UNCHANGED <<outside, dead, rows, host, output, faults>>
        /\ passes' = passes + 1
        /\ excuses' \in {excuses, excuses \cup {"overlap"}}
    BY DEF Take
  <1>3. PICK m \in Waiting(queue) :
            /\ queue' = Remove(queue, m)
            /\ Goes(w, [Idle EXCEPT !.pc = "clear", !.msg = m, !.owned = TRUE])
    BY DEF Take
  <1>4. m \in Message /\ queue' \in [Message -> Nat]
    BY <1>1, <1>3, QueueType DEF Waiting
  <1> DEFINE p == Given(m)
  <1>5. p \in WorkRecords /\ p.pc = "clear" /\ p.owned = TRUE /\ p.page = 1
    BY <1>4, GivenType
  <1>6. work'[w] = p /\ Alone(w)
    BY <1>1, <1>3, <1>5, Altered DEF Given
  <1>7. work'[w].pc = "clear" /\ work'[w].owned /\ work'[w].page = 1 /\ Busy(w)'
    BY <1>5, <1>6 DEF Busy
  <1>8. TypeOK'
    BY <1>1, <1>2, <1>4, <1>6, SMTT(30) DEF TypeOK, Alone, WorkRecords, outside, host, output
  <1>9. SettleInv'
    <2>1. Grows
      BY <1>1, <1>2 DEF Grows, output
    <2>2. \A v \in Workers : Busy(v) /\ work[v].owned => Busy(v)' /\ work'[v].owned
      BY <1>1, <1>6 DEF Alone, Busy
    <2>3. QED
      BY <1>1, <1>2, <1>7, <1>8, <2>1, <2>2, SettleKept DEF PackerInv, outside
  <1>10. "overlap" \notin excuses' =>
             /\ "overlap" \notin excuses
             /\ \A v \in Workers : work[v].pc = "idle"
    BY DEF Take, At
  <1>11. "overlap" \notin excuses' =>
             (\A c \in Contacts : published'[c] <= passes') /\ Metered(w)'
    <2> SUFFICES ASSUME "overlap" \notin excuses'
                 PROVE  (\A c \in Contacts : published'[c] <= passes') /\ Metered(w)'
      OBVIOUS
    <2>1. \A c \in Contacts : published[c] <= passes
      BY <1>10 DEF PackerInv, MeterInv
    <2>2. \A c \in Contacts : published'[c] < passes'
      BY <1>1, <1>2, <2>1 DEF output
    <2>3. \A c \in Contacts : published'[c] <= passes'
      BY <1>1, <1>2, <2>1 DEF output
    <2>4. QED
      BY <1>7, <2>2, <2>3 DEF Metered
  <1>12. Sighted' => (emptied' > 0 => Reachable = {}) /\ Covered(w)'
    <2>1. Sighted' => Sighted
      BY <1>1 DEF Sighted
    <2>2. QED
      BY <1>2, <1>7, <2>1 DEF PackerInv, CoverInv, Covered, output
  <1>13. QED
    BY <1>1, <1>6, <1>7, <1>8, <1>9, <1>10, <1>11, <1>12, StepKept DEF PackerInv

LEMMA FailKeeps ==
    ASSUME PackerInv, NEW w \in Workers, Fail(w)
    PROVE  PackerInv'
  <1>1. TypeOK /\ Busy(w) /\ Requeue(w) /\ UNCHANGED <<outside, rows, open, output, passes>>
    BY DEF PackerInv, Fail, Busy
  <1>2. open' \subseteq Hosts /\ flagged' \subseteq Hosts
    BY <1>1 DEF Fail, TypeOK
  <1>3. QED
    BY <1>1, <1>2, RequeueKeeps

LEMMA RejectKeeps ==
    ASSUME PackerInv, NEW w \in Workers, Reject(w)
    PROVE  PackerInv'
  <1>1. TypeOK /\ Busy(w) /\ work[w] \in WorkRecords
    BY WorkType DEF PackerInv, Reject, At, Busy
  <1>2. UNCHANGED <<outside, queue, rows, host, output, passes>>
    BY DEF Reject
  <1>3. Alone(w) /\ work'[w].pc = "idle"
    BY <1>1, IdleMoves DEF Reject
  <1>4. dead' \in [Message -> Nat]
    <2>1. work[w].msg \in Message /\ dead \in [Message -> Nat]
      BY <1>1 DEF WorkRecords, TypeOK
    <2>2. QED
      BY <2>1, QueueType DEF Reject
  <1>5. /\ excuses' \in {excuses, excuses \cup {"dead"}}
        /\ work[w].owned => "dead" \in excuses'
    BY DEF Reject
  <1>6. TypeOK'
    BY <1>1, <1>2, <1>3, <1>4, <1>5 DEF TypeOK, Alone, WorkRecords, outside, host, output
  <1>7. QED
    BY <1>1, <1>2, <1>3, <1>5, <1>6, LeavesKept DEF outside, output

\* The copies that a replica gives back.
LEMMA ReturnedFacts ==
    ASSUME PackerAssumption, TypeOK, NEW h \in Hosts, queue' = Returned(h)
    PROVE  /\ queue' \in [Message -> Nat]
           /\ Waiting(queue) \subseteq Waiting(queue')
           /\ Held(h) # {} => Waiting(queue') # {}
  <1> DEFINE H(m) == {w \in Held(h) : work[w].msg = m}
  <1>1. queue \in [Message -> Nat]
    BY DEF TypeOK
  <1>2. \A m \in Message : H(m) \subseteq Workers
    BY DEF Held, On
  <1>3. \A m \in Message : IsFiniteSet(H(m)) /\ Cardinality(H(m)) \in Nat
    BY <1>2, FS_Subset, FS_CardinalityType DEF PackerAssumption
  <1>4. \A m \in Message : Cardinality(H(m)) = 0 <=> H(m) = {}
    BY <1>3, FS_EmptySet
  <1>5. \A m \in Message : queue'[m] = queue[m] + Cardinality(H(m))
    BY DEF Returned
  <1>6. queue' \in [Message -> Nat]
    <2>1. \A m \in Message : queue'[m] \in Nat
      <3> HIDE DEF H
      <3>1. QED
        BY <1>1, <1>3, <1>5
    <2>2. QED
      BY <2>1 DEF Returned
  <1>7. \A w \in Held(h) : work[w].msg \in Message /\ w \in H(work[w].msg)
    BY WorkType DEF Held, On, WorkRecords
  <1> HIDE DEF H
  <1>8. Waiting(queue) \subseteq Waiting(queue')
    BY <1>1, <1>3, <1>5, <1>6 DEF Waiting
  <1>9. ASSUME NEW w \in Held(h) PROVE work[w].msg \in Waiting(queue')
    <2>1. work[w].msg \in Message /\ H(work[w].msg) # {}
      BY <1>7
    <2>2. QED
      BY <1>1, <1>3, <1>4, <1>5, <1>6, <2>1 DEF Waiting
  <1>10. QED
    BY <1>6, <1>8, <1>9

\* Handlers that stop, or go on without their copy, with the rest as it was.
LEMMA HostKept ==
    ASSUME PackerAssumption, PackerInv, TypeOK', NEW h \in Hosts, queue' = Returned(h),
           UNCHANGED <<outside, rows, output, passes, excuses>>,
           \A w \in Workers :
               \/ work'[w].pc = "idle" /\ work'[w].page = 1 /\ w \in On(h)
               \/ /\ work'[w].pc = work[w].pc /\ work'[w].left = work[w].left
                  /\ work'[w].list = work[w].list /\ work'[w].page = work[w].page
                  /\ w \in On(h) \/ work'[w].owned = work[w].owned
    PROVE  PackerInv'
  <1>1. TypeOK
    BY DEF PackerInv
  <1>2. Waiting(queue) \subseteq Waiting(queue') /\ (Held(h) # {} => Waiting(queue') # {})
    BY <1>1, ReturnedFacts
  <1>3. FreshInv'
    BY DEF PackerInv, FreshInv
  <1>4. AloneInv'
    BY DEF PackerInv, AloneInv, Busy
  <1>5. MeterInv'
    BY DEF PackerInv, MeterInv, Metered, Before, output
  <1>6. CoverInv'
    BY DEF PackerInv, CoverInv, Covered, Before, Sighted, Served, Reachable, output
  <1>7. SettleInv'
    <2>1. Grows
      BY <1>1 DEF Grows, TypeOK, output
    <2>2. ASSUME NEW w \in Workers, Busy(w), work[w].owned
          PROVE  (Busy(w)' /\ work'[w].owned) \/ Waiting(queue') # {}
      <3>1. CASE w \in On(h)
        BY <1>2, <2>2, <3>1 DEF Held
      <3>2. CASE w \notin On(h)
        BY <2>2, <3>2 DEF Busy
      <3>3. QED
        BY <3>1, <3>2
    <2>3. QED
      BY <1>1, <1>2, <2>1, <2>2, SettleKept DEF PackerInv, outside
  <1>8. QED
    BY <1>3, <1>4, <1>5, <1>6, <1>7 DEF PackerInv

LEMMA LoseChannelKeeps ==
    ASSUME PackerAssumption, PackerInv, NEW h \in Hosts, LoseChannel(h)
    PROVE  PackerInv'
  <1>1. TypeOK /\ queue' = Returned(h)
        /\ UNCHANGED <<outside, dead, rows, host, output, passes, excuses>>
    BY DEF PackerInv, LoseChannel
  <1>2. ASSUME NEW w \in Workers
        PROVE  /\ work'[w] \in WorkRecords
               /\ work'[w].pc = work[w].pc /\ work'[w].left = work[w].left
               /\ work'[w].list = work[w].list /\ work'[w].page = work[w].page
               /\ w \in On(h) \/ work'[w].owned = work[w].owned
    <2>1. work[w] \in WorkRecords
      BY <1>1, WorkType
    <2>2. CASE w \in On(h)
      <3>1. work'[w] = [work[w] EXCEPT !.owned = FALSE]
        BY <2>2 DEF LoseChannel
      <3>2. QED
        BY <2>1, <2>2, <3>1 DEF WorkRecords
    <2>3. CASE w \notin On(h)
      <3>1. work'[w] = work[w]
        BY <2>3 DEF LoseChannel
      <3>2. QED
        BY <2>1, <3>1
    <2>4. QED
      BY <2>2, <2>3
  <1>3. work' \in [Workers -> WorkRecords]
    BY <1>2 DEF LoseChannel
  <1>4. TypeOK'
    BY <1>1, <1>3, ReturnedFacts DEF TypeOK, WorkRecords, outside, host, output
  <1>5. QED
    BY <1>1, <1>2, <1>4, HostKept

LEMMA CrashKeeps ==
    ASSUME PackerAssumption, PackerInv, NEW h \in Hosts, Crash(h)
    PROVE  PackerInv'
  <1>1. TypeOK /\ queue' = Returned(h)
        /\ UNCHANGED <<outside, dead, rows, output, passes, excuses>>
    BY DEF PackerInv, Crash
  <1>2. ASSUME NEW w \in Workers
        PROVE  /\ work'[w] \in WorkRecords
               /\ \/ work'[w].pc = "idle" /\ work'[w].page = 1 /\ w \in On(h)
                  \/ work'[w] = work[w]
    BY <1>1, WorkType, IdleType DEF Crash
  <1>3. work' \in [Workers -> WorkRecords]
    BY <1>2 DEF Crash
  <1>4. flagged' \subseteq Hosts /\ open' \subseteq Hosts
    BY <1>1 DEF Crash, TypeOK
  <1>5. TypeOK'
    BY <1>1, <1>3, <1>4, ReturnedFacts DEF TypeOK, WorkRecords, outside, output
  <1>6. QED
    BY <1>1, <1>2, <1>5, HostKept

-------------------------------------------------------------------------------
(* The environment.                                                          *)

LEMMA ElsewhereKeeps ==
    ASSUME PackerInv, TypeOK',
           UNCHANGED <<rows, work, output, passes, excuses>>,
           \/ Waiting(queue') # {}
           \/ UNCHANGED <<queue, requests>>
    PROVE  PackerInv'
  <1>1. FreshInv' /\ AloneInv'
    BY DEF PackerInv, FreshInv, AloneInv, Busy
  <1>2. MeterInv'
    BY DEF PackerInv, MeterInv, Metered, Before, output
  <1>3. CoverInv'
    BY DEF PackerInv, CoverInv, Covered, Before, Sighted, Served, Reachable, output
  <1>4. SettleInv'
    BY DEF PackerInv, SettleInv, Busy, Served, Reachable, output
  <1>5. QED
    BY <1>1, <1>2, <1>3, <1>4 DEF PackerInv

LEMMA EnvironmentKeeps ==
    ASSUME PackerAssumption, PackerInv,
           Request \/ Control \/ (\E h \in Hosts : HandleControl(h)) \/ UNCHANGED vars
    PROVE  PackerInv'
  <1>1. TypeOK /\ queue \in [Message -> Nat]
    BY DEF PackerInv, TypeOK
  <1>2. CASE Request
    <2>1. FirstCopy("pack") \in Message
      BY FirstCopyType DEF Message
    <2>2. queue' \in [Message -> Nat] /\ Waiting(queue') = Waiting(queue) \cup {FirstCopy("pack")}
      BY <1>1, <1>2, <2>1, QueueType, WaitingAfter DEF Request
    <2>3. TypeOK'
      BY <1>1, <1>2, <2>2 DEF Request, TypeOK, PackerAssumption, host, output
    <2>4. QED
      BY <1>2, <2>2, <2>3, ElsewhereKeeps DEF Request
  <1>3. CASE Control
    <2>1. TypeOK'
      BY <1>1, <1>3 DEF Control, TypeOK, broker, host, output
    <2>2. QED
      BY <1>3, <2>1, ElsewhereKeeps DEF Control, broker
  <1>4. CASE \E h \in Hosts : HandleControl(h)
    <2>1. PICK h \in Hosts : HandleControl(h)
      BY <1>4
    <2>2. flagged' \subseteq Hosts
      BY <1>1, <2>1 DEF HandleControl, TypeOK
    <2>3. TypeOK'
      BY <1>1, <2>1, <2>2 DEF HandleControl, TypeOK, broker, output
    <2>4. QED
      BY <2>1, <2>3, ElsewhereKeeps DEF HandleControl, broker
  <1>5. CASE UNCHANGED vars
    <2>1. TypeOK'
      BY <1>1, <1>5 DEF vars, TypeOK
    <2>2. QED
      BY <1>5, <2>1, ElsewhereKeeps DEF vars, output
  <1>6. QED
    BY <1>2, <1>3, <1>4, <1>5

-------------------------------------------------------------------------------
(* The theorems.                                                             *)

LEMMA PackerInit ==
    ASSUME PackerAssumption, Init
    PROVE  PackerInv
  <1>1. \A w \in Workers : work[w] = Idle
    BY DEF Init
  <1>2. \A w \in Workers : work[w].pc = "idle" /\ work[w].page = 1
    BY <1>1, IdleType
  <1>3. TypeOK
    <2>1. work \in [Workers -> WorkRecords]
      BY <1>1, IdleType DEF Init
    <2>2. queue \in [Message -> Nat] /\ dead \in [Message -> Nat]
      BY DEF Init, NoCopies
    <2>3. rows \in Seq(Contacts)
      BY DEF Init
    <2>4. QED
      BY <2>1, <2>2, <2>3 DEF Init, TypeOK, WorkRecords, PackerAssumption
  <1>4. FreshInv /\ AloneInv
    BY <1>2 DEF FreshInv, AloneInv, Busy
  <1>5. MeterInv
    BY <1>2 DEF Init, MeterInv, Metered
  <1>6. CoverInv
    BY <1>2 DEF Init, CoverInv, Covered
  <1>7. SettleInv
    BY DEF Init, SettleInv
  <1>8. QED
    BY <1>3, <1>4, <1>5, <1>6, <1>7 DEF PackerInv

LEMMA PackerNext ==
    ASSUME PackerAssumption, PackerInv, [Next]_vars
    PROVE  PackerInv'
  <1>1. ASSUME NEW w \in Workers, Step(w) PROVE PackerInv'
    BY <1>1, ClearKeeps, QueryKeeps, HydrateKeeps, InsertKeeps, LoadKeeps,
       PublishEmptyKeeps, PublishKeeps, AckKeeps DEF Step
  <1>2. ASSUME NEW w \in Workers, Take(w) \/ Fail(w) \/ Reject(w) PROVE PackerInv'
    BY <1>2, TakeKeeps, FailKeeps, RejectKeeps
  <1>3. ASSUME NEW h \in Hosts, LoseChannel(h) \/ Crash(h) PROVE PackerInv'
    BY <1>3, LoseChannelKeeps, CrashKeeps
  <1>4. QED
    BY <1>1, <1>2, <1>3, EnvironmentKeeps DEF Next

\* However often a pack message is delivered, and whatever fails on the way, a
\* pass over the rows publishes a contact once: pack clears the rows before it
\* computes them (campaign-packer.service.ts, AudienceComputationService), so
\* nothing of an earlier pass is left among them unless passes overlap.
THEOREM PassesPublishOnce == Spec => []OncePerPass
  <1>1. PackerInv => OncePerPass
    BY DEF PackerInv, MeterInv, OncePerPass
  <1>2. QED
    BY <1>1, PackerInit, PackerNext, PackerAssumption, PTL DEF Spec

\* For any number of replicas, contacts and failures, a settled pack has put
\* everyone that can be reached into a page, and an empty audience is reported
\* only when there is nobody, but for the excuses that the code leaves.
THEOREM PacksServeEveryone == Spec => []EveryoneServed
  <1>1. PackerInv => EveryoneServed
    <2> SUFFICES ASSUME PackerInv PROVE EveryoneServed
      OBVIOUS
    <2>1. NobodyForgotten
      BY DEF PackerInv, SettleInv, NobodyForgotten, Quiet, At, Busy, Served, Reachable
    <2>2. EmptyOnlyWhenUnreachable
      BY DEF PackerInv, CoverInv, Sighted, Reachable, EmptyOnlyWhenUnreachable
    <2>3. QED
      BY <2>1, <2>2 DEF PackerInv, EveryoneServed
  <1>2. QED
    BY <1>1, PackerInit, PackerNext, PackerAssumption, PTL DEF Spec

-----------------------------------------------------------------------------
(* The inductive invariant: the nodes of a journey.                        *)

\* What the proofs use of a profile.
Sound(p) ==
    /\ DOMAIN p.lacks \subseteq {"config", "conversation"}
    /\ \A l \in DOMAIN p.lacks : p.lacks[l] \in Verdicts
    /\ Len(p.reads) \in 0 .. 2
    /\ \A i \in 1 .. Len(p.reads) :
        /\ p.reads[i].missing \in Verdicts /\ p.reads[i].failed \in Verdicts
        /\ p.write # "none" =>
            p.reads[i].missing # "success" /\ p.reads[i].failed # "success"
    /\ p.write \in {"legacy", "generic", "webhook", "temporal", "none"}
    /\ p.effects \in 1 .. 2
    /\ p.blind \in Verdicts

\* Why a slot may report a success, and what holds of what Temporal knows of it.
Excuse(s, k) ==
    \/ k.applied > 0
    \/ k.lied /\ (Profile(s).check = "none" \/ k.blind)
    \/ Profile(s).lenient
    \/ k.lack # "nothing" /\ Profile(s).lacks[k.lack] = "success"

SlotOk(s, k) ==
    /\ k.phase = "queued" => k.attempt <= 1
    /\ k.phase = "running" => k.attempt \in 1 .. 2
    /\ k.lack \in {"nothing"} \cup DOMAIN Profile(s).lacks
    /\ k.verdict = "success" /\ Acts(s) => Excuse(s, k)

\* An attempt that has sent something left a trace of it.
RunOk(s, r, k) ==
    /\ r.pc \in {"read", "write"} => r.left >= 1
    /\ r.pc = "write" => Acts(s)
    /\ r.sent \/ r.pc = "verify" => k.applied > 0 \/ k.lied
    /\ r.pc = "idle" => ~r.sent

\* The effects an attempt under way may still have, and those of one to come.
Due(s, r) ==
    IF r.pc = "check" THEN Profile(s).effects ELSE IF r.pc \in {"read", "write"} THEN r.left ELSE 0

Coming(s, k) == IF k.phase = "queued" THEN Profile(s).effects ELSE 0

SlotInv(s) ==
    /\ SlotOk(s, slot[s])
    /\ \A a \in Attempts : RunOk(s, run[s][a], slot[s])
    /\ slot[s].applied + Due(s, run[s][1]) + Due(s, run[s][2]) + Coming(s, slot[s])
            <= Profile(s).effects + slot[s].repeats

CacheShape ==
    /\ cache = NoCopy \/ cache \subseteq Slots \cup OtherAttributes
    /\ attributes \subseteq Slots \cup OtherAttributes

NodesTypes ==
    /\ node \in [Slots -> Nodes]
    /\ slot \in [Slots -> SlotRecords]
    /\ run \in [Slots -> [Attempts -> RunRecords]]
    /\ circuit \in Circuits
    /\ crm \in {"up", "down"}
    /\ stale \in BOOLEAN /\ outages \in BOOLEAN
    /\ troubles \in 0 .. MaxTroubles

NodesInv ==
    /\ NodesTypes
    /\ CacheShape
    /\ \A s \in Slots : SlotInv(s)
    /\ circuit # ClosedCircuit => outages
    /\ AttributesLostOnlyToStaleCopies

-----------------------------------------------------------------------------
LEMMA ProfilesAreSound == \A n \in Nodes : Sound(Profiles[n])
  <1>1. Sound(AddLabel)
    BY DEF Sound, AddLabel, Write, Local, NoConversation, NoConfiguration, Contact,
           FreshContact, Lookup, Verdicts
  <1>2. Sound(RemoveLabel)
    BY DEF Sound, RemoveLabel, Write, Local, NoConversation, NoConfiguration, Contact,
           FreshContact, Lookup, Verdicts
  <1>3. Sound(UpdateContact)
    BY DEF Sound, UpdateContact, Write, Local, NoConversation, NoConfiguration, Contact,
           FreshContact, Lookup, Verdicts
  <1>4. Sound(UpdateCustomAttribute)
    BY DEF Sound, UpdateCustomAttribute, Write, Local, NoConversation, NoConfiguration, Contact,
           FreshContact, Lookup, Verdicts
  <1>5. Sound(AssignAgent)
    BY DEF Sound, AssignAgent, Write, Local, NoConversation, NoConfiguration, Contact,
           FreshContact, Lookup, Verdicts
  <1>6. Sound(AssignTeam)
    BY DEF Sound, AssignTeam, Write, Local, NoConversation, NoConfiguration, Contact,
           FreshContact, Lookup, Verdicts
  <1>7. Sound(AssignBot)
    BY DEF Sound, AssignBot, Write, Local, NoConversation, NoConfiguration, Contact,
           FreshContact, Lookup, Verdicts
  <1>8. Sound(UnassignBot)
    BY DEF Sound, UnassignBot, AssignBot, Write, Local, NoConversation, NoConfiguration, Contact,
           FreshContact, Lookup, Verdicts
  <1>9. Sound(MuteConversation)
    BY DEF Sound, MuteConversation, Write, Local, NoConversation, NoConfiguration, Contact,
           FreshContact, Lookup, Verdicts
  <1>10. Sound(ResolveConversation)
    BY DEF Sound, ResolveConversation, Write, Local, NoConversation, NoConfiguration, Contact,
           FreshContact, Lookup, Verdicts
  <1>11. Sound(SnoozeConversation)
    BY DEF Sound, SnoozeConversation, Write, Local, NoConversation, NoConfiguration, Contact,
           FreshContact, Lookup, Verdicts
  <1>12. Sound(ChangePriority)
    BY DEF Sound, ChangePriority, Write, Local, NoConversation, NoConfiguration, Contact,
           FreshContact, Lookup, Verdicts
  <1>13. Sound(SendMessage)
    BY DEF Sound, SendMessage, Write, Local, NoConversation, NoConfiguration, Contact,
           FreshContact, Lookup, Verdicts
  <1>14. Sound(SendTemplate)
    BY DEF Sound, SendTemplate, SendMessage, Write, Local, NoConversation, NoConfiguration, Contact,
           FreshContact, Lookup, Verdicts
  <1>15. Sound(SendCannedResponse)
    BY DEF Sound, SendCannedResponse, Write, Local, NoConversation, NoConfiguration, Contact,
           FreshContact, Lookup, Verdicts
  <1>16. Sound(SendEmailTeam)
    BY DEF Sound, SendEmailTeam, Write, Local, NoConversation, NoConfiguration, Contact,
           FreshContact, Lookup, Verdicts
  <1>17. Sound(SendTranscript)
    BY DEF Sound, SendTranscript, Write, Local, NoConversation, NoConfiguration, Contact,
           FreshContact, Lookup, Verdicts
  <1>18. Sound(AssignToPipeline)
    BY DEF Sound, AssignToPipeline, Write, Local, NoConversation, NoConfiguration, Contact,
           FreshContact, Lookup, Verdicts
  <1>19. Sound(MoveToPipelineStage)
    BY DEF Sound, MoveToPipelineStage, Write, Local, NoConversation, NoConfiguration, Contact,
           FreshContact, Lookup, Verdicts
  <1>20. Sound(CreatePipelineTask)
    BY DEF Sound, CreatePipelineTask, Write, Local, NoConversation, NoConfiguration, Contact,
           FreshContact, Lookup, Verdicts
  <1>21. Sound(ScheduledAction)
    BY DEF Sound, ScheduledAction, Write, Local, NoConversation, NoConfiguration, Contact,
           FreshContact, Lookup, Verdicts
  <1>22. Sound(SendWebhook)
    BY DEF Sound, SendWebhook, Write, Local, NoConversation, NoConfiguration, Contact,
           FreshContact, Lookup, Verdicts
  <1>23. Sound(TransferJourney)
    BY DEF Sound, TransferJourney, Write, Local, NoConversation, NoConfiguration, Contact,
           FreshContact, Lookup, Verdicts
  <1>24. Sound(SetVariable)
    BY DEF Sound, SetVariable, Write, Local, NoConversation, NoConfiguration, Contact,
           FreshContact, Lookup, Verdicts
  <1>25. Sound(Split)
    BY DEF Sound, Split, Write, Local, NoConversation, NoConfiguration, Contact,
           FreshContact, Lookup, Verdicts
  <1>26. Sound(ExitJourney)
    BY DEF Sound, ExitJourney, Write, Local, NoConversation, NoConfiguration, Contact,
           FreshContact, Lookup, Verdicts
  <1>27. Sound(Trigger)
    BY DEF Sound, Trigger, Write, Local, NoConversation, NoConfiguration, Contact,
           FreshContact, Lookup, Verdicts
  <1>28. Sound(Conditional)
    BY DEF Sound, Conditional, Write, Local, NoConversation, NoConfiguration, Contact,
           FreshContact, Lookup, Verdicts
  <1>30. Nodes = {"add_label", "remove_label", "update_contact",
        "update_custom_attribute", "assign_agent", "assign_team", "assign_bot",
        "unassign_bot", "mute_conversation", "resolve_conversation",
        "snooze_conversation", "change_priority", "send_message", "send_template",
        "send_canned_response", "send_email_team", "send_transcript",
        "assign_to_pipeline", "move_to_pipeline_stage", "create_pipeline_task",
        "scheduled_action", "send_webhook", "transfer_journey", "set_variable", "split",
        "exit_journey", "trigger", "conditional"}
    BY DEF Nodes, Profiles
  <1>31. QED
    BY <1>1, <1>2, <1>3, <1>4, <1>5, <1>6, <1>7, <1>8, <1>9, <1>10, <1>11, <1>12, <1>13,
          <1>14, <1>15, <1>16, <1>17, <1>18, <1>19, <1>20, <1>21, <1>22, <1>23, <1>24,
          <1>25, <1>26, <1>27, <1>28, <1>30 DEF Profiles

LEMMA ProfileIs ==
    ASSUME NodesTypes, NEW s \in Slots
    PROVE  Sound(Profile(s))
  BY ProfilesAreSound DEF NodesTypes, Profile

LEMMA DueIs ==
    ASSUME NodesTypes, NEW s \in Slots, NEW r \in RunRecords
    PROVE  Due(s, r) \in Nat
  BY ProfileIs DEF Due, RunRecords, Sound

LEMMA ComingIs ==
    ASSUME NodesTypes, NEW s \in Slots, NEW k
    PROVE  Coming(s, k) \in Nat /\ Coming(s, k) <= Profile(s).effects
  BY ProfileIs DEF Coming, Sound

-----------------------------------------------------------------------------
\* One attempt of a slot goes on as r with the slot known as k.
Fits(s, a, r, k) ==
    /\ r \in RunRecords /\ k \in SlotRecords
    /\ RunOk(s, r, k) /\ SlotOk(s, k)
    /\ k.applied >= slot[s].applied
    /\ slot[s].lied => k.lied
    /\ k.applied + Due(s, r) + Coming(s, k) + slot[s].repeats
            <= slot[s].applied + Due(s, run[s][a]) + Coming(s, slot[s]) + k.repeats

SlotsKept ==
    /\ slot' \in [Slots -> SlotRecords]
    /\ run' \in [Slots -> [Attempts -> RunRecords]]
    /\ \A s \in Slots : SlotInv(s)'

LEMMA SlotKept ==
    ASSUME NodesInv, node' = node, NEW t \in Slots, run'[t] = run[t], slot'[t] = slot[t]
    PROVE  SlotInv(t)'
  <1>1. SlotInv(t) /\ Profile(t)' = Profile(t)
    BY DEF NodesInv, Profile
  <1>2. Acts(t)' <=> Acts(t)
    BY <1>1 DEF Acts
  <1>3. SlotOk(t, slot[t])'
    BY <1>1, <1>2 DEF SlotInv, SlotOk, Excuse
  <1>4. \A b \in Attempts : RunOk(t, run[t][b], slot[t])'
    BY <1>1, <1>2 DEF SlotInv, RunOk
  <1>5. QED
    BY <1>1, <1>3, <1>4 DEF SlotInv, Due, Coming

LEMMA OneRunMoves ==
    ASSUME NodesInv, node' = node, NEW s \in Slots, NEW a \in Attempts, NEW r, NEW k,
           Fits(s, a, r, k), Advances(s, a, r), slot' = [slot EXCEPT ![s] = k]
    PROVE  SlotsKept
  <1>1. r \in RunRecords /\ k \in SlotRecords
    BY DEF Fits
  <1>2. slot' \in [Slots -> SlotRecords] /\ run' \in [Slots -> [Attempts -> RunRecords]]
    BY <1>1 DEF Advances, NodesInv, NodesTypes
  <1>3. slot'[s] = k /\ run'[s][a] = r /\ \A b \in Attempts \ {a} : run'[s][b] = run[s][b]
    BY DEF Advances, NodesInv, NodesTypes
  <1>4. \A t \in Slots \ {s} : slot'[t] = slot[t] /\ run'[t] = run[t]
    BY DEF Advances, NodesInv, NodesTypes
  <1>5. SlotInv(s)'
    <2>1. SlotInv(s) /\ Profile(s)' = Profile(s)
      BY DEF NodesInv, Profile
    <2>2. Acts(s)' <=> Acts(s)
      BY <2>1 DEF Acts
    <2>3. SlotOk(s, slot[s])'
      BY <1>3, <2>1, <2>2 DEF Fits, SlotOk, Excuse
    <2>4. ASSUME NEW b \in Attempts  PROVE RunOk(s, run[s][b], slot[s])'
      <3>1. CASE b = a
        BY <1>3, <2>2, <3>1 DEF Fits, RunOk
      <3>2. CASE b # a
        <4>1. RunOk(s, run[s][b], slot[s]) /\ run'[s][b] = run[s][b]
          BY <1>3, <2>1, <3>2 DEF SlotInv
        <4>2. slot[s] \in SlotRecords
          BY DEF NodesInv, NodesTypes
        <4>3. k.applied >= slot[s].applied /\ (slot[s].lied => k.lied)
          BY DEF Fits
        <4>4. slot[s].applied > 0 => k.applied > 0
          BY <1>1, <4>2, <4>3 DEF SlotRecords
        <4>5. QED
          BY <1>3, <2>2, <4>1, <4>3, <4>4 DEF RunOk
      <3>3. QED
        BY <3>1, <3>2
    <2>5. (slot[s].applied + Due(s, run[s][1]) + Due(s, run[s][2]) + Coming(s, slot[s])
                <= Profile(s).effects + slot[s].repeats)'
      <3> DEFINE b == 3 - a
      <3>1. b \in Attempts /\ b # a /\ {1, 2} = {a, b}
        BY DEF Attempts
      <3>2. run[s][a] \in RunRecords /\ run[s][b] \in RunRecords /\ slot[s] \in SlotRecords
        BY <3>1 DEF NodesInv, NodesTypes
      <3>3. /\ Due(s, r) \in Nat /\ Due(s, run[s][a]) \in Nat /\ Due(s, run[s][b]) \in Nat
            /\ Coming(s, k) \in Nat /\ Coming(s, slot[s]) \in Nat
        BY <1>1, <3>2, DueIs, ComingIs DEF NodesInv
      <3>4. slot[s].applied + Due(s, run[s][a]) + Due(s, run[s][b]) + Coming(s, slot[s])
                <= Profile(s).effects + slot[s].repeats
        BY <2>1, <3>1, <3>3, <3>2 DEF SlotInv, Attempts, SlotRecords
      <3>5. k.applied + Due(s, r) + Coming(s, k) + slot[s].repeats
                <= slot[s].applied + Due(s, run[s][a]) + Coming(s, slot[s]) + k.repeats
        BY DEF Fits
      <3>6. Profile(s).effects \in Nat
        BY ProfileIs DEF Sound, NodesInv
      <3>7. k.applied + Due(s, r) + Due(s, run[s][b]) + Coming(s, k) <= Profile(s).effects + k.repeats
        BY <1>1, <3>2, <3>3, <3>4, <3>5, <3>6 DEF SlotRecords
      <3>8. /\ Due(s, run[s][a])' = Due(s, r)
            /\ Due(s, run[s][b])' = Due(s, run[s][b])
            /\ Coming(s, slot[s])' = Coming(s, k)
        BY <1>3, <2>1, <3>1 DEF Due, Coming
      <3>9. (slot[s].applied + Due(s, run[s][a]) + Due(s, run[s][b]) + Coming(s, slot[s])
                <= Profile(s).effects + slot[s].repeats)'
        BY <1>3, <2>1, <3>7, <3>8
      <3>10. Due(s, run[s][a])' \in Nat /\ Due(s, run[s][b])' \in Nat /\ slot'[s].applied \in Nat
        BY <1>1, <1>3, <3>3, <3>8 DEF SlotRecords
      <3> HIDE DEF b
      <3>11. CASE a = 1
        <4>1. b = 2
          BY <3>1, <3>11
        <4>2. QED
          BY <3>9, <3>11, <4>1
      <3>12. CASE a = 2
        <4>1. b = 1
          BY <3>1, <3>12
        <4>2. QED
          BY <3>9, <3>10, <3>12, <4>1
      <3>13. QED
        BY <3>11, <3>12 DEF Attempts
    <2>6. QED
      BY <2>3, <2>4, <2>5 DEF SlotInv
  <1>6. QED
    BY <1>2, <1>4, <1>5, SlotKept DEF SlotsKept

\* What a run has learned of its slot: only effects are added.
Later(s, k) ==
    /\ k \in SlotRecords
    /\ k.phase = slot[s].phase /\ k.attempt = slot[s].attempt
    /\ k.lack = slot[s].lack /\ k.verdict = slot[s].verdict
    /\ k.applied >= slot[s].applied
    /\ slot[s].lied => k.lied
    /\ slot[s].blind => k.blind

LEMMA LaterIsOk ==
    ASSUME NodesInv, NEW s \in Slots, NEW k, Later(s, k)
    PROVE  SlotOk(s, k) /\ Coming(s, k) = Coming(s, slot[s])
  <1>1. SlotOk(s, slot[s]) /\ slot[s] \in SlotRecords
    BY DEF NodesInv, NodesTypes, SlotInv
  <1>2. slot[s].applied > 0 => k.applied > 0
    BY <1>1 DEF Later, SlotRecords
  <1>3. QED
    BY <1>1, <1>2 DEF Later, SlotOk, Excuse, Coming

LEMMA IdleRunIs ==
    /\ IdleRun \in RunRecords /\ IdleRun.pc = "idle" /\ ~IdleRun.sent
    /\ \A s : Due(s, IdleRun) = 0
  BY DEF IdleRun, RunRecords, Due

\* The slot keeps its count of effects.
AppliedIs(s, n) ==
    /\ slot'[s].applied = n
    /\ \A t \in Slots \ {s} : slot'[t] = slot[t]

LEMMA FinishKeeps ==
    ASSUME NodesInv, node' = node, NEW s \in Slots, NEW a \in Attempts, NEW verdict \in Verdicts,
           NEW k, Later(s, k), Finish(s, a, verdict, k),
           verdict = "success" /\ Acts(s) => Excuse(s, k),
           k.applied + slot[s].repeats <= slot[s].applied + Due(s, run[s][a]) + k.repeats
    PROVE  SlotsKept /\ AppliedIs(s, k.applied)
  <1> DEFINE e == Answered(s, a, verdict, k)
  <1>1. k \in SlotRecords /\ slot[s] \in SlotRecords /\ run[s][a] \in RunRecords
    BY DEF Later, NodesInv, NodesTypes
  <1>2. /\ e \in SlotRecords
        /\ e.applied = k.applied /\ e.lied = k.lied /\ e.repeats = k.repeats
        /\ e.blind = k.blind /\ e.lack = k.lack /\ e.attempt = k.attempt
        /\ (e.phase = "decided" /\ e.verdict = verdict) \/ e = k
    BY <1>1 DEF Answered, SlotRecords
  <1> HIDE DEF e
  <1>3. SlotOk(s, e)
    <2>1. SlotOk(s, k)
      BY LaterIsOk
    <2>2. QED
      BY <1>2, <2>1 DEF SlotOk, Excuse
  <1>4. Coming(s, e) <= Coming(s, slot[s]) /\ Coming(s, e) \in Nat /\ Coming(s, slot[s]) \in Nat
    <2>1. Coming(s, k) = Coming(s, slot[s])
      BY LaterIsOk
    <2>2. Coming(s, k) \in Nat
      BY ComingIs DEF NodesInv
    <2>3. Coming(s, e) = 0 \/ e = k
      BY <1>2 DEF Coming
    <2>4. QED
      BY <2>1, <2>2, <2>3
  <1>5. Fits(s, a, IdleRun, e)
    <2>1. Due(s, run[s][a]) \in Nat
      BY <1>1, DueIs DEF NodesInv
    <2>2. RunOk(s, IdleRun, e)
      BY IdleRunIs DEF RunOk
    <2>3. e.applied + Due(s, IdleRun) + Coming(s, e) + slot[s].repeats
            <= slot[s].applied + Due(s, run[s][a]) + Coming(s, slot[s]) + e.repeats
      BY <1>1, <1>2, <1>4, <2>1, IdleRunIs DEF SlotRecords
    <2>4. QED
      BY <1>2, <1>3, <2>2, <2>3, IdleRunIs DEF Fits, Later
  <1>6. SlotsKept
    BY <1>5, OneRunMoves DEF Finish, e
  <1>7. AppliedIs(s, k.applied)
    BY <1>2 DEF AppliedIs, Finish, e, NodesInv, NodesTypes
  <1>8. QED
    BY <1>6, <1>7

\* A run that goes on, with what it has learned.
LEMMA GoesOnKeeps ==
    ASSUME NodesInv, node' = node, NEW s \in Slots, NEW a \in Attempts, NEW r \in RunRecords,
           NEW k, Later(s, k), RunOk(s, r, k), Advances(s, a, r), slot' = [slot EXCEPT ![s] = k],
           k.applied + Due(s, r) + slot[s].repeats
                <= slot[s].applied + Due(s, run[s][a]) + k.repeats
    PROVE  SlotsKept /\ AppliedIs(s, k.applied)
  <1>1. k \in SlotRecords /\ slot[s] \in SlotRecords /\ run[s][a] \in RunRecords
    BY DEF Later, NodesInv, NodesTypes
  <1>2. SlotOk(s, k) /\ Coming(s, k) = Coming(s, slot[s]) /\ Coming(s, k) \in Nat
    BY LaterIsOk, ComingIs DEF NodesInv
  <1>3. Due(s, r) \in Nat /\ Due(s, run[s][a]) \in Nat
    BY <1>1, DueIs DEF NodesInv
  <1>4. k.applied + Due(s, r) + Coming(s, k) + slot[s].repeats
            <= slot[s].applied + Due(s, run[s][a]) + Coming(s, slot[s]) + k.repeats
    BY <1>1, <1>2, <1>3 DEF SlotRecords
  <1>5. Fits(s, a, r, k)
    BY <1>1, <1>2, <1>4 DEF Fits, Later
  <1>6. AppliedIs(s, k.applied)
    BY DEF AppliedIs, NodesInv, NodesTypes
  <1>7. QED
    BY <1>5, <1>6, OneRunMoves

LEMMA ThenKeeps ==
    ASSUME NodesInv, node' = node, NEW s \in Slots, NEW a \in Attempts, NEW ok \in BOOLEAN,
           NEW k, Later(s, k), run[s][a].pc = "write", Then(s, a, ok, k),
           ok => k.applied > 0 \/ k.lied,
           k.applied + slot[s].repeats <= slot[s].applied + 1 + k.repeats
    PROVE  SlotsKept /\ AppliedIs(s, k.applied)
  <1> DEFINE r == run[s][a]
             sent == r.sent \/ ok
  <1>1. k \in SlotRecords /\ slot[s] \in SlotRecords /\ r \in RunRecords
    BY DEF Later, NodesInv, NodesTypes
  <1>2. RunOk(s, r, slot[s]) /\ r.left >= 1 /\ Acts(s) /\ Due(s, r) = r.left
    BY DEF NodesInv, SlotInv, RunOk, Due
  <1>3. sent => k.applied > 0 \/ k.lied
    <2>1. slot[s].applied > 0 => k.applied > 0
      BY <1>1 DEF Later, SlotRecords
    <2>2. QED
      BY <1>2, <2>1 DEF RunOk, Later
  <1>4. CASE r.left > 1
    <2> DEFINE n == [r EXCEPT !.left = @ - 1, !.try = 1, !.sent = sent]
    <2>1. n \in RunRecords /\ n.pc = "write" /\ n.left = r.left - 1 /\ n.sent = sent
      <3>1. sent \in BOOLEAN
        BY <1>1 DEF RunRecords
      <3>2. r.pc = "write"
        OBVIOUS
      <3> HIDE DEF sent
      <3>3. n.pc = "write" /\ n.left = r.left - 1 /\ n.sent = sent
        BY <1>1, <3>2 DEF RunRecords
      <3>4. r.left - 1 \in 0 .. 2 /\ 1 \in 1 .. 4
        BY <1>1, <1>4 DEF RunRecords
      <3>5. [r EXCEPT !.left = r.left - 1, !.try = 1, !.sent = sent] \in RunRecords
        BY <1>1, <3>1, <3>4 DEF RunRecords
      <3>6. QED
        BY <3>3, <3>5
    <2>2. Advances(s, a, n) /\ slot' = [slot EXCEPT ![s] = k]
      BY <1>4 DEF Then
    <2> HIDE DEF n
    <2>3. RunOk(s, n, k)
      BY <1>1, <1>2, <1>3, <1>4, <2>1 DEF RunOk, RunRecords
    <2>4. Due(s, n) = r.left - 1
      BY <2>1 DEF Due
    <2>5. k.applied + Due(s, n) + slot[s].repeats <= slot[s].applied + Due(s, r) + k.repeats
      BY <1>1, <1>2, <2>4 DEF RunRecords, SlotRecords
    <2>6. QED
      BY <2>1, <2>2, <2>3, <2>5, GoesOnKeeps
  <1>5. CASE ~(r.left > 1) /\ sent /\ Profile(s).check /= "none"
    <2> DEFINE n == [r EXCEPT !.pc = "verify"]
    <2>1. n \in RunRecords /\ n.pc = "verify"
      BY <1>1 DEF RunRecords
    <2>2. Advances(s, a, n) /\ slot' = [slot EXCEPT ![s] = k]
      BY <1>5 DEF Then
    <2> HIDE DEF n
    <2>3. RunOk(s, n, k)
      BY <1>3, <1>5, <2>1 DEF RunOk
    <2>4. Due(s, n) = 0
      BY <2>1 DEF Due
    <2>5. k.applied + Due(s, n) + slot[s].repeats <= slot[s].applied + Due(s, r) + k.repeats
      BY <1>1, <1>2, <2>4 DEF RunRecords, SlotRecords
    <2>6. QED
      BY <2>1, <2>2, <2>3, <2>5, GoesOnKeeps
  <1>6. CASE ~(r.left > 1) /\ ~(sent /\ Profile(s).check /= "none")
    <2> DEFINE v == IF sent \/ Profile(s).lenient THEN "success" ELSE "error"
    <2>1. v \in Verdicts /\ Finish(s, a, v, k)
      BY <1>6 DEF Then, Verdicts
    <2>2. v = "success" => Excuse(s, k)
      BY <1>3, <1>6 DEF Excuse
    <2> HIDE DEF v
    <2>3. k.applied + slot[s].repeats <= slot[s].applied + Due(s, r) + k.repeats
      BY <1>1, <1>2 DEF RunRecords, SlotRecords
    <2>4. QED
      BY <2>1, <2>2, <2>3, FinishKeeps
  <1>7. QED
    BY <1>4, <1>5, <1>6

LEMMA TryAgainKeeps ==
    ASSUME NodesInv, node' = node, NEW s \in Slots, NEW a \in Attempts,
           NEW k, Later(s, k), run[s][a].pc = "write", TryAgain(s, a, Profile(s).write, k),
           k.applied + slot[s].repeats <= slot[s].applied + k.repeats
    PROVE  SlotsKept /\ AppliedIs(s, k.applied)
  <1> DEFINE r == run[s][a]
             client == Profile(s).write
  <1>1. k \in SlotRecords /\ slot[s] \in SlotRecords /\ r \in RunRecords
    BY DEF Later, NodesInv, NodesTypes
  <1>2. RunOk(s, r, slot[s]) /\ Acts(s) /\ Due(s, r) = r.left
    BY DEF NodesInv, SlotInv, RunOk, Due
  <1>3. Tries[client] \in 1 .. 4
    BY <1>2, ProfileIs DEF Sound, Acts, Tries, NodesInv
  <1>4. CASE r.try < Tries[client]
    <2> DEFINE n == [r EXCEPT !.try = @ + 1]
    <2>1. n \in RunRecords /\ n.pc = r.pc /\ n.left = r.left /\ n.sent = r.sent
      BY <1>1, <1>3, <1>4 DEF RunRecords
    <2>2. Advances(s, a, n) /\ slot' = [slot EXCEPT ![s] = k]
      BY <1>4 DEF TryAgain
    <2> HIDE DEF n
    <2>3. slot[s].applied > 0 => k.applied > 0
      BY <1>1 DEF Later, SlotRecords
    <2>4. RunOk(s, n, k)
      BY <1>2, <2>1, <2>3 DEF RunOk, Later
    <2>5. k.applied + Due(s, n) + slot[s].repeats <= slot[s].applied + Due(s, r) + k.repeats
      BY <1>1, <1>2, <2>1 DEF Due, RunRecords, SlotRecords
    <2>6. QED
      BY <2>1, <2>2, <2>4, <2>5, GoesOnKeeps
  <1>5. CASE ~(r.try < Tries[client])
    <2>1. Then(s, a, FALSE, k)
      BY <1>5 DEF TryAgain
    <2>2. k.applied + slot[s].repeats <= slot[s].applied + 1 + k.repeats
      BY <1>1 DEF SlotRecords
    <2>3. QED
      BY <2>1, <2>2, ThenKeeps
  <1>6. QED
    BY <1>4, <1>5

-----------------------------------------------------------------------------
RemoteKept ==
    /\ CacheShape'
    /\ circuit' \in Circuits
    /\ crm' \in {"up", "down"}
    /\ stale' \in BOOLEAN /\ outages' \in BOOLEAN
    /\ circuit' # ClosedCircuit => outages'

LEMMA Assembled ==
    ASSUME NodesInv, node' = node, SlotsKept, RemoteKept, troubles' \in 0 .. MaxTroubles,
           AttributesLostOnlyToStaleCopies'
    PROVE  NodesInv'
  BY DEF NodesInv, NodesTypes, SlotsKept, RemoteKept

LEMMA SlotsSame ==
    ASSUME NodesInv, node' = node, run' = run, slot' = slot
    PROVE  SlotsKept
  BY SlotKept DEF SlotsKept, NodesInv, NodesTypes

LEMMA TroubleCounts ==
    ASSUME NodesInv, Trouble \/ NoTrouble
    PROVE  troubles' \in 0 .. MaxTroubles
  BY NodesAssumption DEF NodesInv, NodesTypes, Trouble, NoTrouble

LEMMA LaterItself ==
    ASSUME NodesInv, NEW s \in Slots
    PROVE  Later(s, slot[s]) /\ slot = [slot EXCEPT ![s] = slot[s]]
  BY DEF Later, NodesInv, NodesTypes, SlotRecords

\* Only unavailability takes the circuit away from where it began.
LEMMA CountedKeeps ==
    ASSUME NodesInv, NEW client, NEW answered \in BOOLEAN, Counted(client, answered)
    PROVE  circuit' \in Circuits /\ outages' \in BOOLEAN /\ (circuit' # ClosedCircuit => outages')
  <1>1. circuit \in Circuits /\ outages \in BOOLEAN /\ (circuit # ClosedCircuit => outages)
    BY DEF NodesInv, NodesTypes
  <1>2. outages' \in BOOLEAN
    BY DEF Counted
  <1>3. CASE client # "generic"
    BY <1>1, <1>2, <1>3 DEF Counted
  <1>4. CASE client = "generic" /\ ~answered
    <2>1. Failed(circuit) \in Circuits
      BY <1>1, ThresholdAssumption DEF Failed, Circuits
    <2>2. QED
      BY <1>2, <1>4, <2>1 DEF Counted
  <1>5. CASE client = "generic" /\ answered
    <2>1. Succeeded(circuit) \in Circuits
      BY <1>1, ThresholdAssumption DEF Succeeded, Circuits
    <2>2. Succeeded(ClosedCircuit) = ClosedCircuit
      BY DEF Succeeded, ClosedCircuit
    <2>3. circuit' = Succeeded(circuit) /\ (outages => outages')
      BY <1>5 DEF Counted
    <2>4. QED
      BY <1>1, <1>2, <2>1, <2>2, <2>3
  <1>6. QED
    BY <1>3, <1>4, <1>5

LEMMA CircuitSame ==
    ASSUME NodesInv, UNCHANGED <<circuit, outages>>
    PROVE  circuit' \in Circuits /\ outages' \in BOOLEAN /\ (circuit' # ClosedCircuit => outages')
  BY DEF NodesInv, NodesTypes

LEMMA AttributesKept ==
    ASSUME NodesInv, node' = node, attributes' = attributes, stale' = stale,
           \A t \in Slots : slot'[t].applied > 0 => slot[t].applied > 0
    PROVE  AttributesLostOnlyToStaleCopies'
  BY DEF NodesInv, AttributesLostOnlyToStaleCopies, IsAttribute

LEMMA NothingApplied ==
    ASSUME NodesInv, NEW s \in Slots, NEW n, AppliedIs(s, n), n = slot[s].applied
    PROVE  \A t \in Slots : slot'[t].applied > 0 => slot[t].applied > 0
  BY DEF AppliedIs

LEMMA EffectKeeps ==
    ASSUME NodesInv, node' = node, NEW s \in Slots, NEW a \in Attempts, Effect(s, a),
           \A t \in Slots \ {s} : slot'[t] = slot[t]
    PROVE  /\ AttributesLostOnlyToStaleCopies'
           /\ attributes' \subseteq Slots \cup OtherAttributes
           /\ stale' \in BOOLEAN
  <1>1. /\ run[s][a].copy \subseteq Slots \cup OtherAttributes
        /\ attributes \subseteq Slots \cup OtherAttributes
        /\ stale \in BOOLEAN
    BY DEF NodesInv, NodesTypes, RunRecords, CacheShape
  <1>2. \A t : IsAttribute(t)' <=> IsAttribute(t)
    BY DEF IsAttribute
  <1>3. CASE IsAttribute(s)
    <2>1. /\ attributes' = run[s][a].copy \cup {s}
          /\ stale' = (stale \/ ~(attributes \subseteq run[s][a].copy \cup {s}))
      BY <1>3 DEF Effect, Merged
    <2>2. attributes' \subseteq Slots \cup OtherAttributes
      BY <1>1, <2>1
    <2>3. stale' \in BOOLEAN
      BY <2>1
    <2>4. ~stale' => ~stale /\ attributes \subseteq attributes' /\ s \in attributes'
      BY <2>1
    <2>5. AttributesLostOnlyToStaleCopies
      BY DEF NodesInv
    <2>6. AttributesLostOnlyToStaleCopies'
      BY <1>2, <2>4, <2>5 DEF AttributesLostOnlyToStaleCopies
    <2>7. QED
      BY <2>2, <2>3, <2>6
  <1>4. CASE ~IsAttribute(s)
    <2>1. attributes' = attributes /\ stale' = stale
      BY <1>4 DEF Effect
    <2>2. AttributesLostOnlyToStaleCopies'
      BY <1>2, <1>4, <2>1 DEF AttributesLostOnlyToStaleCopies, NodesInv
    <2>3. QED
      BY <1>1, <2>1, <2>2
  <1>5. QED
    BY <1>3, <1>4

LEMMA CheckKeeps ==
    ASSUME NodesInv, NEW s \in Slots, NEW a \in Attempts, Check(s, a)
    PROVE  NodesInv'
  <1> DEFINE r == run[s][a]
             k == slot[s]
  <1>1. /\ node' = node /\ r.pc = "check" /\ troubles' = troubles
        /\ UNCHANGED <<circuit, crm, attributes, cache, stale, outages>>
    BY DEF Check, remote
  <1>2. r \in RunRecords /\ k \in SlotRecords /\ SlotOk(s, k) /\ RunOk(s, r, k)
    BY DEF NodesInv, NodesTypes, SlotInv
  <1>3. Sound(Profile(s)) /\ Due(s, r) = Profile(s).effects
    BY <1>1, ProfileIs DEF NodesInv, Due
  <1>4. Later(s, k) /\ slot = [slot EXCEPT ![s] = k]
    BY LaterItself
  <1>5. SlotsKept /\ AppliedIs(s, k.applied)
    <2>1. CASE k.lack /= "nothing"
      <3> DEFINE v == Profile(s).lacks[k.lack]
      <3>1. v \in Verdicts /\ (v = "success" => Excuse(s, k))
        BY <1>2, <1>3, <2>1 DEF SlotOk, Sound, Excuse
      <3>2. Finish(s, a, v, k)
        BY <2>1 DEF Check
      <3> HIDE DEF v
      <3>3. k.applied + slot[s].repeats <= slot[s].applied + Due(s, r) + k.repeats
        BY <1>2, <1>3 DEF Sound, SlotRecords
      <3>4. QED
        BY <1>1, <1>4, <3>1, <3>2, <3>3, FinishKeeps
    <2>2. CASE k.lack = "nothing"
      <3> DEFINE n == [r EXCEPT !.pc = "read", !.left = Profile(s).effects]
      <3>1. Advances(s, a, n) /\ slot' = slot
        BY <2>2 DEF Check
      <3>2. /\ n \in RunRecords /\ n.pc = "read" /\ n.left = Profile(s).effects
            /\ n.sent = r.sent
        <4>1. Profile(s).effects \in 0 .. 2
          BY <1>3 DEF Sound
        <4>2. n \in RunRecords
          BY <1>2, <4>1 DEF RunRecords
        <4>3. n.pc = "read" /\ n.left = Profile(s).effects /\ n.sent = r.sent
          BY <1>2 DEF RunRecords
        <4>4. QED
          BY <4>2, <4>3
      <3> HIDE DEF n
      <3>3. RunOk(s, n, k)
        BY <1>2, <1>3, <3>2 DEF RunOk, Sound
      <3>4. Due(s, n) = Profile(s).effects
        BY <3>2 DEF Due
      <3>5. k.applied + Due(s, n) + slot[s].repeats <= slot[s].applied + Due(s, r) + k.repeats
        BY <1>2, <1>3, <3>4 DEF Sound, SlotRecords
      <3>6. QED
        BY <1>1, <1>4, <3>1, <3>2, <3>3, <3>5, GoesOnKeeps
    <2>3. QED
      BY <2>1, <2>2
  <1>6. RemoteKept
    BY <1>1 DEF RemoteKept, CacheShape, NodesInv, NodesTypes
  <1>7. AttributesLostOnlyToStaleCopies'
    BY <1>1, <1>5, NothingApplied, AttributesKept
  <1>8. QED
    BY <1>1, <1>5, <1>6, <1>7, Assembled DEF NodesInv, NodesTypes

\* An attempt that goes on reading or writing with what it has sent and is due.
LEMMA ReadsOnKeeps ==
    ASSUME NodesInv, node' = node, NEW s \in Slots, NEW a \in Attempts, NEW n \in RunRecords,
           run[s][a].pc = "read", n.pc \in {"read", "write"}, n.pc = "write" => Acts(s),
           n.left = run[s][a].left, n.sent = run[s][a].sent,
           Advances(s, a, n), slot' = slot
    PROVE  SlotsKept /\ AppliedIs(s, slot[s].applied)
  <1> DEFINE k == slot[s]
  <1>1. Later(s, k) /\ slot = [slot EXCEPT ![s] = k]
    BY LaterItself
  <1>2. RunOk(s, run[s][a], k) /\ k \in SlotRecords /\ run[s][a] \in RunRecords
    BY DEF NodesInv, NodesTypes, SlotInv
  <1>3. RunOk(s, n, k)
    BY <1>2 DEF RunOk
  <1>4. Due(s, n) = Due(s, run[s][a]) /\ Due(s, n) \in Nat
    BY <1>2 DEF Due, RunRecords
  <1>5. k.applied + Due(s, n) + slot[s].repeats
            <= slot[s].applied + Due(s, run[s][a]) + k.repeats
    BY <1>2, <1>4 DEF SlotRecords
  <1>6. QED
    BY <1>1, <1>3, <1>5, GoesOnKeeps

\* An attempt that has learned nothing ends with a verdict it may give.
LEMMA EndsKeeps ==
    ASSUME NodesInv, node' = node, NEW s \in Slots, NEW a \in Attempts, NEW verdict \in Verdicts,
           Finish(s, a, verdict, slot[s]), verdict = "success" /\ Acts(s) => Excuse(s, slot[s])
    PROVE  SlotsKept /\ AppliedIs(s, slot[s].applied)
  <1>1. slot[s] \in SlotRecords /\ run[s][a] \in RunRecords
    BY DEF NodesInv, NodesTypes
  <1>2. Due(s, run[s][a]) \in Nat
    BY <1>1, DueIs DEF NodesInv
  <1>3. slot[s].applied + slot[s].repeats
            <= slot[s].applied + Due(s, run[s][a]) + slot[s].repeats
    BY <1>1, <1>2 DEF SlotRecords
  <1>4. QED
    BY <1>3, LaterItself, FinishKeeps

LEMMA ReadKeeps ==
    ASSUME NodesInv, NEW s \in Slots, NEW a \in Attempts, Read(s, a)
    PROVE  NodesInv'
  <1> DEFINE r == run[s][a]
             reads == Profile(s).reads
             read == reads[r.read]
             n(copy) == [r EXCEPT !.read = @ + 1, !.copy = copy]
             fine == circuit' \in Circuits /\ outages' \in BOOLEAN
                     /\ (circuit' # ClosedCircuit => outages')
  <1>1. /\ node' = node /\ r.pc = "read" /\ troubles' = troubles
        /\ UNCHANGED <<crm, attributes, stale>>
    BY DEF Read
  <1>2. r \in RunRecords /\ CacheShape
    BY DEF NodesInv, NodesTypes
  <1>3. Sound(Profile(s))
    BY ProfileIs DEF NodesInv
  <1>4. r.read <= Len(reads) =>
            /\ r.read \in 1 .. 2
            /\ read.missing \in Verdicts /\ read.failed \in Verdicts
            /\ Acts(s) => read.missing # "success" /\ read.failed # "success"
    BY <1>2, <1>3 DEF Sound, RunRecords, Acts
  <1>5. ASSUME r.read <= Len(reads), NEW copy \in SUBSET (Slots \cup OtherAttributes),
               Advances(s, a, n(copy)), slot' = slot
        PROVE  SlotsKept /\ AppliedIs(s, slot[s].applied)
    <2>1. r.read + 1 \in 1 .. 3
      BY <1>4, <1>5
    <2>2. n(copy) \in RunRecords
      BY <1>2, <2>1, <1>5 DEF RunRecords
    <2>3. n(copy).pc = "read" /\ n(copy).left = r.left /\ n(copy).sent = r.sent
      BY <1>1, <1>2 DEF RunRecords
    <2> HIDE DEF n
    <2>4. QED
      BY <1>1, <1>5, <2>2, <2>3, ReadsOnKeeps
  <1>6. CASE /\ r.read > Len(reads) /\ UNCHANGED <<circuit, outages, cache>>
             /\ IF Profile(s).write = "none" THEN Finish(s, a, "success", slot[s])
                ELSE Advances(s, a, [r EXCEPT !.pc = "write"]) /\ UNCHANGED slot
    <2>1. UNCHANGED <<circuit, outages, cache>>
      BY <1>6
    <2>2. SlotsKept /\ AppliedIs(s, slot[s].applied)
      <3>1. CASE Profile(s).write = "none"
        <4>1. Finish(s, a, "success", slot[s])
          BY <1>6, <3>1
        <4>2. QED
          BY <1>1, <3>1, <4>1, EndsKeeps DEF Acts, Verdicts
      <3>2. CASE Profile(s).write # "none"
        <4> DEFINE w == [r EXCEPT !.pc = "write"]
        <4>1. Advances(s, a, w) /\ slot' = slot
          BY <1>6, <3>2
        <4>2. w \in RunRecords /\ w.pc = "write" /\ w.left = r.left /\ w.sent = r.sent
          BY <1>2 DEF RunRecords
        <4> HIDE DEF w
        <4>3. QED
          BY <1>1, <3>2, <4>1, <4>2, ReadsOnKeeps DEF Acts
      <3>3. QED
        BY <3>1, <3>2
    <2>3. RemoteKept
      BY <1>1, <2>1 DEF RemoteKept, CacheShape, NodesInv, NodesTypes
    <2>4. QED
      BY <1>1, <2>2, <2>3, NothingApplied, AttributesKept, Assembled DEF NodesInv, NodesTypes
  <1>7. CASE r.read <= Len(reads) /\ read.cached /\ cache /= NoCopy
                /\ Advances(s, a, n(cache)) /\ UNCHANGED <<slot, circuit, outages, cache>>
    <2>1. SlotsKept /\ AppliedIs(s, slot[s].applied)
      BY <1>2, <1>5, <1>7 DEF CacheShape
    <2>2. RemoteKept
      BY <1>1, <1>7 DEF RemoteKept, CacheShape, NodesInv, NodesTypes
    <2>3. QED
      BY <1>1, <2>1, <2>2, NothingApplied, AttributesKept, Assembled DEF NodesInv, NodesTypes
  <1>8. CASE /\ r.read <= Len(reads) /\ Unanswered(read.client)
             /\ Finish(s, a, read.failed, slot[s]) /\ UNCHANGED cache
    <2>1. SlotsKept /\ AppliedIs(s, slot[s].applied)
      BY <1>1, <1>4, <1>8, EndsKeeps
    <2>2. fine
      BY <1>8, CountedKeeps, CircuitSame DEF Unanswered
    <2>3. RemoteKept
      BY <1>1, <1>8, <2>2 DEF RemoteKept, CacheShape, NodesInv, NodesTypes
    <2>4. QED
      BY <1>1, <2>1, <2>3, NothingApplied, AttributesKept, Assembled DEF NodesInv, NodesTypes
  <1>9. CASE /\ r.read <= Len(reads) /\ Counted(read.client, TRUE)
             /\ Advances(s, a, n(attributes)) /\ slot' = slot
             /\ cache' = IF read.cached THEN attributes ELSE cache
    <2>1. SlotsKept /\ AppliedIs(s, slot[s].applied)
      BY <1>2, <1>5, <1>9 DEF CacheShape
    <2>2. fine
      BY <1>9, CountedKeeps
    <2>3. CacheShape'
      BY <1>1, <1>2, <1>9 DEF CacheShape
    <2>4. RemoteKept
      BY <1>1, <2>2, <2>3 DEF RemoteKept, NodesInv, NodesTypes
    <2>5. QED
      BY <1>1, <2>1, <2>4, NothingApplied, AttributesKept, Assembled DEF NodesInv, NodesTypes
  <1>10. CASE /\ r.read <= Len(reads) /\ Counted(read.client, TRUE)
              /\ Finish(s, a, read.missing, slot[s]) /\ UNCHANGED cache
    <2>1. SlotsKept /\ AppliedIs(s, slot[s].applied)
      BY <1>1, <1>4, <1>10, EndsKeeps
    <2>2. fine
      BY <1>10, CountedKeeps
    <2>3. RemoteKept
      BY <1>1, <1>10, <2>2 DEF RemoteKept, CacheShape, NodesInv, NodesTypes
    <2>4. QED
      BY <1>1, <2>1, <2>3, NothingApplied, AttributesKept, Assembled DEF NodesInv, NodesTypes
  <1>11. QED
    BY <1>6, <1>7, <1>8, <1>9, <1>10 DEF Read

LEMMA WriteKeeps ==
    ASSUME NodesInv, NEW s \in Slots, NEW a \in Attempts, WriteTry(s, a)
    PROVE  NodesInv'
  <1> DEFINE client == Profile(s).write
             k == slot[s]
             applied == [k EXCEPT !.applied = @ + 1]
             counted == [applied EXCEPT !.repeats = @ + 1]
             lied == [k EXCEPT !.lied = TRUE]
             fine == circuit' \in Circuits /\ outages' \in BOOLEAN
                     /\ (circuit' # ClosedCircuit => outages')
  <1>1. node' = node /\ run[s][a].pc = "write" /\ UNCHANGED <<crm, cache>>
    BY DEF WriteTry
  <1>2. k \in SlotRecords /\ Later(s, k) /\ k.applied \in Nat /\ k.repeats \in Nat
    BY LaterItself DEF NodesInv, NodesTypes, SlotRecords
  <1>3. /\ Later(s, applied) /\ applied.applied = k.applied + 1 /\ applied.repeats = k.repeats
    BY <1>2 DEF Later, SlotRecords
  <1>4. /\ Later(s, counted) /\ counted.applied = k.applied + 1
        /\ counted.repeats = k.repeats + 1
    <2>1. applied \in SlotRecords /\ applied.repeats + 1 \in Nat
      BY <1>2, <1>3 DEF Later
    <2>2. counted \in SlotRecords
      BY <2>1 DEF SlotRecords
    <2>3. /\ counted.phase = applied.phase /\ counted.attempt = applied.attempt
          /\ counted.lack = applied.lack /\ counted.verdict = applied.verdict
          /\ counted.applied = applied.applied /\ counted.lied = applied.lied
          /\ counted.blind = applied.blind /\ counted.repeats = applied.repeats + 1
      BY <2>1 DEF SlotRecords
    <2> HIDE DEF counted, applied
    <2>4. QED
      BY <1>3, <2>2, <2>3 DEF Later
  <1>5. Later(s, lied) /\ lied.applied = k.applied /\ lied.repeats = k.repeats /\ lied.lied
    BY <1>2 DEF Later, SlotRecords
  <1> HIDE DEF applied, counted, lied
  <1>6. ASSUME NoEffect, AppliedIs(s, k.applied), SlotsKept, fine, Trouble \/ NoTrouble
        PROVE  NodesInv'
    <2>1. AttributesLostOnlyToStaleCopies'
      BY <1>1, <1>6, NothingApplied, AttributesKept DEF NoEffect
    <2>2. RemoteKept
      BY <1>1, <1>6 DEF RemoteKept, NoEffect, CacheShape, NodesInv, NodesTypes
    <2>3. QED
      BY <1>1, <1>6, <2>1, <2>2, TroubleCounts, Assembled
  <1>7. ASSUME Effect(s, a), NEW n, AppliedIs(s, n), SlotsKept, fine, Trouble \/ NoTrouble
        PROVE  NodesInv'
    <2>1. \A t \in Slots \ {s} : slot'[t] = slot[t]
      BY <1>7 DEF AppliedIs
    <2>2. /\ AttributesLostOnlyToStaleCopies'
          /\ attributes' \subseteq Slots \cup OtherAttributes
          /\ stale' \in BOOLEAN
      BY <1>1, <1>7, <2>1, EffectKeeps
    <2>3. RemoteKept
      BY <1>1, <1>7, <2>2 DEF RemoteKept, CacheShape, NodesInv, NodesTypes
    <2>4. QED
      BY <1>1, <1>7, <2>2, <2>3, TroubleCounts, Assembled
  <1>8. ASSUME NEW q, TryAgain(s, a, client, q)
        PROVE  fine
    BY <1>8, CountedKeeps, CircuitSame DEF TryAgain
  <1>9. CASE Then(s, a, FALSE, k) /\ NoEffect /\ (NoTrouble \/ Trouble)
                /\ (UNCHANGED <<circuit, outages>> \/ Counted(client, TRUE))
    <2>1. k.applied + k.repeats <= k.applied + 1 + k.repeats
      BY <1>2
    <2>2. SlotsKept /\ AppliedIs(s, k.applied)
      BY <1>1, <1>2, <1>9, <2>1, ThenKeeps
    <2>3. fine
      BY <1>9, CountedKeeps, CircuitSame
    <2>4. QED
      BY <1>6, <1>9, <2>2, <2>3
  <1>10. CASE Then(s, a, TRUE, applied) /\ Effect(s, a) /\ NoTrouble /\ Counted(client, TRUE)
    <2>1. applied.applied > 0
      BY <1>2, <1>3
    <2>2. applied.applied + k.repeats <= k.applied + 1 + applied.repeats
      BY <1>2, <1>3
    <2>3. SlotsKept /\ AppliedIs(s, applied.applied)
      BY <1>1, <1>3, <1>10, <2>1, <2>2, ThenKeeps
    <2>4. fine
      BY <1>10, CountedKeeps
    <2>5. QED
      BY <1>7, <1>10, <2>3, <2>4
  <1>11. CASE TryAgain(s, a, client, counted) /\ Effect(s, a) /\ Trouble
    <2>1. counted.applied + k.repeats <= k.applied + counted.repeats
      BY <1>2, <1>4
    <2>2. SlotsKept /\ AppliedIs(s, counted.applied)
      BY <1>1, <1>4, <1>11, <2>1, TryAgainKeeps
    <2>3. QED
      BY <1>7, <1>8, <1>11, <2>2
  <1>12. CASE Then(s, a, TRUE, lied) /\ NoEffect /\ Trouble /\ Counted(client, TRUE)
    <2>1. lied.applied + k.repeats <= k.applied + 1 + lied.repeats
      BY <1>2, <1>5
    <2>2. SlotsKept /\ AppliedIs(s, k.applied)
      BY <1>1, <1>5, <1>12, <2>1, ThenKeeps
    <2>3. fine
      BY <1>12, CountedKeeps
    <2>4. QED
      BY <1>6, <1>12, <2>2, <2>3
  <1>13. CASE Finish(s, a, "skipped", k) /\ NoEffect /\ NoTrouble /\ UNCHANGED <<circuit, outages>>
    <2>1. SlotsKept /\ AppliedIs(s, k.applied)
      BY <1>1, <1>13, EndsKeeps DEF Verdicts
    <2>2. QED
      BY <1>6, <1>13, <2>1, CircuitSame
  <1>14. CASE TryAgain(s, a, client, k) /\ NoEffect /\ NoTrouble
    <2>1. SlotsKept /\ AppliedIs(s, k.applied)
      BY <1>1, <1>2, <1>14, TryAgainKeeps
    <2>2. QED
      BY <1>6, <1>8, <1>14, <2>1
  <1>15. QED
    BY <1>9, <1>10, <1>11, <1>12, <1>13, <1>14 DEF WriteTry, Rejected, applied, counted, lied

LEMMA VerifyKeeps ==
    ASSUME NodesInv, NEW s \in Slots, NEW a \in Attempts, Verify(s, a)
    PROVE  NodesInv'
  <1> DEFINE client == Profile(s).check
             k == slot[s]
             b == [k EXCEPT !.blind = TRUE]
             fine == circuit' \in Circuits /\ outages' \in BOOLEAN
                     /\ (circuit' # ClosedCircuit => outages')
  <1>1. /\ node' = node /\ run[s][a].pc = "verify" /\ troubles' = troubles
        /\ UNCHANGED <<crm, attributes, cache, stale>>
    BY DEF Verify
  <1>2. k \in SlotRecords /\ run[s][a] \in RunRecords /\ RunOk(s, run[s][a], k)
    BY DEF NodesInv, NodesTypes, SlotInv
  <1>3. k.applied > 0 \/ k.lied
    BY <1>1, <1>2 DEF RunOk
  <1>4. SlotsKept /\ AppliedIs(s, k.applied) /\ fine
    <2>1. CASE Unanswered(client) /\ Finish(s, a, Profile(s).blind, b)
      <3>1. /\ Later(s, b) /\ b.applied = k.applied /\ b.repeats = k.repeats
            /\ b.lied = k.lied /\ b.blind
        <4>1. b \in SlotRecords
          BY <1>2 DEF SlotRecords
        <4>2. /\ b.phase = k.phase /\ b.attempt = k.attempt /\ b.lack = k.lack
              /\ b.verdict = k.verdict /\ b.applied = k.applied /\ b.repeats = k.repeats
              /\ b.lied = k.lied /\ b.blind = TRUE
          BY <1>2 DEF SlotRecords
        <4> HIDE DEF b
        <4>3. QED
          BY <1>2, <4>1, <4>2 DEF Later, SlotRecords
      <3> HIDE DEF b
      <3>2. Excuse(s, b) /\ Profile(s).blind \in Verdicts
        BY <1>3, <3>1, ProfileIs DEF Excuse, Sound, NodesInv
      <3>3. Due(s, run[s][a]) = 0
        BY <1>1 DEF Due
      <3>4. b.applied + k.repeats <= k.applied + Due(s, run[s][a]) + b.repeats
        BY <1>2, <3>1, <3>3 DEF SlotRecords
      <3>5. SlotsKept /\ AppliedIs(s, k.applied)
        BY <1>1, <2>1, <3>1, <3>2, <3>4, FinishKeeps
      <3>6. fine
        BY <2>1, CountedKeeps, CircuitSame DEF Unanswered
      <3>7. QED
        BY <3>5, <3>6
    <2>2. CASE /\ Counted(client, TRUE)
               /\ Finish(s, a, IF k.applied > 0 THEN "success" ELSE "error", k)
      <3> DEFINE v == IF k.applied > 0 THEN "success" ELSE "error"
      <3>1. v \in Verdicts /\ (v = "success" => Excuse(s, k))
        BY DEF Verdicts, Excuse
      <3>2. Finish(s, a, v, k)
        BY <2>2
      <3> HIDE DEF v
      <3>3. SlotsKept /\ AppliedIs(s, k.applied)
        BY <1>1, <3>1, <3>2, EndsKeeps
      <3>4. fine
        BY <2>2, CountedKeeps
      <3>5. QED
        BY <3>3, <3>4
    <2>3. QED
      BY <2>1, <2>2 DEF Verify
  <1>5. RemoteKept
    BY <1>1, <1>4 DEF RemoteKept, CacheShape, NodesInv, NodesTypes
  <1>6. QED
    BY <1>1, <1>4, <1>5, NothingApplied, AttributesKept, Assembled DEF NodesInv, NodesTypes

LEMMA BeginKeeps ==
    ASSUME NodesInv, NEW s \in Slots, Begin(s)
    PROVE  NodesInv'
  <1> DEFINE k == slot'[s]
  <1>1. /\ UNCHANGED <<node, run, circuit, crm, stale, outages, troubles>>
        /\ attributes' = attributes \ {s} /\ cache' = cache \ {s}
        /\ \A a \in Attempts : run[s][a].pc = "idle"
    BY DEF Begin, Alive
  <1>2. PICK lack \in {"nothing"} \cup DOMAIN Profile(s).lacks :
            slot' = [slot EXCEPT ![s] = [FreeSlot EXCEPT !.phase = "queued", !.lack = lack]]
    BY DEF Begin
  <1>3. Sound(Profile(s)) /\ Profile(s)' = Profile(s)
    BY <1>1, ProfileIs DEF NodesInv, Profile
  <1>4. /\ k = [FreeSlot EXCEPT !.phase = "queued", !.lack = lack]
        /\ \A t \in Slots \ {s} : slot'[t] = slot[t]
    BY <1>2 DEF NodesInv, NodesTypes
  <1>5. lack \in {"nothing", "config", "conversation"}
    BY <1>3 DEF Sound
  <1>6. /\ k \in SlotRecords /\ k.phase = "queued" /\ k.attempt = 0 /\ k.lack = lack
        /\ k.verdict = "none" /\ k.applied = 0 /\ k.repeats = 0
    <2>1. k = [phase |-> "queued", lack |-> lack, verdict |-> "none", attempt |-> 0,
               applied |-> 0, repeats |-> 0, lied |-> FALSE, blind |-> FALSE]
      BY <1>4 DEF FreeSlot
    <2> HIDE DEF k
    <2>2. k \in SlotRecords
      BY <1>5, <2>1 DEF SlotRecords, Verdicts
    <2>3. QED
      BY <2>1, <2>2
  <1>7. SlotInv(s)'
    <2>1. SlotOk(s, slot[s])'
      BY <1>3, <1>6 DEF SlotOk
    <2>2. \A a \in Attempts : RunOk(s, run[s][a], slot[s])'
      BY <1>1 DEF RunOk, NodesInv, SlotInv
    <2>3. Due(s, run[s][1])' = 0 /\ Due(s, run[s][2])' = 0
      BY <1>1 DEF Due, Attempts
    <2>4. Coming(s, slot[s])' = Profile(s).effects
      BY <1>3, <1>6 DEF Coming
    <2>5. QED
      BY <1>3, <1>6, <2>1, <2>2, <2>3, <2>4 DEF SlotInv, Sound
  <1>8. SlotsKept
    <2>1. slot' \in [Slots -> SlotRecords]
      BY <1>2, <1>4, <1>6 DEF NodesInv, NodesTypes
    <2>2. \A t \in Slots : SlotInv(t)'
      BY <1>1, <1>4, <1>7, SlotKept
    <2>3. QED
      BY <1>1, <2>1, <2>2 DEF SlotsKept, NodesInv, NodesTypes
  <1>9. CacheShape'
    BY <1>1, NodesAssumption DEF NodesInv, CacheShape, NoCopy
  <1>10. RemoteKept
    BY <1>1, <1>9 DEF RemoteKept, NodesInv, NodesTypes
  <1>11. AttributesLostOnlyToStaleCopies'
    <2>1. AttributesLostOnlyToStaleCopies /\ s \notin OtherAttributes
      BY NodesAssumption DEF NodesInv
    <2>2. \A t \in Slots : IsAttribute(t)' <=> IsAttribute(t)
      BY <1>1 DEF IsAttribute
    <2>3. ASSUME NEW t \in Slots, slot'[t].applied > 0  PROVE t # s /\ slot[t].applied > 0
      <3>1. CASE t = s
        <4>1. slot'[t].applied = 0
          BY <1>6, <3>1
        <4>2. QED
          BY <2>3, <4>1
      <3>2. CASE t # s
        BY <1>4, <2>3, <3>2
      <3>3. QED
        BY <3>1, <3>2
    <2>4. QED
      BY <1>1, <2>1, <2>2, <2>3 DEF AttributesLostOnlyToStaleCopies
  <1>12. QED
    BY <1>1, <1>8, <1>10, <1>11, Assembled DEF NodesInv, NodesTypes

LEMMA StartKeeps ==
    ASSUME NodesInv, NEW s \in Slots, StartAttempt(s)
    PROVE  NodesInv'
  <1> DEFINE a == slot[s].attempt + 1
             k == [slot[s] EXCEPT !.phase = "running", !.attempt = a]
             r == [IdleRun EXCEPT !.pc = "check"]
  <1>1. /\ UNCHANGED <<node, troubles, circuit, crm, attributes, cache, stale, outages>>
        /\ slot[s].phase = "queued" /\ slot[s].attempt < 2 /\ Advances(s, a, r)
        /\ slot' = [slot EXCEPT ![s] = k]
    BY DEF StartAttempt, remote, NodesInv, NodesTypes
  <1>2. slot[s] \in SlotRecords /\ SlotOk(s, slot[s]) /\ Sound(Profile(s))
    BY ProfileIs DEF NodesInv, NodesTypes, SlotInv
  <1>3. a \in Attempts
    BY <1>1, <1>2 DEF SlotRecords, Attempts
  <1> HIDE DEF a
  <1>4. slot' = [slot EXCEPT ![s] = k]
    BY <1>1
  <1>5. k \in SlotRecords
    <2>1. a \in 0 .. 2
      BY <1>3 DEF Attempts
    <2>2. [slot[s] EXCEPT !.phase = "running", !.attempt = a] \in SlotRecords
      BY <1>2, <2>1 DEF SlotRecords
    <2>3. QED
      BY <2>2
  <1>6. /\ k.phase = "running" /\ k.attempt = a /\ k.lack = slot[s].lack
        /\ k.verdict = slot[s].verdict /\ k.applied = slot[s].applied
        /\ k.repeats = slot[s].repeats /\ k.lied = slot[s].lied /\ k.blind = slot[s].blind
    BY <1>2 DEF SlotRecords
  <1>7. r \in RunRecords /\ r.pc = "check" /\ ~r.sent
    <2>1. r \in RunRecords /\ r.pc = "check" /\ r.sent = IdleRun.sent
      BY IdleRunIs DEF RunRecords
    <2> HIDE DEF r
    <2>2. QED
      BY <2>1, IdleRunIs
  <1>8. run[s][a] \in RunRecords
    BY <1>3 DEF NodesInv, NodesTypes
  <1> HIDE DEF k, r
  <1>9. SlotOk(s, k)
    BY <1>2, <1>3, <1>6 DEF SlotOk, Excuse, Attempts
  <1>10. RunOk(s, r, k)
    BY <1>7 DEF RunOk
  <1>11. k.applied + Due(s, r) + Coming(s, k) + slot[s].repeats
            <= slot[s].applied + Due(s, run[s][a]) + Coming(s, slot[s]) + k.repeats
    <2>1. Due(s, r) = Profile(s).effects /\ Coming(s, k) = 0
      BY <1>6, <1>7 DEF Due, Coming
    <2>2. Coming(s, slot[s]) = Profile(s).effects
      BY <1>1 DEF Coming
    <2>3. Due(s, run[s][a]) \in Nat
      BY <1>8, DueIs DEF NodesInv
    <2>4. QED
      BY <1>2, <1>6, <2>1, <2>2, <2>3 DEF Sound, SlotRecords
  <1>12. Fits(s, a, r, k)
    BY <1>2, <1>5, <1>6, <1>7, <1>9, <1>10, <1>11 DEF Fits, SlotRecords
  <1>13. SlotsKept
    BY <1>1, <1>3, <1>4, <1>12, OneRunMoves
  <1>14. \A t \in Slots : slot'[t].applied > 0 => slot[t].applied > 0
    BY <1>4, <1>6 DEF NodesInv, NodesTypes
  <1>15. RemoteKept
    BY <1>1 DEF RemoteKept, CacheShape, NodesInv, NodesTypes
  <1>16. QED
    BY <1>1, <1>13, <1>14, <1>15, AttributesKept, Assembled DEF NodesInv, NodesTypes

LEMMA TimesOutKeeps ==
    ASSUME NodesInv, NEW s \in Slots, TimesOut(s)
    PROVE  NodesInv'
  <1> DEFINE again == [slot[s] EXCEPT !.phase = "queued", !.repeats = @ + Profile(s).effects]
             over == [slot[s] EXCEPT !.phase = "decided", !.verdict = "error"]
             k == IF slot[s].attempt < 2 THEN again ELSE over
             r == run[s][1]
  <1>1. /\ UNCHANGED <<node, run, circuit, crm, attributes, cache, stale, outages>>
        /\ slot[s].phase = "running" /\ slot' = [slot EXCEPT ![s] = k]
        /\ Trouble \/ NoTrouble
    <2>1. slot' = [slot EXCEPT ![s] = k]
      BY DEF TimesOut, NodesInv, NodesTypes
    <2> HIDE DEF k
    <2>2. QED
      BY <2>1 DEF TimesOut, remote
  <1>2. /\ slot[s] \in SlotRecords /\ r \in RunRecords /\ Sound(Profile(s))
        /\ SlotOk(s, slot[s]) /\ RunOk(s, r, slot[s]) /\ 1 \in Attempts
    BY ProfileIs DEF NodesInv, NodesTypes, SlotInv, Attempts
  <1>3. /\ k \in SlotRecords
        /\ k.attempt = slot[s].attempt /\ k.lack = slot[s].lack
        /\ k.applied = slot[s].applied /\ k.lied = slot[s].lied /\ k.blind = slot[s].blind
        /\ \/ /\ slot[s].attempt < 2 /\ k.phase = "queued" /\ k.verdict = slot[s].verdict
              /\ k.repeats = slot[s].repeats + Profile(s).effects
           \/ k.phase = "decided" /\ k.verdict = "error" /\ k.repeats = slot[s].repeats
    <2>1. CASE slot[s].attempt < 2
      <3>1. k = again
        BY <2>1
      <3>2. slot[s].repeats + Profile(s).effects \in Nat
        BY <1>2 DEF Sound, SlotRecords
      <3>3. again \in SlotRecords
        BY <1>2, <3>2 DEF SlotRecords
      <3>4. /\ again.attempt = slot[s].attempt /\ again.lack = slot[s].lack
            /\ again.applied = slot[s].applied /\ again.lied = slot[s].lied
            /\ again.blind = slot[s].blind /\ again.phase = "queued"
            /\ again.verdict = slot[s].verdict
            /\ again.repeats = slot[s].repeats + Profile(s).effects
        BY <1>2 DEF SlotRecords
      <3> HIDE DEF k, again
      <3>5. QED
        BY <2>1, <3>1, <3>3, <3>4
    <2>2. CASE ~(slot[s].attempt < 2)
      <3>1. k = over
        BY <2>2
      <3>2. over \in SlotRecords
        BY <1>2 DEF SlotRecords, Verdicts
      <3>3. /\ over.attempt = slot[s].attempt /\ over.lack = slot[s].lack
            /\ over.applied = slot[s].applied /\ over.lied = slot[s].lied
            /\ over.blind = slot[s].blind /\ over.phase = "decided"
            /\ over.verdict = "error" /\ over.repeats = slot[s].repeats
        BY <1>2 DEF SlotRecords
      <3> HIDE DEF k, over
      <3>4. QED
        BY <3>1, <3>2, <3>3
    <2>3. QED
      BY <2>1, <2>2
  <1> HIDE DEF k
  <1>4. SlotOk(s, k)
    BY <1>2, <1>3 DEF SlotOk, Excuse, SlotRecords
  <1>5. RunOk(s, r, k)
    BY <1>2, <1>3 DEF RunOk
  <1>6. k.applied + Due(s, r) + Coming(s, k) + slot[s].repeats
            <= slot[s].applied + Due(s, r) + Coming(s, slot[s]) + k.repeats
    <2>1. Coming(s, slot[s]) = 0
      BY <1>1 DEF Coming
    <2>2. \/ Coming(s, k) = Profile(s).effects /\ k.repeats = slot[s].repeats + Profile(s).effects
          \/ Coming(s, k) = 0 /\ k.repeats = slot[s].repeats
      BY <1>3 DEF Coming
    <2>3. Due(s, r) \in Nat /\ Profile(s).effects \in Nat
      BY <1>2, DueIs DEF NodesInv, Sound
    <2>4. QED
      BY <1>2, <1>3, <2>1, <2>2, <2>3 DEF SlotRecords
  <1>7. Fits(s, 1, r, k)
    BY <1>2, <1>3, <1>4, <1>5, <1>6 DEF Fits, SlotRecords
  <1>8. Advances(s, 1, r)
    BY <1>1 DEF Advances, NodesInv, NodesTypes, Attempts
  <1>9. SlotsKept
    BY <1>1, <1>2, <1>7, <1>8, OneRunMoves
  <1>10. \A t \in Slots : slot'[t].applied > 0 => slot[t].applied > 0
    BY <1>1, <1>3 DEF NodesInv, NodesTypes
  <1>11. RemoteKept
    BY <1>1 DEF RemoteKept, CacheShape, NodesInv, NodesTypes
  <1>12. QED
    BY <1>1, <1>9, <1>10, <1>11, TroubleCounts, AttributesKept, Assembled

\* The CRM, the cached contact and the worker process.
LEMMA SurroundingsKeep ==
    ASSUME NodesInv, Outage \/ Recovery \/ Expire
    PROVE  NodesInv'
  <1>1. UNCHANGED <<node, slot, run, circuit, attributes, stale, outages>>
    BY DEF Outage, Recovery, Expire
  <1>2. crm' \in {"up", "down"} /\ (cache' = cache \/ cache' = NoCopy) /\ (Trouble \/ NoTrouble)
    BY DEF Outage, Recovery, Expire, NodesInv, NodesTypes, NoTrouble
  <1>3. SlotsKept
    BY <1>1, SlotsSame
  <1>4. RemoteKept
    BY <1>1, <1>2 DEF RemoteKept, CacheShape, NodesInv, NodesTypes
  <1>5. QED
    BY <1>1, <1>2, <1>3, <1>4, TroubleCounts, AttributesKept, Assembled

LEMMA WorkerEndsKeeps ==
    ASSUME NodesInv, WorkerDies
    PROVE  NodesInv'
  <1>1. /\ UNCHANGED <<node, slot, crm, attributes, stale, outages>>
        /\ run' = [s \in Slots |-> [a \in Attempts |-> IdleRun]]
        /\ circuit' = ClosedCircuit /\ cache' = NoCopy /\ Trouble
    BY DEF WorkerDies
  <1>2. ASSUME NEW s \in Slots  PROVE SlotInv(s)'
    <2>1. SlotInv(s) /\ Profile(s)' = Profile(s) /\ (Acts(s)' <=> Acts(s))
      BY <1>1 DEF NodesInv, Profile, Acts
    <2>2. SlotOk(s, slot[s])'
      BY <1>1, <2>1 DEF SlotInv, SlotOk, Excuse
    <2>3. ASSUME NEW a \in Attempts  PROVE run'[s][a] = IdleRun
      BY <1>1
    <2>4. \A a \in Attempts : RunOk(s, run[s][a], slot[s])'
      BY <2>3, IdleRunIs DEF RunOk
    <2>5. Due(s, run[s][1])' = 0 /\ Due(s, run[s][2])' = 0
      BY <2>3, IdleRunIs DEF Due, Attempts
    <2>6. Coming(s, slot[s])' = Coming(s, slot[s])
      BY <1>1, <2>1 DEF Coming
    <2>7. /\ slot[s] \in SlotRecords /\ run[s][1] \in RunRecords /\ run[s][2] \in RunRecords
          /\ Profile(s).effects \in Nat
      BY ProfileIs DEF NodesInv, NodesTypes, Attempts, Sound
    <2>8. /\ Due(s, run[s][1]) \in Nat /\ Due(s, run[s][2]) \in Nat
          /\ Coming(s, slot[s]) \in Nat
      BY <2>7, DueIs, ComingIs DEF NodesInv
    <2>9. slot[s].applied + Due(s, run[s][1]) + Due(s, run[s][2]) + Coming(s, slot[s])
            <= Profile(s).effects + slot[s].repeats
      BY <2>1 DEF SlotInv
    <2>10. slot[s].applied + 0 + 0 + Coming(s, slot[s]) <= Profile(s).effects + slot[s].repeats
      BY <2>7, <2>8, <2>9 DEF SlotRecords
    <2>11. QED
      BY <1>1, <2>1, <2>2, <2>4, <2>5, <2>6, <2>10 DEF SlotInv
  <1>3. run' \in [Slots -> [Attempts -> RunRecords]]
    BY <1>1, IdleRunIs
  <1>4. SlotsKept
    BY <1>1, <1>2, <1>3 DEF SlotsKept, NodesInv, NodesTypes
  <1>5. ClosedCircuit \in Circuits
    BY ThresholdAssumption DEF ClosedCircuit, Circuits
  <1>6. RemoteKept
    BY <1>1, <1>5 DEF RemoteKept, CacheShape, NodesInv, NodesTypes
  <1>7. QED
    BY <1>1, <1>4, <1>6, TroubleCounts, AttributesKept, Assembled

LEMMA NodesBegin == NodesInit => NodesInv
  <1> SUFFICES ASSUME NodesInit  PROVE NodesInv
    OBVIOUS
  <1>1. FreeSlot \in SlotRecords /\ ClosedCircuit \in Circuits
    BY ThresholdAssumption DEF FreeSlot, SlotRecords, Verdicts, ClosedCircuit, Circuits
  <1>2. NodesTypes /\ CacheShape
    <2>1. node \in [Slots -> Nodes] /\ troubles \in 0 .. MaxTroubles
      BY NodesAssumption DEF NodesInit
    <2>2. slot \in [Slots -> SlotRecords] /\ run \in [Slots -> [Attempts -> RunRecords]]
      BY <1>1, IdleRunIs DEF NodesInit
    <2>3. QED
      BY <1>1, <2>1, <2>2 DEF NodesInit, NodesTypes, CacheShape
  <1>3. ASSUME NEW s \in Slots  PROVE SlotInv(s)
    <2>1. slot[s] = FreeSlot /\ \A a \in Attempts : run[s][a] = IdleRun
      BY DEF NodesInit
    <2>2. SlotOk(s, slot[s])
      BY <2>1 DEF SlotOk, FreeSlot
    <2>3. \A a \in Attempts : RunOk(s, run[s][a], slot[s])
      BY <2>1, IdleRunIs DEF RunOk
    <2>4. Due(s, run[s][1]) = 0 /\ Due(s, run[s][2]) = 0
      BY <2>1, IdleRunIs DEF Attempts
    <2>5. Coming(s, slot[s]) = 0 /\ slot[s].applied = 0 /\ slot[s].repeats = 0
      BY <2>1 DEF Coming, FreeSlot
    <2>6. QED
      BY <1>2, <2>2, <2>3, <2>4, <2>5, ProfileIs DEF SlotInv, Sound
  <1>4. AttributesLostOnlyToStaleCopies
    BY DEF NodesInit, AttributesLostOnlyToStaleCopies, FreeSlot
  <1>5. QED
    BY <1>2, <1>3, <1>4 DEF NodesInv, NodesInit

LEMMA NodesGoOn ==
    ASSUME NodesInv, [NodesStep]_nodeVars
    PROVE  NodesInv'
  <1>1. CASE UNCHANGED nodeVars
    BY <1>1, SlotsSame DEF nodeVars, NodesInv, NodesTypes, SlotsKept, CacheShape,
           AttributesLostOnlyToStaleCopies, IsAttribute
  <1>2. CASE NodesStep
    BY <1>2, BeginKeeps, StartKeeps, TimesOutKeeps, CheckKeeps, ReadKeeps, WriteKeeps,
       VerifyKeeps, SurroundingsKeep, WorkerEndsKeeps DEF NodesStep, RunStep
  <1>3. QED
    BY <1>1, <1>2

LEMMA NodesInvSuffices == NodesInv => ReportsMatchEffects
  <1> SUFFICES ASSUME NodesInv  PROVE ReportsMatchEffects
    OBVIOUS
  <1>1. NodesTyped
    BY DEF NodesInv, NodesTypes, CacheShape, NodesTyped
  <1>2. NoSilentSuccess
    BY DEF NodesInv, SlotInv, SlotOk, Excuse, NoSilentSuccess
  <1>3. ASSUME NEW s \in Slots
        PROVE  slot[s].applied <= Profile(s).effects + slot[s].repeats
    <2>1. /\ slot[s] \in SlotRecords /\ run[s][1] \in RunRecords /\ run[s][2] \in RunRecords
          /\ Profile(s).effects \in Nat
      BY ProfileIs DEF NodesInv, NodesTypes, Attempts, Sound
    <2>2. /\ Due(s, run[s][1]) \in Nat /\ Due(s, run[s][2]) \in Nat
          /\ Coming(s, slot[s]) \in Nat
      BY <2>1, DueIs, ComingIs DEF NodesInv
    <2>3. slot[s].applied + Due(s, run[s][1]) + Due(s, run[s][2]) + Coming(s, slot[s])
            <= Profile(s).effects + slot[s].repeats
      BY DEF NodesInv, SlotInv
    <2>4. QED
      BY <2>1, <2>2, <2>3 DEF SlotRecords
  <1>4. QED
    BY <1>1, <1>2, <1>3 DEF ReportsMatchEffects, OneEffectPerInterruption, NodesInv

\* However many nodes run side by side, with whatever attempts, lost answers and
\* crashes: a node's verdict is never a silent success, its effects exceed those of
\* one run only by the interruptions that may repeat them, and only unavailability
\* takes the circuit of the CRM client away from where it began.
THEOREM NodesReportWhatTheyDid == NodesSpec => []ReportsMatchEffects
  <1>1. NodesInit => NodesInv
    BY NodesBegin
  <1>2. NodesInv /\ [NodesStep]_nodeVars => NodesInv'
    BY NodesGoOn
  <1>3. NodesInv => ReportsMatchEffects
    BY NodesInvSuffices
  <1>4. QED
    BY <1>1, <1>2, <1>3, PTL DEF NodesSpec

\* And the custom attributes nodes wrote (UpdateCustomAttributeNode) are lost only
\* to a node that wrote back an out-of-date copy of the contact.
THEOREM AttributesAreKept == NodesSpec => []AttributesLostOnlyToStaleCopies
  <1>1. NodesInit => NodesInv
    BY NodesBegin
  <1>2. NodesInv /\ [NodesStep]_nodeVars => NodesInv'
    BY NodesGoOn
  <1>3. NodesInv => AttributesLostOnlyToStaleCopies
    BY DEF NodesInv
  <1>4. QED
    BY <1>1, <1>2, <1>3, PTL DEF NodesSpec
-----------------------------------------------------------------------------
(* The sessions of journeys (ConditionalPaths).                            *)

FlowPcs == {"start", "started", "node", "contact", "stage", "decide", "recording", "moving",
            "stays", "ended", "failed"}

Variables == [Names -> Values]

ContactFacts == {Missing, 1}
StageFacts == {{}, {1}, {1, 2}}

TaskRecords ==
    [pc : {"idle", "read", "redis", "row"}, copy : Variables, left : Int, try : 1 .. 2]

SessionTypes ==
    /\ program \in Programs
    /\ flow \in [pc : FlowPcs, at : DOMAIN program, vars : Variables, steps : Nat, goal : Values,
                 contact : ContactFacts, stage : StageFacts, handle : {flow.handle}]
    /\ row \in Variables
    /\ redis = {} \/ \E v \in Variables : redis = {v}
    /\ task \in [Tasks -> TaskRecords]
    /\ facts \in [contact : ContactFacts, stage : StageFacts]
    /\ during \in [contact : SUBSET ContactFacts, stage : SUBSET StageFacts]
    /\ facts.contact \in during.contact /\ facts.stage \in during.stage
    /\ total \in Int
    /\ overwritten \in BOOLEAN /\ blind \in BOOLEAN

\* A record that defines no variable the workflow does not have.
Behind(v) == \A n \in Names : flow.vars[n] = Missing => v[n] = Missing

\* The activity that writes the variables runs only while the workflow waits for
\* it; before its write is done the record is behind, then it is the same.
RecordInv ==
    /\ flow.pc \notin {"recording", "failed"} => task["vars"].pc = "idle"
    /\ ~overwritten => flow.vars["count"] = total
    /\ ~overwritten /\ flow.pc # "failed" =>
          /\ Behind(row) /\ \A v \in redis : Behind(v)
          /\ task["vars"].pc = "idle" => row = flow.vars /\ redis \subseteq {row}
          /\ task["vars"].pc \in {"redis", "row"} => task["vars"].copy = flow.vars

\* What a branching node has loaded, unless it had to go on without.
LoadedInv ==
    ~overwritten /\ ~blind =>
        /\ flow.pc \in {"contact", "stage", "decide"} => flow.goal = flow.vars["goal"]
        /\ flow.pc \in {"stage", "decide"} /\ Needs("contact") => flow.contact \in during.contact
        /\ flow.pc = "decide" /\ Needs("stage") => flow.stage \in during.stage

SessionInv == SessionTypes /\ RecordInv /\ LoadedInv /\ ~wrong

LEMMA CurrentIs ==
    ASSUME row \in Variables, redis = {} \/ \E v \in Variables : redis = {v}
    PROVE  /\ Current \in Variables
           /\ redis = {} => Current = row
           /\ \A v : redis = {v} => Current = v
  <1>1. CASE redis = {}
    BY <1>1 DEF Current
  <1>2. CASE redis # {}
    <2>1. PICK v \in Variables : redis = {v}
      BY <1>2
    <2>2. Current = v
      BY <2>1 DEF Current
    <2>3. QED
      BY <1>2, <2>1, <2>2
  <1>3. QED
    BY <1>1, <1>2

LEMMA MergeIs ==
    ASSUME NEW old \in Variables, NEW new \in Variables
    PROVE  /\ Merge(old, new) \in Variables
           /\ \A n \in Names : Merge(old, new)[n] = IF new[n] = Missing THEN old[n] ELSE new[n]
  BY DEF Merge, Variables

\* What is behind the variables of the workflow becomes the same when they are
\* merged into it.
LEMMA BehindCatchesUp ==
    ASSUME NEW v \in Variables, flow.vars \in Variables, Behind(v)
    PROVE  Merge(v, flow.vars) = flow.vars
  <1>1. \A n \in Names : Merge(v, flow.vars)[n] = flow.vars[n]
    BY MergeIs DEF Behind
  <1>2. QED
    BY <1>1, MergeIs DEF Variables

LEMMA RecordIsBehind ==
    ASSUME SessionInv, ~overwritten, flow.pc # "failed"
    PROVE  /\ Current \in Variables /\ Behind(Current)
           /\ task["vars"].pc = "idle" => Current = flow.vars
  BY CurrentIs DEF SessionInv, SessionTypes, RecordInv

\* The choice of a path needs only the facts its conditions name.
LEMMA MatchedNeeds ==
    ASSUME NEW c, NEW d, NEW s, NEW t, NEW known, NEW goal,
           Needs("contact") => c = d, Needs("stage") => s = t
    PROVE  Matched(c, s, known, goal) = Matched(d, t, known, goal)
  <1>1. ASSUME NEW p \in DOMAIN Here.paths, NEW x \in Range(Here.paths[p].conditions)
        PROVE  Holds(x, c, s, known, goal) <=> Holds(x, d, t, known, goal)
    <2>1. x \in ConditionsOf(Here)
      BY <1>1 DEF ConditionsOf, Range
    <2>2. (x.of = "contact" => c = d) /\ (x.of = "stage" => s = t)
      BY <2>1 DEF Needs
    <2>3. QED
      BY <2>2, Zenon DEF Holds
  <1>2. ASSUME NEW p \in DOMAIN Here.paths
        PROVE  PathHolds(Here.paths[p], c, s, known, goal) <=> PathHolds(Here.paths[p], d, t, known, goal)
    BY <1>1, Zenon DEF PathHolds
  <1>3. {p \in DOMAIN Here.paths : PathHolds(Here.paths[p], c, s, known, goal)}
            = {p \in DOMAIN Here.paths : PathHolds(Here.paths[p], d, t, known, goal)}
    BY <1>2
  <1> DEFINE C == {p \in DOMAIN Here.paths : PathHolds(Here.paths[p], c, s, known, goal)}
             D == {p \in DOMAIN Here.paths : PathHolds(Here.paths[p], d, t, known, goal)}
  <1>4. Matched(c, s, known, goal) = IF C = {} THEN 0 ELSE CHOOSE p \in C : \A q \in C : p <= q
    BY Zenon DEF Matched
  <1>5. Matched(d, t, known, goal) = IF D = {} THEN 0 ELSE CHOOSE p \in D : \A q \in D : p <= q
    BY Zenon DEF Matched
  <1>6. C = D
    BY <1>3
  <1> HIDE DEF C, D
  <1>7. QED
    BY <1>4, <1>5, <1>6

LEMMA HereStays ==
    ASSUME program' = program, flow'.at = flow.at, NEW fact
    PROVE  Needs(fact)' <=> Needs(fact)
  BY DEF Needs, ConditionsOf, Here

\* Steps of the workflow that leave its variables and the activities alone.
LEMMA WalksOn ==
    ASSUME SessionInv, RecordKept, UNCHANGED <<total, wrong>>,
           flow' \in [pc : FlowPcs, at : DOMAIN program, vars : {flow.vars}, steps : Nat,
                      goal : Values, contact : ContactFacts, stage : StageFacts,
                      handle : {flow.handle}],
           flow.pc # "failed", task["vars"].pc = "idle",
           task' \in [Tasks -> TaskRecords],
           task'["vars"].pc = "idle",
           during' \in [contact : SUBSET ContactFacts, stage : SUBSET StageFacts],
           facts.contact \in during'.contact, facts.stage \in during'.stage,
           blind' \in BOOLEAN, LoadedInv'
    PROVE  SessionInv'
  <1>1. flow'.vars = flow.vars
    OBVIOUS
  <1>2. SessionTypes'
    BY DEF SessionInv, SessionTypes, RecordKept
  <1>3. RecordInv'
    BY <1>1 DEF SessionInv, RecordInv, RecordKept, Behind
  <1>4. QED
    BY <1>2, <1>3 DEF SessionInv

\* A task as the workflow starts it, and as it is after a first failure.
LEMMA IdleIs ==
    /\ IdleTask \in TaskRecords /\ IdleTask.pc = "idle"
    /\ \A left \in Int :
          /\ [IdleTask EXCEPT !.pc = "read", !.left = left] \in TaskRecords
          /\ [IdleTask EXCEPT !.pc = "read", !.left = left].pc = "read"
    /\ [IdleTask EXCEPT !.pc = "read", !.left = 1, !.try = 2] \in TaskRecords
    /\ [IdleTask EXCEPT !.pc = "read", !.left = 1, !.try = 2].pc = "read"
  <1>1. NoVariables \in Variables
    BY DEF NoVariables, Variables, Values
  <1>2. IdleTask \in TaskRecords /\ IdleTask.pc = "idle"
    BY <1>1 DEF TaskRecords, IdleTask
  <1>3. ASSUME NEW left \in Int, NEW r \in TaskRecords
        PROVE  /\ [r EXCEPT !.pc = "read", !.left = left] \in TaskRecords
               /\ [r EXCEPT !.pc = "read", !.left = left].pc = "read"
    BY DEF TaskRecords
  <1>4. ASSUME NEW r \in TaskRecords, NEW left \in Int, NEW try \in 1 .. 2
        PROVE  /\ [r EXCEPT !.pc = "read", !.left = left, !.try = try] \in TaskRecords
               /\ [r EXCEPT !.pc = "read", !.left = left, !.try = try].pc = "read"
    BY DEF TaskRecords
  <1>5. 1 \in Int /\ 2 \in 1 .. 2
    OBVIOUS
  <1>6. /\ [IdleTask EXCEPT !.pc = "read", !.left = 1, !.try = 2] \in TaskRecords
        /\ [IdleTask EXCEPT !.pc = "read", !.left = 1, !.try = 2].pc = "read"
    BY <1>2, <1>4, <1>5, Zenon
  <1>7. QED
    BY <1>2, <1>3, <1>6

LEMMA LaunchedType ==
    ASSUME SessionTypes, NEW ts \in SUBSET Tasks
    PROVE  /\ Launched(ts) \in [Tasks -> TaskRecords]
           /\ \A t \in Tasks : Launched(ts)[t].pc = IF t \in ts THEN "read" ELSE task[t].pc
  <1>1. ASSUME NEW t \in Tasks
        PROVE  /\ Launched(ts)[t] \in TaskRecords
               /\ Launched(ts)[t].pc = IF t \in ts THEN "read" ELSE task[t].pc
    <2>1. CASE t \in ts
      <3> DEFINE left == IF t = "log" THEN 2 ELSE 1
      <3>1. Launched(ts)[t] = [IdleTask EXCEPT !.pc = "read", !.left = left]
        BY <2>1 DEF Launched
      <3>2. left \in Int
        OBVIOUS
      <3> HIDE DEF left
      <3>3. QED
        BY <2>1, <3>1, <3>2, IdleIs
    <2>2. CASE t \notin ts
      BY <2>2 DEF Launched, SessionTypes
    <2>3. QED
      BY <2>1, <2>2
  <1>2. QED
    BY <1>1 DEF Launched

LEMMA StartNodeKeeps ==
    ASSUME SessionInv, StartNode
    PROVE  SessionInv'
  <1>1. SessionTypes /\ task["vars"].pc = "idle" /\ "vars" \in Tasks
    BY DEF SessionInv, RecordInv, StartNode, Tasks
  <1>2. task' \in [Tasks -> TaskRecords] /\ task'["vars"].pc = "idle"
    BY <1>1, LaunchedType DEF StartNode, Tasks
  <1>3. flow' = [flow EXCEPT !.pc = "started", !.steps = flow.steps + 1]
    BY DEF StartNode
  <1>4. LoadedInv'
    BY <1>1, <1>3 DEF SessionTypes, LoadedInv
  <1>5. /\ during' \in [contact : SUBSET ContactFacts, stage : SUBSET StageFacts]
        /\ facts.contact \in during'.contact /\ facts.stage \in during'.stage
    BY <1>1 DEF StartNode, SessionTypes
  <1>6. QED
    <2>1. flow' \in [pc : FlowPcs, at : DOMAIN program, vars : {flow.vars}, steps : Nat,
                     goal : Values, contact : ContactFacts, stage : StageFacts,
                     handle : {flow.handle}]
      <3> DEFINE n == flow.steps + 1
      <3>1. n \in Nat /\ flow' = [flow EXCEPT !.pc = "started", !.steps = n]
        BY <1>1, <1>3 DEF SessionTypes
      <3> HIDE DEF n
      <3>2. QED
        BY <1>1, <3>1 DEF SessionTypes, FlowPcs
    <2>2. QED
      BY <1>1, <1>2, <1>4, <1>5, <2>1, WalksOn DEF StartNode, SessionTypes

LEMMA ExecuteKeeps ==
    ASSUME SessionInv, Execute
    PROVE  SessionInv'
  <1>1. SessionTypes /\ task["vars"].pc = "idle"
    BY DEF SessionInv, RecordInv, Execute
  <1>2. PICK p \in {"ended", "node"} : flow' = [flow EXCEPT !.pc = p]
    BY DEF Execute, Proceeds
  <1>3. LoadedInv'
    BY <1>1, <1>2 DEF SessionTypes, LoadedInv
  <1>4. QED
    BY <1>1, <1>2, <1>3, WalksOn DEF Execute, SessionTypes, FlowPcs

LEMMA InterpolateKeeps ==
    ASSUME SessionInv, Interpolate
    PROVE  SessionInv'
  <1>1. SessionTypes /\ task["vars"].pc = "idle" /\ flow.pc = "node"
    BY DEF SessionInv, RecordInv, Interpolate, Branching
  <1>2. PICK g \in Values :
            /\ flow' = [flow EXCEPT !.pc = "contact", !.goal = g]
            /\ blind' = TRUE \/ (blind' = blind /\ g = Current["goal"])
    BY <1>1, CurrentIs DEF Interpolate, SessionTypes, Variables, Names, Values
  <1>3. LoadedInv'
    BY <1>1, <1>2, RecordIsBehind DEF SessionTypes, LoadedInv, Interpolate, RecordKept
  <1>4. QED
    BY <1>1, <1>2, <1>3, WalksOn DEF Interpolate, SessionTypes, FlowPcs

\* A node that fails ends the walk.
LEMMA FailureKeeps ==
    ASSUME SessionInv, Proceeds("failed"), RecordKept, UNCHANGED <<task, during, blind, total, wrong>>
    PROVE  SessionInv'
  <1>1. SessionTypes'
    BY DEF SessionInv, SessionTypes, Proceeds, RecordKept, FlowPcs
  <1>2. flow'.pc = "failed" /\ flow'.vars = flow.vars
    BY DEF SessionInv, SessionTypes, Proceeds
  <1>3. RecordInv' /\ LoadedInv'
    BY <1>2 DEF SessionInv, RecordInv, LoadedInv, RecordKept
  <1>4. QED
    BY <1>1, <1>3 DEF SessionInv

LEMMA LoadContactKeeps ==
    ASSUME SessionInv, LoadContact
    PROVE  SessionInv'
  <1>1. SessionTypes /\ task["vars"].pc = "idle" /\ flow.pc = "contact"
    BY DEF SessionInv, RecordInv, LoadContact
  <1> DEFINE c == IF Needs("contact") THEN facts.contact ELSE Missing
  <1>2. CASE flow' = [flow EXCEPT !.pc = "stage", !.contact = c]
    <2>1. c \in ContactFacts /\ (Needs("contact") => c \in during.contact)
      BY <1>1 DEF SessionTypes, ContactFacts
    <2> HIDE DEF c
    <2>2. /\ flow'.at = flow.at /\ flow'.vars = flow.vars /\ flow'.pc = "stage"
          /\ flow'.goal = flow.goal /\ flow'.contact = c
      BY <1>1, <1>2 DEF SessionTypes
    <2>3. program' = program /\ during' = during /\ blind' = blind /\ overwritten' = overwritten
      BY DEF LoadContact, RecordKept
    <2>4. LoadedInv'
      BY <1>1, <2>1, <2>2, <2>3, HereStays DEF SessionInv, LoadedInv
    <2>5. QED
      BY <1>1, <1>2, <2>1, <2>4, WalksOn DEF LoadContact, SessionTypes, FlowPcs
  <1>3. CASE Proceeds("failed")
    BY <1>3, FailureKeeps DEF LoadContact
  <1>4. QED
    BY <1>2, <1>3 DEF LoadContact

LEMMA LoadConversationKeeps ==
    ASSUME SessionInv, LoadConversation
    PROVE  SessionInv'
  <1>1. SessionTypes /\ task["vars"].pc = "idle" /\ flow.pc = "stage"
    BY DEF SessionInv, RecordInv, LoadConversation
  <1>2. PICK s \in StageFacts :
            /\ flow' = [flow EXCEPT !.pc = "decide", !.stage = s]
            /\ blind' = TRUE \/ (blind' = blind /\ (Needs("stage") => s \in during.stage))
    <2>1. {} \in StageFacts /\ facts.stage \in StageFacts /\ facts.stage \in during.stage
      BY <1>1 DEF SessionTypes, StageFacts
    <2>2. CASE blind' = TRUE /\ flow' = [flow EXCEPT !.pc = "decide", !.stage = {}]
      BY <2>1, <2>2
    <2>3. CASE blind' = blind /\ flow' = [flow EXCEPT !.pc = "decide",
                                                   !.stage = IF Needs("stage") THEN facts.stage ELSE {}]
      BY <2>1, <2>3, Zenon
    <2>4. QED
      BY <2>2, <2>3 DEF LoadConversation
  <1>3. /\ flow'.at = flow.at /\ flow'.vars = flow.vars /\ flow'.pc = "decide"
        /\ flow'.goal = flow.goal /\ flow'.contact = flow.contact /\ flow'.stage = s
    BY <1>1, <1>2 DEF SessionTypes
  <1>4. program' = program /\ during' = during /\ overwritten' = overwritten
    BY DEF LoadConversation, RecordKept
  <1>5. LoadedInv'
    BY <1>1, <1>2, <1>3, <1>4, HereStays DEF SessionInv, LoadedInv
  <1>6. QED
    BY <1>1, <1>2, <1>5, WalksOn DEF LoadConversation, SessionTypes, FlowPcs

LEMMA MoveKeeps ==
    ASSUME SessionInv, Move
    PROVE  SessionInv'
  <1>1. SessionTypes /\ task["vars"].pc = "idle" /\ flow.pc = "recording"
    BY DEF SessionInv, Move, Settled
  <1>2. CASE Target \in DOMAIN program /\ flow' = [flow EXCEPT !.pc = "moving", !.at = Target]
             /\ task' = Launched({"place"})
    <2>1. task' \in [Tasks -> TaskRecords] /\ task'["vars"].pc = "idle"
      BY <1>1, <1>2, LaunchedType DEF Tasks
    <2>2. LoadedInv'
      BY <1>1, <1>2 DEF SessionTypes, LoadedInv
    <2>3. QED
      BY <1>1, <1>2, <2>1, <2>2, WalksOn DEF Move, SessionTypes, FlowPcs
  <1>3. CASE Proceeds("stays") /\ UNCHANGED task
    <2>1. LoadedInv'
      BY <1>1, <1>3 DEF SessionTypes, LoadedInv, Proceeds
    <2>2. QED
      BY <1>1, <1>3, <2>1, WalksOn DEF Move, SessionTypes, Proceeds, FlowPcs
  <1>4. QED
    BY <1>2, <1>3 DEF Move

LEMMA ArriveKeeps ==
    ASSUME SessionInv, Arrive
    PROVE  SessionInv'
  <1>1. SessionTypes /\ task["vars"].pc = "idle" /\ flow' = [flow EXCEPT !.pc = "start"]
    BY DEF SessionInv, RecordInv, Arrive, Proceeds
  <1>2. LoadedInv'
    BY <1>1 DEF SessionTypes, LoadedInv
  <1>3. QED
    BY <1>1, <1>2, WalksOn DEF Arrive, SessionTypes, FlowPcs

\* A node that succeeds: the record is what the workflow held before, so it is
\* behind what it holds now.
LEMMA SuccessKeeps ==
    ASSUME SessionInv, NEW known \in Variables, NEW handle, Succeed(known, handle), RecordKept,
           UNCHANGED during, blind' \in BOOLEAN, total' \in Int, flow.pc \notin {"recording", "failed"},
           ~overwritten => total' = flow'.vars["count"], ~wrong'
    PROVE  SessionInv'
  <1>1. SessionTypes /\ task["vars"].pc = "idle" /\ program' = program
    BY DEF SessionInv, RecordInv, RecordKept
  <1>2. flow' = [flow EXCEPT !.pc = "recording", !.vars = Merge(flow.vars, known), !.handle = handle]
    BY DEF Succeed
  <1>3. flow.vars \in Variables /\ Merge(flow.vars, known) \in Variables
    BY <1>1, MergeIs DEF SessionTypes
  <1>4. /\ flow'.pc = "recording" /\ flow'.vars = Merge(flow.vars, known)
        /\ flow' \in [pc : FlowPcs, at : DOMAIN program, vars : Variables, steps : Nat, goal : Values,
                      contact : ContactFacts, stage : StageFacts, handle : {flow'.handle}]
    BY <1>1, <1>2, <1>3 DEF SessionTypes, FlowPcs
  <1>5. /\ task' \in [Tasks -> TaskRecords]
        /\ task'["vars"].pc = "read"
    <2>1. {"log", "vars"} \in SUBSET Tasks /\ "starter" \in Tasks
      BY DEF Tasks
    <2>2. task["starter"] \in TaskRecords
      BY <1>1, <2>1 DEF SessionTypes
    <2> DEFINE launched == Launched({"log", "vars"})
    <2>3. task' = [launched EXCEPT !["starter"] = task["starter"]]
      BY DEF Succeed
    <2>4. /\ launched \in [Tasks -> TaskRecords]
          /\ launched["vars"].pc = "read"
      BY <1>1, <2>1, LaunchedType DEF Tasks
    <2> HIDE DEF launched
    <2>5. QED
      BY <2>1, <2>2, <2>3, <2>4
  <1>6. SessionTypes'
    BY <1>1, <1>4, <1>5 DEF SessionTypes, RecordKept
  <1>7. ASSUME ~overwritten, NEW v, v = flow.vars
        PROVE  Behind(v)'
    BY <1>3, <1>4, <1>7, MergeIs DEF Behind
  <1>8. ~overwritten => row = flow.vars /\ redis \subseteq {row}
    BY <1>1 DEF SessionInv, RecordInv
  <1>9. RecordInv'
    BY <1>4, <1>5, <1>7, <1>8 DEF RecordInv, RecordKept
  <1>10. LoadedInv'
    BY <1>4 DEF LoadedInv
  <1>11. QED
    BY <1>6, <1>9, <1>10 DEF SessionInv

LEMMA AssignType ==
    ASSUME NEW name \in Names, NEW value \in Values
    PROVE  /\ Assign(name, value) \in Variables
           /\ \A n \in Names : Assign(name, value)[n] = IF n = name THEN value ELSE Missing
  BY DEF Assign, NoVariables, Variables, Values

LEMMA ExecuteTriggerKeeps ==
    ASSUME SessionInv, ExecuteTrigger
    PROVE  SessionInv'
  <1>1. MappedValue(Here.value) \in Values
    BY ProgramsAssumption DEF SessionInv, SessionTypes, ExecuteTrigger, Here
  <1> DEFINE v == MappedValue(Here.value)
             new == Assign("goal", v)
  <1>2. new \in Variables /\ new["count"] = Missing /\ Succeed(new, 0)
    BY <1>1, AssignType DEF Names, ExecuteTrigger
  <1> HIDE DEF new
  <1>3. flow'.vars = Merge(flow.vars, new) /\ flow.vars \in Variables
    BY <1>2 DEF SessionInv, SessionTypes, Succeed
  <1>4. flow'.vars["count"] = flow.vars["count"]
    BY <1>2, <1>3, MergeIs DEF Names
  <1>5. QED
    BY <1>2, <1>4, SuccessKeeps DEF SessionInv, SessionTypes, RecordInv, ExecuteTrigger

LEMMA ExecuteSetKeeps ==
    ASSUME SessionInv, ExecuteSet
    PROVE  SessionInv'
  <1> DEFINE v == Here.value
             new == Assign("count", v)
  <1>1. v \in Values
    BY ProgramsAssumption DEF SessionInv, SessionTypes, ExecuteSet, Here
  <1>2. new \in Variables /\ new["count"] = v /\ Succeed(new, 0)
    BY <1>1, AssignType DEF Names, ExecuteSet
  <1>3. total' = IF v = Missing THEN total ELSE v
    BY DEF ExecuteSet
  <1> HIDE DEF new, v
  <1>4. flow'.vars = Merge(flow.vars, new) /\ flow.vars \in Variables
    BY <1>2 DEF SessionInv, SessionTypes, Succeed
  <1>5. flow'.vars["count"] = IF v = Missing THEN flow.vars["count"] ELSE v
    BY <1>2, <1>4, MergeIs DEF Names
  <1>6. total' \in Int
    BY <1>1, <1>3 DEF SessionInv, SessionTypes, Values, Missing, Blank, Token
  <1>7. ~overwritten => total' = flow'.vars["count"]
    BY <1>3, <1>5 DEF SessionInv, RecordInv
  <1>8. QED
    BY <1>2, <1>6, <1>7, SuccessKeeps DEF SessionInv, SessionTypes, ExecuteSet

LEMMA IncreaseKeeps ==
    ASSUME SessionInv, Increase
    PROVE  SessionInv'
  <1> DEFINE v == Here.value
             sum == Base(row["count"]) + v
             new == Assign("count", sum)
  <1>1. v \in Nat /\ SessionTypes /\ task["vars"].pc = "idle" /\ flow.pc = "node"
    BY ProgramsAssumption DEF SessionInv, SessionTypes, RecordInv, Increase, Here
  <1>2. CASE row["count"] # Token /\ Succeed(new, 0) /\ total' = Base(total) + v
    <2>1. row["count"] \in Values
      BY <1>1 DEF SessionTypes, Variables, Names
    <2>2. sum \in Nat
      BY <1>1, <1>2, <2>1 DEF Base, Values, Missing, Blank, Token
    <2>3. total' \in Int
      BY <1>1, <1>2 DEF SessionTypes, Base
    <2>4. ~overwritten => sum = total'
      BY <1>1, <1>2 DEF SessionInv, RecordInv
    <2> HIDE DEF sum
    <2>5. new \in Variables /\ new["count"] = sum /\ sum # Missing
      BY <2>2, AssignType DEF Names, Values, Missing
    <2> HIDE DEF new
    <2>6. flow'.vars = Merge(flow.vars, new) /\ flow.vars \in Variables
      BY <1>1, <1>2 DEF SessionTypes, Succeed
    <2>7. flow'.vars["count"] = sum
      BY <2>5, <2>6, MergeIs DEF Names
    <2>8. QED
      BY <1>1, <1>2, <2>3, <2>4, <2>5, <2>7, SuccessKeeps DEF SessionInv, SessionTypes, Increase
  <1>3. CASE NodeFails /\ UNCHANGED total
    BY <1>3, FailureKeeps DEF Increase, NodeFails
  <1>4. QED
    BY <1>2, <1>3 DEF Increase

LEMMA DecideKeeps ==
    ASSUME SessionInv, Decide
    PROVE  SessionInv'
  <1>1. PICK known : TakePath(known) /\ (blind' = TRUE \/ (blind' = blind /\ known = row))
    BY DEF Decide
  <1> DEFINE path == Matched(flow.contact, flow.stage, known, flow.goal)
  <1>2. NoVariables \in Variables
    BY DEF NoVariables, Variables, Values
  <1>3. flow.vars \in Variables /\ flow' = [flow EXCEPT !.pc = "recording", !.handle = path,
                                                       !.vars = Merge(flow.vars, NoVariables)]
    BY <1>1 DEF SessionInv, SessionTypes, TakePath, Succeed
  <1>4. flow'.vars["count"] = flow.vars["count"]
    BY <1>2, <1>3, MergeIs DEF SessionInv, SessionTypes, Names, NoVariables
  <1>5. ASSUME ~overwritten, ~blind'
        PROVE  Justified(path)
    <2>1. known = row /\ ~blind /\ flow.pc = "decide"
      BY <1>1, <1>5 DEF SessionInv, SessionTypes, Decide
    <2>2. row = flow.vars /\ flow.goal = flow.vars["goal"] /\ total = flow.vars["count"]
      BY <1>5, <2>1 DEF SessionInv, RecordInv, LoadedInv
    <2>3. row = [flow.vars EXCEPT !["count"] = total]
      BY <1>3, <2>2 DEF Variables, Names
    <2>4. PICK c \in during.contact : Needs("contact") => flow.contact = c
      BY <1>5, <2>1 DEF SessionInv, SessionTypes, LoadedInv
    <2>5. PICK s \in during.stage : Needs("stage") => flow.stage = s
      BY <1>5, <2>1 DEF SessionInv, SessionTypes, LoadedInv
    <2>6. path = Matched(c, s, row, flow.goal)
      BY <2>1, <2>4, <2>5, MatchedNeeds
    <2>7. QED
      BY <2>2, <2>3, <2>6, Zenon DEF Justified
  <1>6. ~wrong' /\ blind' \in BOOLEAN
    BY <1>1, <1>5 DEF SessionInv, SessionTypes, TakePath
  <1>7. Succeed(NoVariables, path)
    BY <1>1 DEF TakePath
  <1>8. QED
    BY <1>2, <1>4, <1>6, <1>7, SuccessKeeps DEF SessionInv, SessionTypes, RecordInv, Decide

\* An activity moves on; the record stays or becomes what its copy says.
LEMMA TaskTypes ==
    ASSUME SessionTypes, NEW t \in Tasks
    PROVE  /\ task[t] \in TaskRecords
           /\ Current \in Variables
  BY CurrentIs DEF SessionTypes

LEMMA TaskReadsKeeps ==
    ASSUME SessionInv, NEW t \in Tasks, TaskReads(t)
    PROVE  SessionInv'
  <1> DEFINE copy == IF t = "vars" THEN Merge(Current, flow.vars) ELSE Current
  <1>1. SessionTypes /\ Current \in Variables /\ flow.vars \in Variables /\ redis' = {Current}
        /\ UNCHANGED <<program, flow, row, facts, during, overwritten, blind, total, wrong>>
    BY TaskTypes DEF SessionInv, SessionTypes, TaskReads
  <1>2. copy \in Variables
    BY <1>1, MergeIs
  <1>3. task' = [task EXCEPT ![t].pc = "redis", ![t].copy = copy]
    BY DEF TaskReads
  <1>4. (t = "vars" /\ ~overwritten /\ flow.pc # "failed") => copy = flow.vars
    BY <1>1, RecordIsBehind, BehindCatchesUp
  <1> HIDE DEF copy
  <1>5. SessionTypes'
    BY <1>1, <1>2, <1>3 DEF SessionTypes, TaskRecords
  <1>6. \A u \in Tasks \ {t} : task'[u] = task[u]
    BY <1>1, <1>3 DEF SessionTypes
  <1>7. task'[t].pc = "redis" /\ task'[t].copy = copy /\ task[t].pc = "read" /\ "vars" \in Tasks
    BY <1>1, <1>3 DEF SessionTypes, TaskRecords, TaskReads, Tasks
  <1>8. ~overwritten /\ flow.pc # "failed" =>
            Behind(Current) /\ (task["vars"].pc = "idle" => Current = flow.vars)
    BY RecordIsBehind
  <1>9. flow.pc \notin {"recording", "failed"} => task'["vars"].pc = "idle"
    BY <1>6, <1>7 DEF SessionInv, RecordInv
  <1>10. ASSUME ~overwritten, flow.pc # "failed"
         PROVE  /\ Behind(row)' /\ \A v \in redis' : Behind(v)'
                /\ task'["vars"].pc = "idle" => row' = flow'.vars /\ redis' \subseteq {row'}
                /\ task'["vars"].pc \in {"redis", "row"} => task'["vars"].copy = flow'.vars
    <2>1. Behind(row)' /\ \A v \in redis' : Behind(v)'
      BY <1>1, <1>8, <1>10 DEF SessionInv, RecordInv, Behind
    <2>2. CASE t = "vars"
      BY <1>4, <1>7, <1>1, <1>10, <2>1, <2>2
    <2>3. CASE t # "vars"
      BY <1>1, <1>6, <1>7, <1>8, <1>10, <2>1, <2>3 DEF SessionInv, RecordInv
    <2>4. QED
      BY <2>2, <2>3
  <1>11. RecordInv'
    BY <1>1, <1>9, <1>10 DEF SessionInv, RecordInv
  <1>12. LoadedInv'
    BY <1>1, HereStays DEF SessionInv, LoadedInv
  <1>13. QED
    BY <1>1, <1>5, <1>11, <1>12 DEF SessionInv

LEMMA TaskCachesKeeps ==
    ASSUME SessionInv, NEW t \in Tasks, TaskCaches(t)
    PROVE  SessionInv'
  <1>1. /\ SessionTypes /\ task[t].copy \in Variables /\ task[t].pc = "redis"
        /\ redis' = {task[t].copy} /\ task' = [task EXCEPT ![t].pc = "row"]
        /\ overwritten' = (overwritten \/ Stale(t))
        /\ UNCHANGED <<program, flow, row, facts, during, blind, total, wrong>>
    BY TaskTypes DEF SessionInv, TaskRecords, TaskCaches
  <1>2. /\ \A u \in Tasks : task'[u].copy = task[u].copy /\ (u # t => task'[u].pc = task[u].pc)
        /\ task'[t].pc = "row" /\ "vars" \in Tasks
    BY <1>1 DEF SessionTypes, TaskRecords, Tasks
  <1>3. SessionTypes'
    BY <1>1 DEF SessionTypes, TaskRecords, Stale
  <1>4. flow.pc \notin {"recording", "failed"} => task'["vars"].pc = "idle"
    BY <1>1, <1>2 DEF SessionInv, RecordInv
  <1>5. ASSUME ~overwritten', flow.pc # "failed"
        PROVE  /\ Behind(row)' /\ \A v \in redis' : Behind(v)'
               /\ task'["vars"].pc = "idle" => row' = flow'.vars /\ redis' \subseteq {row'}
               /\ task'["vars"].pc \in {"redis", "row"} => task'["vars"].copy = flow'.vars
    <2>1. ~overwritten /\ (t # "vars" => task[t].copy = Current)
      BY <1>1, <1>5 DEF SessionTypes, Stale
    <2>2. Behind(Current) /\ (task["vars"].pc = "idle" => Current = flow.vars)
      BY <1>5, <2>1, RecordIsBehind
    <2>3. /\ Behind(row) /\ (task["vars"].pc = "idle" => row = flow.vars)
          /\ task["vars"].pc \in {"redis", "row"} => task["vars"].copy = flow.vars
      BY <1>5, <2>1 DEF SessionInv, RecordInv
    <2>4. Behind(flow.vars)
      BY DEF Behind
    <2>5. Behind(row)' /\ \A v \in redis' : Behind(v)'
      BY <1>1, <2>1, <2>2, <2>3, <2>4 DEF Behind
    <2>6. CASE t = "vars"
      BY <1>1, <1>2, <2>3, <2>5, <2>6
    <2>7. CASE t # "vars"
      BY <1>1, <1>2, <2>1, <2>2, <2>3, <2>5, <2>7
    <2>8. QED
      BY <2>6, <2>7
  <1>6. RecordInv'
    BY <1>1, <1>4, <1>5 DEF SessionInv, SessionTypes, RecordInv
  <1>7. LoadedInv'
    BY <1>1, HereStays DEF SessionInv, SessionTypes, LoadedInv
  <1>8. QED
    BY <1>1, <1>3, <1>6, <1>7 DEF SessionInv

LEMMA TaskPersistsKeeps ==
    ASSUME SessionInv, NEW t \in Tasks, TaskPersists(t)
    PROVE  SessionInv'
  <1>1. /\ SessionTypes /\ task[t].copy \in Variables /\ task[t].pc = "row" /\ row' = task[t].copy
        /\ overwritten' = (overwritten \/ task[t].copy # Current)
        /\ UNCHANGED <<program, flow, redis, facts, during, blind, total, wrong>>
    BY TaskTypes DEF SessionInv, TaskRecords, TaskPersists
  <1>2. PICK p \in {"redis", "idle"} : \E left \in Int :
            task' = [task EXCEPT ![t].left = left, ![t].pc = p]
    <2>1. task[t].left - 1 \in Int
      BY <1>1, TaskTypes DEF TaskRecords
    <2>2. task' = [task EXCEPT ![t].left = task[t].left - 1,
                               ![t].pc = IF task[t].left > 1 THEN "redis" ELSE "idle"]
      BY DEF TaskPersists
    <2>3. QED
      BY <2>1, <2>2
  <1>3. /\ \A u \in Tasks : task'[u].copy = task[u].copy /\ (u # t => task'[u].pc = task[u].pc)
        /\ task'[t].pc = p /\ "vars" \in Tasks
    BY <1>1, <1>2 DEF SessionTypes, TaskRecords, Tasks
  <1>4. SessionTypes'
    BY <1>1, <1>2 DEF SessionTypes, TaskRecords
  <1>5. flow.pc \notin {"recording", "failed"} => task'["vars"].pc = "idle"
    BY <1>1, <1>3 DEF SessionInv, RecordInv
  <1>6. ASSUME ~overwritten', flow.pc # "failed"
        PROVE  /\ Behind(row)' /\ \A v \in redis' : Behind(v)'
               /\ task'["vars"].pc = "idle" => row' = flow'.vars /\ redis' \subseteq {row'}
               /\ task'["vars"].pc \in {"redis", "row"} => task'["vars"].copy = flow'.vars
    <2>1. ~overwritten /\ task[t].copy = Current
      BY <1>1, <1>6 DEF SessionTypes
    <2>2. Behind(Current) /\ (task["vars"].pc = "idle" => Current = flow.vars)
      BY <1>6, <2>1, RecordIsBehind
    <2>3. /\ \A v \in redis : Behind(v)
          /\ task["vars"].pc \in {"redis", "row"} => task["vars"].copy = flow.vars
      BY <1>6, <2>1 DEF SessionInv, RecordInv
    <2>4. redis \subseteq {Current}
      BY <1>1, CurrentIs DEF SessionTypes
    <2>5. Behind(row)' /\ \A v \in redis' : Behind(v)'
      BY <1>1, <2>1, <2>2, <2>3 DEF Behind
    <2>6. CASE t = "vars"
      BY <1>1, <1>3, <2>1, <2>3, <2>4, <2>5, <2>6
    <2>7. CASE t # "vars"
      BY <1>1, <1>3, <2>1, <2>2, <2>3, <2>4, <2>5, <2>7
    <2>8. QED
      BY <2>6, <2>7
  <1>7. RecordInv'
    BY <1>1, <1>5, <1>6 DEF SessionInv, SessionTypes, RecordInv
  <1>8. LoadedInv'
    BY <1>1, HereStays DEF SessionInv, SessionTypes, LoadedInv
  <1>9. QED
    BY <1>1, <1>4, <1>7, <1>8 DEF SessionInv

LEMMA TaskFailsKeeps ==
    ASSUME SessionInv, NEW t \in Tasks, TaskFails(t)
    PROVE  SessionInv'
  <1>1. /\ SessionTypes /\ task[t].pc # "idle"
        /\ UNCHANGED <<program, redis, row, facts, during, overwritten, blind, total, wrong>>
    BY DEF SessionInv, TaskFails
  <1>2. PICK r \in TaskRecords :
            /\ task' = [task EXCEPT ![t] = r]
            /\ r.pc \in {"read", "idle"}
            /\ r.pc = "idle" => t \in {"log", "starter"} \/ task[t].try = 2
    <2>1. CASE t \in {"log", "starter"} \/ task[t].try = 2
      BY <2>1, IdleIs DEF TaskFails
    <2>2. CASE ~(t \in {"log", "starter"} \/ task[t].try = 2)
      BY <2>2, IdleIs DEF TaskFails
    <2>3. QED
      BY <2>1, <2>2
  <1>3. flow' = flow \/ flow' = [flow EXCEPT !.pc = "failed"]
    BY DEF TaskFails
  <1>4. t \in {"vars", "place"} /\ task[t].try = 2 => flow' = [flow EXCEPT !.pc = "failed"]
    BY DEF TaskFails
  <1>5. task' \in [Tasks -> TaskRecords] /\ task'[t] = r
    BY <1>1, <1>2 DEF SessionTypes
  <1>6. SessionTypes'
    BY <1>1, <1>3, <1>5 DEF SessionTypes, FlowPcs
  <1>7. /\ \A u \in Tasks : u # t => task'[u] = task[u]
        /\ task'[t].pc = r.pc /\ "vars" \in Tasks
    BY <1>1, <1>2, <1>5 DEF SessionTypes, Tasks
  <1>8. CASE flow' = flow
    <2>1. t = "vars" => r.pc = "read" \/ flow.pc = "failed"
      <3>1. t = "vars" /\ task[t].try = 2 => flow.pc = "failed"
        BY <1>1, <1>4, <1>8 DEF SessionTypes
      <3>2. QED
        BY <1>2, <3>1
    <2>2. RecordInv'
      BY <1>1, <1>7, <1>8, <2>1 DEF SessionInv, RecordInv, Behind
    <2>3. LoadedInv'
      BY <1>1, <1>8, HereStays DEF SessionInv, LoadedInv
    <2>4. QED
      BY <1>1, <1>6, <2>2, <2>3 DEF SessionInv
  <1>9. CASE flow' = [flow EXCEPT !.pc = "failed"]
    <2>1. flow'.pc = "failed" /\ flow'.vars = flow.vars
      BY <1>1, <1>9 DEF SessionTypes
    <2>2. RecordInv' /\ LoadedInv'
      BY <1>1, <2>1 DEF SessionInv, RecordInv, LoadedInv
    <2>3. QED
      BY <1>1, <1>6, <2>2 DEF SessionInv
  <1>10. QED
    BY <1>3, <1>8, <1>9

LEMMA FactChangesKeeps ==
    ASSUME SessionInv, FactChanges
    PROVE  SessionInv'
  <1>1. UNCHANGED <<program, flow, redis, row, task, overwritten, blind, total, wrong>>
    BY DEF FactChanges
  <1>2. facts' \in [contact : ContactFacts, stage : StageFacts]
    BY DEF FactChanges, SessionInv, SessionTypes, ContactFacts, StageFacts
  <1>3. /\ during' \in [contact : SUBSET ContactFacts, stage : SUBSET StageFacts]
        /\ facts'.contact \in during'.contact /\ facts'.stage \in during'.stage
        /\ during.contact \subseteq during'.contact /\ during.stage \subseteq during'.stage
    BY <1>2 DEF FactChanges, SessionInv, SessionTypes
  <1>4. SessionTypes'
    BY <1>1, <1>2, <1>3 DEF SessionInv, SessionTypes
  <1>5. RecordInv'
    BY <1>1 DEF SessionInv, RecordInv, Behind
  <1>6. LoadedInv'
    BY <1>1, <1>3, HereStays DEF SessionInv, LoadedInv
  <1>7. QED
    BY <1>1, <1>4, <1>5, <1>6 DEF SessionInv

LEMMA ForgottenKeeps ==
    ASSUME SessionInv, SessionForgotten
    PROVE  SessionInv'
  <1>1. redis' = {} /\ UNCHANGED <<program, flow, row, task, facts, during, overwritten, blind, total, wrong>>
    BY DEF SessionForgotten
  <1>2. SessionTypes'
    BY <1>1 DEF SessionInv, SessionTypes
  <1>3. RecordInv'
    BY <1>1 DEF SessionInv, RecordInv, Behind
  <1>4. LoadedInv'
    BY <1>1, HereStays DEF SessionInv, LoadedInv
  <1>5. QED
    BY <1>1, <1>2, <1>3, <1>4 DEF SessionInv

LEMMA SessionStepKeeps ==
    ASSUME SessionInv, [SessionStep]_sessionVars
    PROVE  SessionInv'
  <1>1. CASE UNCHANGED sessionVars
    <2>1. SessionTypes'
      BY <1>1 DEF SessionInv, SessionTypes, sessionVars
    <2>2. RecordInv' /\ LoadedInv'
      BY <1>1, HereStays DEF SessionInv, RecordInv, LoadedInv, Behind, sessionVars
    <2>3. QED
      BY <1>1, <2>1, <2>2 DEF SessionInv, sessionVars
  <1>2. CASE WalkStep
    BY <1>2, StartNodeKeeps, ExecuteKeeps, ExecuteTriggerKeeps, ExecuteSetKeeps, IncreaseKeeps,
       InterpolateKeeps, LoadContactKeeps, LoadConversationKeeps, DecideKeeps, MoveKeeps,
       ArriveKeeps DEF WalkStep
  <1>3. CASE \E t \in Tasks : TaskReads(t) \/ TaskCaches(t) \/ TaskPersists(t) \/ TaskFails(t)
    BY <1>3, TaskReadsKeeps, TaskCachesKeeps, TaskPersistsKeeps, TaskFailsKeeps
  <1>4. CASE FactChanges \/ SessionForgotten
    BY <1>4, FactChangesKeeps, ForgottenKeeps
  <1>5. QED
    BY <1>1, <1>2, <1>3, <1>4 DEF SessionStep

LEMMA SessionInitially ==
    ASSUME NEW defaults \in Variables, SessionInit("start", defaults)
    PROVE  SessionInv
  <1>1. NoVariables \in Variables /\ defaults["count"] \in Values
    BY DEF NoVariables, Variables, Values, Names
  <1>2. /\ flow = [pc |-> "start", at |-> 1, vars |-> defaults, steps |-> 0, goal |-> Missing,
                   contact |-> Missing, stage |-> {}, handle |-> 0]
        /\ program \in Programs /\ redis = {defaults} /\ row = defaults
        /\ overwritten = FALSE /\ blind = FALSE /\ total = defaults["count"] /\ wrong = FALSE
    BY DEF SessionInit
  <1>3. /\ task \in [Tasks -> TaskRecords]
        /\ task["vars"].pc = "idle"
    <2>1. PICK pending \in BOOLEAN :
            task = [t \in Tasks |-> IF t = "starter" /\ pending
                                   THEN [IdleTask EXCEPT !.pc = "read", !.left = 1] ELSE IdleTask]
      BY DEF SessionInit
    <2> DEFINE first == [IdleTask EXCEPT !.pc = "read", !.left = 1]
    <2>2. first \in TaskRecords /\ IdleTask \in TaskRecords /\ IdleTask.pc = "idle"
      <3>1. 1 \in Int
        OBVIOUS
      <3>2. QED
        BY <3>1, IdleIs, Zenon
    <2>3. task = [t \in Tasks |-> IF t = "starter" /\ pending THEN first ELSE IdleTask]
      BY <2>1
    <2> HIDE DEF first
    <2>4. QED
      BY <2>2, <2>3 DEF Tasks
  <1>4. /\ facts \in [contact : ContactFacts, stage : StageFacts]
        /\ during = [contact |-> {facts.contact}, stage |-> {facts.stage}]
    BY DEF SessionInit, ContactFacts, StageFacts
  <1>5. SessionTypes
    <2>1. 1 \in DOMAIN program /\ total \in Int
      BY <1>1, <1>2, ProgramsAssumption DEF Values, Missing, Blank, Token
    <2>2. flow \in [pc : FlowPcs, at : DOMAIN program, vars : Variables, steps : Nat, goal : Values,
                    contact : ContactFacts, stage : StageFacts, handle : {flow.handle}]
      BY <1>2, <2>1 DEF FlowPcs, Values, ContactFacts, StageFacts
    <2>3. QED
      BY <1>2, <1>3, <1>4, <2>1, <2>2 DEF SessionTypes
  <1>6. RecordInv /\ LoadedInv
    BY <1>2, <1>3 DEF RecordInv, LoadedInv, Behind
  <1>7. QED
    BY <1>2, <1>5, <1>6 DEF SessionInv

(* Whatever nodes a journey has, the variable its nodes increase counts what *)
(* they add, and a branch takes the first path that the facts justify, while *)
(* the activities write the session record in any order; unless one of them  *)
(* put old variables back, or a load failed that a branch does without.      *)
THEOREM VariablesCountAndPathsFollow == SessionSpec => []CountsAndPathsAreRight
  <1>1. (\E defaults \in [Names -> Values] : SessionInit("start", defaults)) => SessionInv
    BY SessionInitially DEF Variables
  <1>2. SessionInv /\ [SessionStep]_sessionVars => SessionInv'
    BY SessionStepKeeps
  <1>3. SessionInv => CountsAndPathsAreRight
    BY DEF SessionInv, SessionTypes, RecordInv, CountsAndPathsAreRight, EveryIncreaseCounts, PathsFollowFacts
  <1>4. QED
    BY <1>1, <1>2, <1>3, PTL DEF SessionSpec
===============================================================================

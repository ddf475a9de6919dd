-------------------------- MODULE EventPipelineProofs --------------------------
(***************************************************************************)
(* What the event pipeline promises of a payload, for any number of        *)
(* replicas, handlers, payloads, posts, faults and ended processes: every  *)
(* accepted payload waits for its verdict or became an event, a key makes  *)
(* one event until it expires, and every event is at one place of one      *)
(* process, or left it for one destination.                                *)
(*                                                                         *)
(* The argument follows one event at a time: it is made with a turn no     *)
(* event of its payload had before, and from then on every step either     *)
(* moves it from one place to one other or takes it out of the process     *)
(* into a row, events.failed or a named window.                            *)
(*                                                                         *)
(* And what the computation of a segment makes of the stored events, for   *)
(* any contacts, definitions, events, edits and mishaps: a row of the      *)
(* state table says what its node made of a contact's latest event, and a  *)
(* scan of what is new reaches exactly the events no earlier one did; who  *)
(* was told stays in step with what is saved.                              *)
(***************************************************************************)
EXTENDS EventPipeline, SegmentComputation, WellFoundedInduction, FiniteSetTheorems,
        SequenceTheorems

-----------------------------------------------------------------------------
(* The inductive invariant.                                                *)

\* A handler that is busy has a copy, one past the signature check has a genuine
\* payload, and one has an event exactly between the mark and the buffer.
HandlersInv ==
    \A w \in Workers :
        /\ pc[w] # "idle" => msg[w] \in Message
        /\ owned[w] => pc[w] # "idle"
        /\ pc[w] \in {"check", "enqueue"} => Payload(w) \in Genuine
        /\ event[w] # NoEvent <=> pc[w] = "enqueue"

\* Each mark is one event, and each mark but the one in Redis has expired.
MarkInv ==
    \A p \in Genuine :
        /\ p \in marked => won[p] > 0 /\ won[p] <= 1 + expiries
        /\ p \notin marked => won[p] <= expiries

\* What was accepted is not forgotten before its verdict.
VerdictInv == \A p \in Genuine : sent[p] > 0 => Undecided(p) \/ won[p] > 0

InHand(e) == \E w \in Workers : event[w] = e
InBuffer(e) == \E h \in Hosts : e \in buffer[h]
InBatch(e, h, i) == i \in DOMAIN chain[h] /\ e \in chain[h][i]
InChain(e) == \E h \in Hosts : \E i \in Nat : InBatch(e, h, i)

Held(e) == InHand(e) \/ InBuffer(e) \/ InChain(e)

InOneBatch(e) ==
    \A g, h \in Hosts : \A i, j \in Nat :
        InBatch(e, g, i) /\ InBatch(e, h, j) => g = h /\ i = j

\* An event is with one handler, in one buffer or in one batch.
AtOnePlace(e) ==
    /\ \A v, w \in Workers : event[v] = e /\ event[w] = e => v = w
    /\ \A g, h \in Hosts : e \in buffer[g] /\ e \in buffer[h] => g = h
    /\ InOneBatch(e)
    /\ ~ (InHand(e) /\ InBuffer(e))
    /\ ~ (InHand(e) /\ InChain(e))
    /\ ~ (InBuffer(e) /\ InChain(e))

\* No event comes from nowhere, none is forgotten, and where it went is told apart.
Accounted(e) ==
    /\ Held(e) \/ e \in stored \cup failed \cup lost \cup doubtful => e.turn <= won[e.payload]
    /\ e.turn <= won[e.payload] => Held(e) \/ e \in stored \cup failed \cup lost
    /\ AtOnePlace(e)
    /\ ~ (e \in failed /\ e \in lost)
    /\ Held(e) => e \notin failed \cup lost
    /\ e \in stored /\ (Held(e) \/ e \in failed \cup lost) => e \in doubtful

EventInv == \A e \in Events : Accounted(e)

PipelineInv == TypeOK /\ HandlersInv /\ MarkInv /\ VerdictInv /\ EventInv

-----------------------------------------------------------------------------
(* Batches of a flush chain.                                               *)

LEMMA Appended ==
    ASSUME NEW S, NEW s \in Seq(S), NEW x \in S
    PROVE  /\ Append(s, x) \in Seq(S)
           /\ DOMAIN s = 1 .. Len(s) /\ Len(s) \in Nat
           /\ DOMAIN Append(s, x) = 1 .. Len(s) + 1
           /\ \A i \in 1 .. Len(s) : Append(s, x)[i] = s[i]
           /\ Append(s, x)[Len(s) + 1] = x
  OBVIOUS

LEMMA Rest ==
    ASSUME NEW S, NEW s \in Seq(S), s # <<>>
    PROVE  /\ Tail(s) \in Seq(S) /\ Head(s) \in S /\ Head(s) = s[1]
           /\ DOMAIN s = 1 .. Len(s) /\ Len(s) \in Nat \ {0}
           /\ DOMAIN Tail(s) = 1 .. Len(s) - 1
           /\ \A i \in 1 .. Len(s) - 1 : Tail(s)[i] = s[i + 1]
  OBVIOUS

LEMMA Shrunk ==
    ASSUME NEW S, NEW s \in Seq(S), s # <<>>, NEW x \in S
    PROVE  /\ <<x>> \o Tail(s) \in Seq(S)
           /\ DOMAIN (<<x>> \o Tail(s)) = DOMAIN s
           /\ (<<x>> \o Tail(s))[1] = x
           /\ \A i \in DOMAIN s : i # 1 => (<<x>> \o Tail(s))[i] = s[i]
  OBVIOUS

LEMMA NoEventIsNone == NoEvent \notin Events /\ \A p \in Genuine, n \in Nat \ {0} : EventOf(p, n) \in Events
  BY DEF NoEvent, EventOf, Events

-----------------------------------------------------------------------------
(* The types.                                                              *)

\* What the variables of the broker and the handlers are.
LEMMA BrokerTypes ==
    ASSUME TypeOK
    PROVE  /\ queue \in [Messages(Payloads) -> Nat] /\ dead \in [Messages(Payloads) -> Nat]
           /\ Message = Messages(Payloads)
  BY DEF TypeOK, Message

LEMMA SettleType ==
    ASSUME TypeOK, NEW w \in Workers, Settle(w)
    PROVE  /\ pc' \in [Workers -> Steps]
           /\ msg' \in [Workers -> Message \cup {NoMessage}]
           /\ owned' \in [Workers -> BOOLEAN]
  BY DEF TypeOK, Settle, Goto, Steps

LEMMA RequeueType ==
    ASSUME TypeOK, HandlersInv, NEW w \in Workers, pc[w] # "idle", Requeue(w)
    PROVE  /\ queue' \in [Message -> Nat] /\ dead' \in [Message -> Nat]
           /\ pc' \in [Workers -> Steps]
           /\ msg' \in [Workers -> Message \cup {NoMessage}]
           /\ owned' \in [Workers -> BOOLEAN]
  <1>1. msg[w] \in Messages(Payloads)
    BY BrokerTypes DEF HandlersInv
  <1>2. queue' \in [Message -> Nat] /\ dead' \in [Message -> Nat]
    BY <1>1, BrokerTypes, NackType DEF Requeue
  <1>3. QED
    BY <1>2, SettleType DEF Requeue

LEMMA ReceiveType ==
    ASSUME TypeOK, NEW p \in Payloads, Receive(p)
    PROVE  TypeOK'
  <1>1. FirstCopy(p) \in Message
    BY FirstCopyType DEF Message
  <1>2. queue' \in [Message -> Nat]
    BY <1>1, QueueType DEF Receive, TypeOK
  <1>3. sent' \in [Payloads -> Nat]
    BY DEF Receive, TypeOK
  <1>4. UNCHANGED <<dead, marked, handlerVars, writerVars, outputVars, historyVars, expiries>>
    BY DEF Receive, countVars
  <1>5. QED
    BY <1>2, <1>3, <1>4 DEF TypeOK, handlerVars, writerVars, outputVars, historyVars

LEMMA ExpireType ==
    ASSUME TypeOK, NEW p \in Payloads, Expire(p)
    PROVE  TypeOK'
  <1>1. marked' \in SUBSET Genuine /\ expiries' \in Nat
    BY DEF Expire, TypeOK
  <1>2. QED
    BY <1>1 DEF Expire, TypeOK, brokerVars, handlerVars, writerVars, outputVars, historyVars

LEMMA DeliverType ==
    ASSUME TypeOK, NEW w \in Workers, NEW m \in Message, Deliver(w, m)
    PROVE  TypeOK'
  <1>1. queue' \in [Message -> Nat]
    BY QueueType DEF Deliver, TypeOK
  <1>2. /\ pc' \in [Workers -> Steps] /\ msg' \in [Workers -> Message \cup {NoMessage}]
        /\ owned' \in [Workers -> BOOLEAN]
    BY DEF Deliver, Goto, TypeOK, Steps
  <1>3. UNCHANGED <<sent, dead, marked, event, writerVars, outputVars, historyVars, expiries>>
    BY DEF Deliver, countVars
  <1>4. QED
    BY <1>1, <1>2, <1>3 DEF TypeOK, writerVars, outputVars, historyVars

LEMMA ValidateType ==
    ASSUME TypeOK, NEW w \in Workers, Validate(w)
    PROVE  TypeOK'
  <1>1. pc' \in [Workers -> Steps]
    BY DEF Validate, Goto, TypeOK, Steps
  <1>2. UNCHANGED <<brokerVars, marked, msg, owned, event, writerVars, outputVars, historyVars, expiries>>
    BY DEF Validate, countVars
  <1>3. QED
    BY <1>1, <1>2 DEF TypeOK, brokerVars, writerVars, outputVars, historyVars

LEMMA NextEventType ==
    ASSUME TypeOK, NEW p \in Genuine
    PROVE  NextEvent(p) \in Events /\ won[p] + 1 \in Nat /\ p \in Payloads
  BY DEF TypeOK, NextEvent, EventOf, Events, Payloads

LEMMA CheckAndMarkType ==
    ASSUME TypeOK, HandlersInv, NEW w \in Workers, CheckAndMark(w)
    PROVE  TypeOK'
  <1>1. Payload(w) \in Genuine
    BY DEF HandlersInv, CheckAndMark
  <1>2. pc' \in [Workers -> Steps]
    BY DEF CheckAndMark, Goto, TypeOK, Steps
  <1>3. marked' \in SUBSET Genuine
    BY <1>1 DEF CheckAndMark, TypeOK
  <1>4. won' \in [Payloads -> Nat] /\ event' \in [Workers -> Events \cup {NoEvent}]
    BY <1>1, NextEventType DEF CheckAndMark, Makes, Win, TypeOK
  <1>5. UNCHANGED <<brokerVars, msg, owned, writerVars, outputVars, lost, doubtful, expiries>>
    BY DEF CheckAndMark, countVars
  <1>6. QED
    BY <1>2, <1>3, <1>4, <1>5 DEF TypeOK, brokerVars, writerVars, outputVars

LEMMA BufferAfter ==
    ASSUME TypeOK, HandlersInv, NEW w \in Workers, pc[w] = "enqueue"
    PROVE  /\ HostOf[w] \in Hosts
           /\ event[w] \in Events
           /\ buffer[HostOf[w]] \cup {event[w]} \in SUBSET Events
           /\ IsFiniteSet(buffer[HostOf[w]] \cup {event[w]})
           /\ Cardinality(buffer[HostOf[w]] \cup {event[w]}) \in Nat
  <1>1. HostOf[w] \in Hosts
    BY EventAssumption
  <1>2. event[w] \in Events
    BY DEF TypeOK, HandlersInv
  <1>3. IsFiniteSet(buffer[HostOf[w]])
    BY <1>1 DEF TypeOK
  <1>4. IsFiniteSet(buffer[HostOf[w]] \cup {event[w]})
    BY <1>3, FS_AddElement
  <1>5. QED
    BY <1>1, <1>2, <1>4, FS_CardinalityType DEF TypeOK

LEMMA FlushIntoType ==
    ASSUME TypeOK, NEW h \in Hosts, NEW events \in SUBSET Events, FlushInto(h, events)
    PROVE  /\ chain' \in [Hosts -> Seq(SUBSET Events)]
           /\ buffer' \in [Hosts -> SUBSET Events]
           /\ timer' \in [Hosts -> BOOLEAN]
           /\ \A g \in Hosts : IsFiniteSet(buffer'[g]) /\ Cardinality(buffer'[g]) < BatchSize
  <1>1. chain[h] \in Seq(SUBSET Events)
    BY DEF TypeOK
  <1>2. Append(chain[h], events) \in Seq(SUBSET Events)
    BY <1>1, Appended
  <1>3. IsFiniteSet({}) /\ Cardinality({}) < BatchSize
    BY FS_EmptySet, EventAssumption
  <1>4. chain' \in [Hosts -> Seq(SUBSET Events)]
    BY <1>2 DEF FlushInto, TypeOK
  <1>5. buffer' \in [Hosts -> SUBSET Events] /\ timer' \in [Hosts -> BOOLEAN]
    BY DEF FlushInto, TypeOK
  <1>6. \A g \in Hosts : buffer'[g] = IF g = h THEN {} ELSE buffer[g]
    BY DEF FlushInto, TypeOK
  <1>7. QED
    BY <1>3, <1>4, <1>5, <1>6 DEF TypeOK

LEMMA EnqueueType ==
    ASSUME TypeOK, HandlersInv, NEW w \in Workers, Enqueue(w)
    PROVE  TypeOK'
  <1> DEFINE h == HostOf[w]
             events == buffer[h] \cup {event[w]}
  <1>1. /\ h \in Hosts /\ events \in SUBSET Events /\ IsFiniteSet(events)
        /\ Cardinality(events) \in Nat
    BY BufferAfter DEF Enqueue
  <1>2. /\ chain' \in [Hosts -> Seq(SUBSET Events)]
        /\ buffer' \in [Hosts -> SUBSET Events]
        /\ timer' \in [Hosts -> BOOLEAN]
        /\ \A g \in Hosts : IsFiniteSet(buffer'[g]) /\ Cardinality(buffer'[g]) < BatchSize
    <2>1. CASE Cardinality(events) >= BatchSize
      <3>1. FlushInto(h, events)
        BY <2>1 DEF Enqueue
      <3>2. QED
        BY <1>1, <3>1, FlushIntoType
    <2>2. CASE ~ (Cardinality(events) >= BatchSize)
      <3>1. /\ buffer' = [buffer EXCEPT ![h] = events]
            /\ timer' = [timer EXCEPT ![h] = TRUE]
            /\ UNCHANGED chain
        BY <2>2 DEF Enqueue
      <3>2. Cardinality(events) < BatchSize
        BY <1>1, <2>2, EventAssumption
      <3> HIDE DEF events, h
      <3>3. \A g \in Hosts : buffer'[g] = IF g = h THEN events ELSE buffer[g]
        BY <3>1 DEF TypeOK
      <3>4. buffer' \in [Hosts -> SUBSET Events] /\ timer' \in [Hosts -> BOOLEAN]
        BY <1>1, <3>1 DEF TypeOK
      <3>5. \A g \in Hosts : IsFiniteSet(buffer'[g]) /\ Cardinality(buffer'[g]) < BatchSize
        BY <1>1, <3>2, <3>3 DEF TypeOK
      <3>6. QED
        BY <3>1, <3>4, <3>5 DEF TypeOK
    <2>3. QED
      BY <2>1, <2>2
  <1>3. pc' \in [Workers -> Steps] /\ event' \in [Workers -> Events \cup {NoEvent}]
    BY DEF Enqueue, Goto, TypeOK, Steps
  <1>4. UNCHANGED <<brokerVars, marked, msg, owned, tries, outputVars, historyVars, expiries>>
    BY DEF Enqueue, countVars
  <1>5. QED
    BY <1>2, <1>3, <1>4 DEF TypeOK, brokerVars, outputVars, historyVars

LEMMA FinishType ==
    ASSUME TypeOK, NEW w \in Workers, Finish(w)
    PROVE  TypeOK'
  <1>1. Settle(w)
    BY DEF Finish
  <1>2. UNCHANGED <<brokerVars, marked, event, writerVars, outputVars, historyVars, expiries>>
    BY DEF Finish, countVars
  <1>3. QED
    BY <1>1, <1>2, SettleType DEF TypeOK, brokerVars, writerVars, outputVars, historyVars

LEMMA CheckFailsType ==
    ASSUME TypeOK, HandlersInv, NEW w \in Workers, CheckFails(w)
    PROVE  TypeOK'
  <1>1. pc[w] # "idle" /\ Requeue(w) /\ expiries' = expiries
    BY DEF CheckFails, Fault
  <1>2. UNCHANGED <<sent, marked, event, writerVars, outputVars, historyVars>>
    BY DEF CheckFails
  <1>3. QED
    BY <1>1, <1>2, RequeueType DEF TypeOK, writerVars, outputVars, historyVars

LEMMA ReplyLostType ==
    ASSUME TypeOK, HandlersInv, NEW w \in Workers, ReplyLost(w)
    PROVE  TypeOK'
  <1>1. Payload(w) \in Genuine /\ pc[w] # "idle" /\ expiries' = expiries
    BY DEF HandlersInv, ReplyLost, Fault
  <1>2. marked' \in SUBSET Genuine
    BY <1>1 DEF ReplyLost, TypeOK
  <1>3. won' \in [Payloads -> Nat] /\ lost' \in SUBSET Events /\ doubtful' \in SUBSET Events
    <2>1. CASE Payload(w) \in marked
      BY <2>1 DEF ReplyLost, TypeOK, historyVars
    <2>2. CASE Payload(w) \notin marked
      <3>1. Win(Payload(w)) /\ Lose(NextEvent(Payload(w)))
        BY <2>2 DEF ReplyLost
      <3>2. QED
        BY <1>1, <3>1, NextEventType DEF Win, Lose, TypeOK
    <2>3. QED
      BY <2>1, <2>2
  <1>4. /\ queue' \in [Message -> Nat] /\ dead' \in [Message -> Nat]
        /\ pc' \in [Workers -> Steps]
        /\ msg' \in [Workers -> Message \cup {NoMessage}]
        /\ owned' \in [Workers -> BOOLEAN]
    <2>1. CASE Requeue(w)
      BY <1>1, <2>1, RequeueType
    <2>2. CASE Goto(w, "ack") /\ UNCHANGED <<queue, dead, msg, owned>>
      BY <2>2 DEF Goto, TypeOK, Steps
    <2>3. QED
      BY <2>1, <2>2 DEF ReplyLost
  <1>5. UNCHANGED <<sent, event, writerVars, outputVars>>
    BY DEF ReplyLost
  <1>6. QED
    BY <1>1, <1>2, <1>3, <1>4, <1>5 DEF TypeOK, writerVars, outputVars

LEMMA LoseChannelType ==
    ASSUME TypeOK, HandlersInv, NEW w \in Workers, LoseChannel(w)
    PROVE  TypeOK'
  <1>1. msg[w] \in Message
    BY DEF HandlersInv, LoseChannel
  <1>2. queue' \in [Message -> Nat]
    BY <1>1, QueueType DEF LoseChannel, TypeOK
  <1>3. owned' \in [Workers -> BOOLEAN] /\ expiries' = expiries
    BY DEF LoseChannel, Fault, TypeOK
  <1>4. UNCHANGED <<sent, dead, marked, pc, msg, event, writerVars, outputVars, historyVars>>
    BY DEF LoseChannel
  <1>5. QED
    BY <1>2, <1>3, <1>4 DEF TypeOK, writerVars, outputVars, historyVars

LEMMA TimerFiresType ==
    ASSUME TypeOK, NEW h \in Hosts, TimerFires(h)
    PROVE  TypeOK'
  <1>1. FlushInto(h, buffer[h]) /\ buffer[h] \in SUBSET Events
    BY DEF TimerFires, TypeOK
  <1>2. UNCHANGED <<brokerVars, marked, handlerVars, tries, outputVars, historyVars, expiries>>
    BY DEF TimerFires, countVars
  <1>3. QED
    BY <1>1, <1>2, FlushIntoType DEF TypeOK, brokerVars, handlerVars, outputVars, historyVars

LEMMA BatchType ==
    ASSUME TypeOK, NEW h \in Hosts, chain[h] # <<>>
    PROVE  Batch(h) \in SUBSET Events /\ Tail(chain[h]) \in Seq(SUBSET Events)
  <1>1. chain[h] \in Seq(SUBSET Events)
    BY DEF TypeOK
  <1>2. QED
    BY <1>1, Rest DEF Batch

LEMMA InsertType ==
    ASSUME TypeOK, NEW h \in Hosts, Insert(h)
    PROVE  TypeOK'
  <1>1. Batch(h) \in SUBSET Events /\ Tail(chain[h]) \in Seq(SUBSET Events)
    BY BatchType DEF Insert, Inserting
  <1>2. chain' \in [Hosts -> Seq(SUBSET Events)] /\ stored' \in SUBSET Events
    BY <1>1 DEF Insert, TypeOK
  <1>3. tries' \in [Hosts -> 0 .. Retries + 1]
    BY EventAssumption DEF Insert, TypeOK
  <1>4. UNCHANGED <<brokerVars, marked, handlerVars, buffer, timer, failed, historyVars, expiries>>
    BY DEF Insert, countVars
  <1>5. QED
    BY <1>2, <1>3, <1>4 DEF TypeOK, brokerVars, handlerVars, historyVars

LEMMA InsertFailsType ==
    ASSUME TypeOK, NEW h \in Hosts, InsertFails(h)
    PROVE  TypeOK'
  <1>1. Batch(h) \in SUBSET Events
    BY BatchType DEF InsertFails, Inserting
  <1>2. stored' \in SUBSET Events /\ doubtful' \in SUBSET Events
    BY <1>1 DEF InsertFails, TypeOK
  <1>3. tries[h] \in 0 .. Retries + 1 /\ tries[h] <= Retries
    BY DEF InsertFails, Inserting, TypeOK
  <1>4. tries[h] + 1 \in 0 .. Retries + 1
    BY <1>3, EventAssumption
  <1>5. tries' \in [Hosts -> 0 .. Retries + 1]
    BY <1>4 DEF InsertFails, TypeOK
  <1>6. /\ UNCHANGED <<brokerVars, marked, handlerVars, buffer, timer, chain, failed, won, lost>>
        /\ expiries' = expiries
    BY DEF InsertFails, Fault
  <1>7. QED
    BY <1>2, <1>5, <1>6 DEF TypeOK, brokerVars, handlerVars

\* Giving an event up shortens the first batch, or ends it.
LEMMA NextOfBatchType ==
    ASSUME TypeOK, NEW h \in Hosts, chain[h] # <<>>, NEW e \in Batch(h), NextOfBatch(h, e)
    PROVE  /\ chain' \in [Hosts -> Seq(SUBSET Events)]
           /\ tries' \in [Hosts -> 0 .. Retries + 1]
  <1>1. Batch(h) \ {e} \in SUBSET Events /\ Tail(chain[h]) \in Seq(SUBSET Events)
    BY BatchType
  <1>2. <<Batch(h) \ {e}>> \o Tail(chain[h]) \in Seq(SUBSET Events)
    <2>1. chain[h] \in Seq(SUBSET Events)
      BY DEF TypeOK
    <2>2. QED
      BY <1>1, <2>1, Shrunk
  <1>3. CASE Batch(h) # {e}
    BY <1>2, <1>3 DEF NextOfBatch, TypeOK, Batch
  <1>4. CASE Batch(h) = {e}
    <2>1. /\ chain' = [chain EXCEPT ![h] = Tail(chain[h])]
          /\ tries' = [tries EXCEPT ![h] = 0]
      BY <1>4 DEF NextOfBatch
    <2>2. 0 \in 0 .. Retries + 1
      BY EventAssumption
    <2>3. QED
      BY <1>1, <2>1, <2>2 DEF TypeOK
  <1>5. QED
    BY <1>3, <1>4

LEMMA GiveUpEventType ==
    ASSUME TypeOK, NEW h \in Hosts, GiveUpEvent(h)
    PROVE  TypeOK'
  <1>1. PICK e \in Batch(h) :
          /\ \/ failed' = failed \cup {e} /\ UNCHANGED <<lost, doubtful>>
             \/ Lose(e) /\ UNCHANGED failed
          /\ NextOfBatch(h, e)
    BY DEF GiveUpEvent
  <1>2. chain[h] # <<>> /\ e \in Events
    BY BatchType DEF GiveUpEvent
  <1>3. chain' \in [Hosts -> Seq(SUBSET Events)] /\ tries' \in [Hosts -> 0 .. Retries + 1]
    BY <1>1, <1>2, NextOfBatchType
  <1>4. failed' \in SUBSET Events /\ lost' \in SUBSET Events /\ doubtful' \in SUBSET Events
    BY <1>1, <1>2 DEF Lose, TypeOK
  <1>5. UNCHANGED <<brokerVars, marked, handlerVars, buffer, timer, stored, won, expiries>>
    BY DEF GiveUpEvent, countVars
  <1>6. QED
    BY <1>3, <1>4, <1>5 DEF TypeOK, brokerVars, handlerVars

\* What a process holds are events.
LEMMA EventsInAre ==
    ASSUME TypeOK, NEW h \in Hosts
    PROVE  /\ EventsIn(h) \in SUBSET Events
           /\ \A e \in Events : e \in EventsIn(h) <=>
                \/ \E w \in HandlersOf(h) : event[w] = e
                \/ e \in buffer[h]
                \/ \E i \in DOMAIN chain[h] : e \in chain[h][i]
  <1>1. chain[h] \in Seq(SUBSET Events) /\ buffer[h] \in SUBSET Events
    BY DEF TypeOK
  <1>2. \A i \in DOMAIN chain[h] : chain[h][i] \in SUBSET Events
    BY <1>1
  <1>3. Chained(h) \in SUBSET Events /\ \A e : e \in Chained(h) <=> \E i \in DOMAIN chain[h] : e \in chain[h][i]
    BY <1>2 DEF Chained
  <1>4. \A w \in HandlersOf(h) : event[w] \in Events \cup {NoEvent}
    BY DEF HandlersOf, TypeOK
  <1>5. QED
    BY <1>1, <1>3, <1>4, NoEventIsNone DEF EventsIn

LEMMA EndType ==
    ASSUME TypeOK, NEW h \in Hosts, End(h)
    PROVE  TypeOK'
  <1>1. queue' \in [Message -> Nat]
    <2> DEFINE Out(m) == Cardinality({w \in HandlersOf(h) : owned[w] /\ msg[w] = m})
    <2>1. \A m \in Message : Out(m) \in Nat
      <3>1. IsFiniteSet(Workers)
        BY EventAssumption
      <3>2. \A m \in Message : {w \in HandlersOf(h) : owned[w] /\ msg[w] = m} \subseteq Workers
        BY DEF HandlersOf
      <3>3. QED
        BY <3>1, <3>2, FS_Subset, FS_CardinalityType
    <2>2. queue' = [m \in Message |-> queue[m] + Out(m)]
      BY DEF End
    <2> HIDE DEF Out
    <2>3. QED
      BY <2>1, <2>2 DEF TypeOK
  <1>2. lost' \in SUBSET Events
    BY EventsInAre DEF End, TypeOK
  <1>3. /\ pc' \in [Workers -> Steps] /\ msg' \in [Workers -> Message \cup {NoMessage}]
        /\ owned' \in [Workers -> BOOLEAN] /\ event' \in [Workers -> Events \cup {NoEvent}]
    BY DEF End, TypeOK, Steps
  <1>4. /\ buffer' \in [Hosts -> SUBSET Events] /\ timer' \in [Hosts -> BOOLEAN]
        /\ tries' \in [Hosts -> 0 .. Retries + 1]
    BY EventAssumption DEF End, TypeOK
  <1>5. chain' \in [Hosts -> Seq(SUBSET Events)]
    <2>1. <<>> \in Seq(SUBSET Events)
      OBVIOUS
    <2>2. QED
      BY <2>1 DEF End, TypeOK
  <1>6. \A g \in Hosts : IsFiniteSet(buffer'[g]) /\ Cardinality(buffer'[g]) < BatchSize
    <2>1. \A g \in Hosts : buffer'[g] = IF g = h THEN {} ELSE buffer[g]
      BY DEF End, TypeOK
    <2>2. IsFiniteSet({}) /\ Cardinality({}) < BatchSize
      BY FS_EmptySet, EventAssumption
    <2>3. QED
      BY <2>1, <2>2 DEF TypeOK
  <1>7. UNCHANGED <<sent, dead, marked, outputVars, won, doubtful, expiries>>
    BY DEF End
  <1>8. QED
    BY <1>1, <1>2, <1>3, <1>4, <1>5, <1>6, <1>7 DEF TypeOK, outputVars

LEMMA TypeStep ==
    ASSUME TypeOK, HandlersInv, [Next]_vars
    PROVE  TypeOK'
  <1>1. ASSUME NEW p \in Payloads, Receive(p) \/ Expire(p) PROVE TypeOK'
    BY <1>1, ReceiveType, ExpireType
  <1>2. ASSUME NEW w \in Workers, Step(w) \/ CheckFails(w) \/ ReplyLost(w) \/ LoseChannel(w)
        PROVE  TypeOK'
    BY <1>2, DeliverType, ValidateType, CheckAndMarkType, EnqueueType, FinishType,
       CheckFailsType, ReplyLostType, LoseChannelType DEF Step
  <1>3. ASSUME NEW h \in Hosts, Write(h) \/ InsertFails(h) \/ Crash(h) \/ Stop(h)
        PROVE  TypeOK'
    BY <1>3, TimerFiresType, InsertType, GiveUpEventType, InsertFailsType, EndType
       DEF Write, Crash, Stop
  <1>4. CASE UNCHANGED vars
    BY <1>4 DEF TypeOK, vars, brokerVars, handlerVars, writerVars, outputVars, historyVars,
                countVars
  <1>5. QED
    BY <1>1, <1>2, <1>3, <1>4 DEF Next

-----------------------------------------------------------------------------
(* The handlers.                                                           *)

\* A handler that settles has no copy, no event and nothing left to do.
LEMMA SettleKeeps ==
    ASSUME TypeOK, HandlersInv, NEW w \in Workers, Settle(w), pc[w] # "enqueue",
           UNCHANGED event
    PROVE  HandlersInv'
  <1>1. ASSUME NEW v \in Workers
        PROVE  /\ pc'[v] = IF v = w THEN "idle" ELSE pc[v]
               /\ msg'[v] = IF v = w THEN NoMessage ELSE msg[v]
               /\ owned'[v] = IF v = w THEN FALSE ELSE owned[v]
               /\ event'[v] = event[v]
    BY DEF Settle, Goto, TypeOK
  <1>2. QED
    BY <1>1 DEF HandlersInv, Payload

\* So is every step of one handler to a next step.
LEMMA GotoKeeps ==
    ASSUME TypeOK, HandlersInv, NEW w \in Workers, NEW step \in Steps, Goto(w, step),
           UNCHANGED <<msg, owned>>,
           step # "idle", pc[w] # "idle",
           step \in {"check", "enqueue"} => Payload(w) \in Genuine,
           \A v \in Workers : v # w => event'[v] = event[v],
           event'[w] # NoEvent <=> step = "enqueue"
    PROVE  HandlersInv'
  <1>1. ASSUME NEW v \in Workers
        PROVE  /\ pc'[v] = IF v = w THEN step ELSE pc[v]
               /\ msg'[v] = msg[v] /\ owned'[v] = owned[v]
    BY DEF Goto, TypeOK
  <1>2. QED
    BY <1>1 DEF HandlersInv, Payload

LEMMA DeliverHandlers ==
    ASSUME TypeOK, HandlersInv, NEW w \in Workers, NEW m \in Message, Deliver(w, m)
    PROVE  HandlersInv'
  <1>1. ASSUME NEW v \in Workers
        PROVE  /\ pc'[v] = IF v = w THEN "validate" ELSE pc[v]
               /\ msg'[v] = IF v = w THEN m ELSE msg[v]
               /\ owned'[v] = IF v = w THEN TRUE ELSE owned[v]
               /\ event'[v] = event[v]
    BY DEF Deliver, Goto, TypeOK
  <1>2. pc[w] = "idle"
    BY DEF Deliver
  <1>3. QED
    BY <1>1, <1>2 DEF HandlersInv, Payload

LEMMA ValidateHandlers ==
    ASSUME TypeOK, HandlersInv, NEW w \in Workers, Validate(w)
    PROVE  HandlersInv'
  <1>1. pc[w] = "validate" /\ event[w] = NoEvent /\ UNCHANGED <<msg, owned, event>>
    BY DEF Validate, HandlersInv
  <1>2. CASE Payload(w) \in Genuine
    <2>1. Goto(w, "check")
      BY <1>2 DEF Validate
    <2>2. QED
      BY <1>1, <1>2, <2>1, GotoKeeps DEF Steps
  <1>3. CASE Payload(w) \notin Genuine
    <2>1. Goto(w, "ack")
      BY <1>3 DEF Validate
    <2>2. QED
      BY <1>1, <2>1, GotoKeeps DEF Steps
  <1>4. QED
    BY <1>2, <1>3

LEMMA CheckAndMarkHandlers ==
    ASSUME TypeOK, HandlersInv, NEW w \in Workers, CheckAndMark(w)
    PROVE  HandlersInv'
  <1>1. /\ pc[w] = "check" /\ event[w] = NoEvent /\ UNCHANGED <<msg, owned>>
        /\ Payload(w) \in Genuine
    BY DEF CheckAndMark, HandlersInv
  <1>2. CASE Payload(w) \in marked
    <2>1. Goto(w, "ack") /\ UNCHANGED event
      BY <1>2 DEF CheckAndMark
    <2>2. QED
      BY <1>1, <2>1, GotoKeeps DEF Steps
  <1>3. CASE Payload(w) \notin marked
    <2>1. Goto(w, "enqueue") /\ Makes(w)
      BY <1>3 DEF CheckAndMark
    <2>2. event'[w] \in Events /\ \A v \in Workers : v # w => event'[v] = event[v]
      BY <1>1, <2>1, NextEventType DEF Makes, TypeOK
    <2>3. event'[w] # NoEvent
      BY <2>2, NoEventIsNone
    <2>4. QED
      BY <1>1, <2>1, <2>2, <2>3, GotoKeeps DEF Steps
  <1>4. QED
    BY <1>2, <1>3

LEMMA EnqueueHandlers ==
    ASSUME TypeOK, HandlersInv, NEW w \in Workers, Enqueue(w)
    PROVE  HandlersInv'
  <1>1. /\ pc[w] = "enqueue" /\ Goto(w, "ack") /\ UNCHANGED <<msg, owned>>
        /\ event' = [event EXCEPT ![w] = NoEvent]
    BY DEF Enqueue
  <1>2. event'[w] = NoEvent /\ \A v \in Workers : v # w => event'[v] = event[v]
    BY <1>1 DEF TypeOK
  <1>3. QED
    BY <1>1, <1>2, GotoKeeps DEF Steps

LEMMA ReplyLostHandlers ==
    ASSUME TypeOK, HandlersInv, NEW w \in Workers, ReplyLost(w)
    PROVE  HandlersInv'
  <1>1. pc[w] = "check" /\ event[w] = NoEvent /\ UNCHANGED event
    BY DEF ReplyLost, HandlersInv
  <1>2. CASE Requeue(w)
    BY <1>1, <1>2, SettleKeeps DEF Requeue
  <1>3. CASE Goto(w, "ack") /\ UNCHANGED <<queue, dead, msg, owned>>
    BY <1>1, <1>3, GotoKeeps DEF Steps
  <1>4. QED
    BY <1>2, <1>3 DEF ReplyLost

LEMMA LoseChannelHandlers ==
    ASSUME TypeOK, HandlersInv, NEW w \in Workers, LoseChannel(w)
    PROVE  HandlersInv'
  <1>1. \A v \in Workers : owned'[v] = IF v = w THEN FALSE ELSE owned[v]
    BY DEF LoseChannel, TypeOK
  <1>2. UNCHANGED <<pc, msg, event>>
    BY DEF LoseChannel
  <1>3. QED
    BY <1>1, <1>2 DEF HandlersInv, Payload

LEMMA EndHandlers ==
    ASSUME TypeOK, HandlersInv, NEW h \in Hosts, End(h)
    PROVE  HandlersInv'
  <1>1. ASSUME NEW v \in Workers
        PROVE  /\ pc'[v] = IF v \in HandlersOf(h) THEN "idle" ELSE pc[v]
               /\ msg'[v] = IF v \in HandlersOf(h) THEN NoMessage ELSE msg[v]
               /\ event'[v] = IF v \in HandlersOf(h) THEN NoEvent ELSE event[v]
    BY DEF End
  <1>2. \A v \in Workers : owned'[v] <=> owned[v] /\ v \notin HandlersOf(h)
    BY DEF End
  <1>3. QED
    BY <1>1, <1>2 DEF HandlersInv, Payload

\* The writer of a process leaves its handlers alone.
LEMMA HandlersElsewhere ==
    ASSUME HandlersInv, UNCHANGED handlerVars
    PROVE  HandlersInv'
  BY DEF HandlersInv, handlerVars, Payload

LEMMA HandlersStep ==
    ASSUME TypeOK, HandlersInv, [Next]_vars
    PROVE  HandlersInv'
  <1>1. ASSUME NEW p \in Payloads, Receive(p) \/ Expire(p) PROVE HandlersInv'
    BY <1>1, HandlersElsewhere DEF Receive, Expire
  <1>2. ASSUME NEW w \in Workers, Step(w) \/ CheckFails(w) \/ ReplyLost(w) \/ LoseChannel(w)
        PROVE  HandlersInv'
    <2>1. CASE Finish(w)
      BY <2>1, SettleKeeps DEF Finish
    <2>2. CASE CheckFails(w)
      BY <2>2, SettleKeeps DEF CheckFails, Requeue
    <2>3. QED
      BY <1>2, <2>1, <2>2, DeliverHandlers, ValidateHandlers, CheckAndMarkHandlers,
         EnqueueHandlers, ReplyLostHandlers, LoseChannelHandlers DEF Step
  <1>3. ASSUME NEW h \in Hosts, Write(h) \/ InsertFails(h) \/ Crash(h) \/ Stop(h)
        PROVE  HandlersInv'
    <2>1. CASE TimerFires(h) \/ Insert(h) \/ GiveUpEvent(h) \/ InsertFails(h)
      BY <2>1, HandlersElsewhere DEF TimerFires, Insert, GiveUpEvent, InsertFails
    <2>2. CASE End(h)
      BY <2>2, EndHandlers
    <2>3. QED
      BY <1>3, <2>1, <2>2 DEF Write, Crash, Stop
  <1>4. CASE UNCHANGED vars
    BY <1>4, HandlersElsewhere DEF vars
  <1>5. QED
    BY <1>1, <1>2, <1>3, <1>4 DEF Next

-----------------------------------------------------------------------------
(* The idempotency keys.                                                   *)

\* Setting the key of an unmarked payload makes one more event.
LEMMA WinKeepsMarks ==
    ASSUME TypeOK, MarkInv, NEW p \in Genuine, p \notin marked,
           marked' = marked \cup {p}, Win(p), expiries' = expiries
    PROVE  MarkInv'
  <1>1. /\ \A q \in Genuine : won[q] \in Nat /\ won'[q] = IF q = p THEN won[q] + 1 ELSE won[q]
        /\ expiries \in Nat
    BY DEF Win, TypeOK, Payloads
  <1>2. QED
    BY <1>1 DEF MarkInv

LEMMA MarksElsewhere ==
    ASSUME MarkInv, UNCHANGED <<won, marked, expiries>>
    PROVE  MarkInv'
  BY DEF MarkInv

LEMMA ExpireMarks ==
    ASSUME TypeOK, MarkInv, NEW p \in Payloads, Expire(p)
    PROVE  MarkInv'
  <1>1. /\ marked' = marked \ {p} /\ expiries' = expiries + 1 /\ won' = won
        /\ expiries \in Nat /\ p \in marked
    BY DEF Expire, historyVars, TypeOK
  <1>2. \A q \in Genuine : won[q] \in Nat
    BY DEF TypeOK, Payloads
  <1>3. QED
    BY <1>1, <1>2 DEF MarkInv

LEMMA CheckAndMarkMarks ==
    ASSUME TypeOK, HandlersInv, MarkInv, NEW w \in Workers, CheckAndMark(w)
    PROVE  MarkInv'
  <1>1. /\ Payload(w) \in Genuine /\ marked' = marked \cup {Payload(w)}
        /\ expiries' = expiries
    BY DEF HandlersInv, CheckAndMark, countVars
  <1>2. CASE Payload(w) \in marked
    <2>1. marked' = marked /\ won' = won
      BY <1>1, <1>2 DEF CheckAndMark
    <2>2. QED
      BY <1>1, <2>1, MarksElsewhere
  <1>3. CASE Payload(w) \notin marked
    <2>1. Win(Payload(w))
      BY <1>3 DEF CheckAndMark, Makes
    <2>2. QED
      BY <1>1, <1>3, <2>1, WinKeepsMarks
  <1>4. QED
    BY <1>2, <1>3

LEMMA ReplyLostMarks ==
    ASSUME TypeOK, HandlersInv, MarkInv, NEW w \in Workers, ReplyLost(w)
    PROVE  MarkInv'
  <1>1. /\ Payload(w) \in Genuine /\ marked' = marked \cup {Payload(w)}
        /\ expiries' = expiries
    BY DEF HandlersInv, ReplyLost, Fault
  <1>2. CASE Payload(w) \in marked
    <2>1. marked' = marked /\ won' = won
      BY <1>1, <1>2 DEF ReplyLost, historyVars
    <2>2. QED
      BY <1>1, <2>1, MarksElsewhere
  <1>3. CASE Payload(w) \notin marked
    <2>1. Win(Payload(w))
      BY <1>3 DEF ReplyLost
    <2>2. QED
      BY <1>1, <1>3, <2>1, WinKeepsMarks
  <1>4. QED
    BY <1>2, <1>3

LEMMA MarksStep ==
    ASSUME TypeOK, HandlersInv, MarkInv, [Next]_vars
    PROVE  MarkInv'
  <1>1. ASSUME NEW p \in Payloads, Receive(p) \/ Expire(p) PROVE MarkInv'
    BY <1>1, ExpireMarks, MarksElsewhere DEF Receive, historyVars, countVars
  <1>2. ASSUME NEW w \in Workers, Step(w) \/ CheckFails(w) \/ ReplyLost(w) \/ LoseChannel(w)
        PROVE  MarkInv'
    <2>1. CASE \/ \E m \in Message : Deliver(w, m)
               \/ Validate(w) \/ Enqueue(w) \/ Finish(w) \/ CheckFails(w) \/ LoseChannel(w)
      BY <2>1, MarksElsewhere DEF Deliver, Validate, Enqueue, Finish, CheckFails, LoseChannel,
         Fault, historyVars, countVars
    <2>2. QED
      BY <1>2, <2>1, CheckAndMarkMarks, ReplyLostMarks DEF Step
  <1>3. ASSUME NEW h \in Hosts, Write(h) \/ InsertFails(h) \/ Crash(h) \/ Stop(h)
        PROVE  MarkInv'
    BY <1>3, MarksElsewhere DEF Write, TimerFires, Insert, GiveUpEvent, InsertFails, Crash,
       Stop, End, Fault, historyVars, countVars
  <1>4. CASE UNCHANGED vars
    BY <1>4, MarksElsewhere DEF vars, historyVars, countVars
  <1>5. QED
    BY <1>1, <1>2, <1>3, <1>4 DEF Next

-----------------------------------------------------------------------------
(* The verdicts.                                                           *)

\* A payload waits for its verdict when a copy of it waits or is at a handler
\* that has not decided, and only those steps matter that take one of them away.
LEMMA StillUndecided ==
    ASSUME NEW p, Undecided(p),
           Waiting(queue) \subseteq Waiting(queue'), Waiting(dead) \subseteq Waiting(dead'),
           NEW w \in Workers,
           \A v \in Workers : v # w => pc'[v] = pc[v] /\ msg'[v] = msg[v] /\ owned'[v] = owned[v],
           owned[w] /\ Payload(w) = p /\ pc[w] \in {"validate", "check"} => Undecided(p)'
    PROVE  Undecided(p)'
  <1>1. CASE \E m \in Waiting(queue) \cup Waiting(dead) : m.body = p
    BY <1>1 DEF Undecided
  <1>2. CASE \E v \in Workers : owned[v] /\ Payload(v) = p /\ pc[v] \in {"validate", "check"}
    <2>1. PICK v \in Workers : owned[v] /\ Payload(v) = p /\ pc[v] \in {"validate", "check"}
      BY <1>2
    <2>2. CASE v # w
      BY <2>1, <2>2 DEF Undecided, Payload
    <2>3. CASE v = w
      BY <2>1, <2>3
    <2>4. QED
      BY <2>2, <2>3
  <1>3. QED
    BY <1>1, <1>2 DEF Undecided

LEMMA GotoElsewhere ==
    ASSUME TypeOK, NEW w \in Workers, NEW step, Goto(w, step), UNCHANGED <<msg, owned>>
    PROVE  \A v \in Workers : v # w => pc'[v] = pc[v] /\ msg'[v] = msg[v] /\ owned'[v] = owned[v]
  BY DEF Goto, TypeOK

LEMMA SettleElsewhere ==
    ASSUME TypeOK, NEW w \in Workers, Settle(w)
    PROVE  \A v \in Workers : v # w => pc'[v] = pc[v] /\ msg'[v] = msg[v] /\ owned'[v] = owned[v]
  BY DEF Settle, Goto, TypeOK

\* A copy that is sent back keeps its payload waiting, in the queue or dead-lettered.
LEMMA RequeueKeeps ==
    ASSUME TypeOK, HandlersInv, NEW w \in Workers, pc[w] # "idle", Requeue(w),
           NEW p, Undecided(p)
    PROVE  Undecided(p)'
  <1>1. msg[w] \in Messages(Payloads)
    BY BrokerTypes DEF HandlersInv
  <1>2. \A v \in Workers : v # w => pc'[v] = pc[v] /\ msg'[v] = msg[v] /\ owned'[v] = owned[v]
    BY SettleElsewhere DEF Requeue
  <1>3. CASE owned[w]
    <2>1. /\ queue' = QueueAfterNack(queue, msg[w])
          /\ dead' = DeadAfterNack(dead, msg[w])
      BY <1>3 DEF Requeue
    <2>2. /\ Waiting(queue) \subseteq Waiting(queue') /\ Waiting(dead) \subseteq Waiting(dead')
          /\ \E n \in Waiting(queue') \cup Waiting(dead') : n.body = msg[w].body
      BY <1>1, <2>1, BrokerTypes, NackKeeps
    <2>3. Payload(w) = p => Undecided(p)'
      BY <2>2 DEF Undecided, Payload
    <2>4. QED
      BY <1>2, <2>2, <2>3, StillUndecided
  <1>4. CASE ~ owned[w]
    <2>1. UNCHANGED <<queue, dead>>
      BY <1>4 DEF Requeue
    <2>2. QED
      BY <1>2, <1>4, <2>1, StillUndecided
  <1>5. QED
    BY <1>3, <1>4

LEMMA DeliverKeeps ==
    ASSUME TypeOK, NEW w \in Workers, NEW m \in Message, Deliver(w, m), NEW p, Undecided(p)
    PROVE  Undecided(p)'
  <1>1. /\ pc'[w] = "validate" /\ msg'[w] = m /\ owned'[w]
        /\ \A v \in Workers : v # w => pc'[v] = pc[v] /\ msg'[v] = msg[v] /\ owned'[v] = owned[v]
    BY DEF Deliver, Goto, TypeOK
  <1>2. Waiting(queue) \subseteq Waiting(queue') \cup {m} /\ dead' = dead /\ pc[w] = "idle"
    BY WaitingAfter DEF Deliver, TypeOK
  <1>3. m.body = p => Undecided(p)'
    BY <1>1 DEF Undecided, Payload
  <1>4. CASE \E n \in Waiting(queue) \cup Waiting(dead) : n.body = p
    BY <1>2, <1>3, <1>4 DEF Undecided
  <1>5. CASE \E v \in Workers : owned[v] /\ Payload(v) = p /\ pc[v] \in {"validate", "check"}
    BY <1>1, <1>2, <1>5 DEF Undecided, Payload
  <1>6. QED
    BY <1>4, <1>5 DEF Undecided

LEMMA ValidateKeeps ==
    ASSUME TypeOK, NEW w \in Workers, Validate(w), NEW p \in Genuine, Undecided(p)
    PROVE  Undecided(p)'
  <1>1. UNCHANGED <<queue, dead, msg, owned>>
    BY DEF Validate, brokerVars
  <1>2. \A v \in Workers : v # w => pc'[v] = pc[v] /\ msg'[v] = msg[v] /\ owned'[v] = owned[v]
    BY <1>1, GotoElsewhere DEF Validate
  <1>3. Payload(w) = p => pc'[w] = "check"
    BY DEF Validate, Goto, TypeOK
  <1>4. owned[w] /\ Payload(w) = p => Undecided(p)'
    BY <1>1, <1>3 DEF Undecided, Payload
  <1>5. QED
    BY <1>1, <1>2, <1>4, StillUndecided

LEMMA LoseChannelKeeps ==
    ASSUME TypeOK, HandlersInv, NEW w \in Workers, LoseChannel(w), NEW p, Undecided(p)
    PROVE  Undecided(p)'
  <1>1. msg[w] \in Message /\ UNCHANGED <<dead, pc, msg>>
    BY DEF LoseChannel, HandlersInv
  <1>2. Waiting(queue') = Waiting(queue) \cup {msg[w]}
    <2>1. queue \in [Message -> Nat] /\ queue' = Add(queue, msg[w])
      BY DEF LoseChannel, TypeOK
    <2>2. Waiting(Add(queue, msg[w])) = Waiting(queue) \cup {msg[w]}
      BY <1>1, <2>1, WaitingAfter
    <2>3. QED
      BY <2>1, <2>2
  <1>3. \A v \in Workers : v # w => pc'[v] = pc[v] /\ msg'[v] = msg[v] /\ owned'[v] = owned[v]
    BY <1>1 DEF LoseChannel, TypeOK
  <1>4. Payload(w) = p => Undecided(p)'
    BY <1>2 DEF Undecided, Payload
  <1>5. QED
    BY <1>1, <1>2, <1>3, <1>4, StillUndecided

\* The copies a process had return to the queue when it ends.
LEMMA EndKeeps ==
    ASSUME TypeOK, HandlersInv, NEW h \in Hosts, End(h), NEW p, Undecided(p)
    PROVE  Undecided(p)'
  <1> DEFINE Mine(m) == {w \in HandlersOf(h) : owned[w] /\ msg[w] = m}
  <1>1. \A m \in Message : IsFiniteSet(Mine(m)) /\ Cardinality(Mine(m)) \in Nat
    <2>1. \A m \in Message : Mine(m) \subseteq Workers
      BY DEF HandlersOf
    <2>2. QED
      BY <2>1, EventAssumption, FS_Subset, FS_CardinalityType
  <1>2. \A m \in Message : Mine(m) # {} => Cardinality(Mine(m)) > 0
    BY <1>1, FS_EmptySet
  <1>3. queue' = [m \in Message |-> queue[m] + Cardinality(Mine(m))]
    BY DEF End
  <1>4. \A w \in HandlersOf(h) : owned[w] => msg[w] \in Message /\ w \in Mine(msg[w])
    BY DEF HandlersInv, HandlersOf
  <1> HIDE DEF Mine
  <1>5. Waiting(queue) \subseteq Waiting(queue')
    BY <1>1, <1>3 DEF Waiting, TypeOK
  <1>6. \A w \in HandlersOf(h) : owned[w] => msg[w] \in Waiting(queue')
    BY <1>1, <1>2, <1>3, <1>4 DEF Waiting, TypeOK
  <1>7. CASE \E m \in Waiting(queue) \cup Waiting(dead) : m.body = p
    BY <1>5, <1>7 DEF Undecided, End
  <1>8. CASE \E v \in Workers : owned[v] /\ Payload(v) = p /\ pc[v] \in {"validate", "check"}
    <2>1. PICK v \in Workers : owned[v] /\ Payload(v) = p /\ pc[v] \in {"validate", "check"}
      BY <1>8
    <2>2. CASE v \in HandlersOf(h)
      BY <1>6, <2>1, <2>2 DEF Undecided, Payload
    <2>3. CASE v \notin HandlersOf(h)
      <3>1. owned'[v] /\ msg'[v] = msg[v] /\ pc'[v] = pc[v]
        BY <2>1, <2>3 DEF End
      <3>2. QED
        BY <2>1, <3>1 DEF Undecided, Payload
    <2>4. QED
      BY <2>2, <2>3
  <1>9. QED
    BY <1>7, <1>8 DEF Undecided

\* Once a payload has its verdict it keeps it.
LEMMA VerdictKeeps ==
    ASSUME TypeOK, VerdictInv, UNCHANGED sent,
           \A p \in Genuine : won[p] > 0 => won'[p] > 0,
           \A p \in Genuine : Undecided(p) => Undecided(p)' \/ won'[p] > 0
    PROVE  VerdictInv'
  BY DEF VerdictInv

LEMMA UndecidedElsewhere ==
    ASSUME VerdictInv, UNCHANGED <<sent, won, queue, dead, pc, msg, owned>>
    PROVE  VerdictInv'
  BY DEF VerdictInv, Undecided, Payload

LEMMA ReceiveVerdicts ==
    ASSUME TypeOK, VerdictInv, NEW p \in Payloads, Receive(p)
    PROVE  VerdictInv'
  <1>1. FirstCopy(p) \in Message /\ FirstCopy(p).body = p
    BY FirstCopyType DEF Message
  <1>2. Waiting(queue') = Waiting(queue) \cup {FirstCopy(p)}
    BY <1>1, WaitingAfter DEF Receive, TypeOK
  <1>3. UNCHANGED <<dead, pc, msg, owned, won>>
    BY DEF Receive, handlerVars, historyVars
  <1>4. \A q \in Genuine : Undecided(q) => Undecided(q)'
    BY <1>2, <1>3 DEF Undecided, Payload
  <1>5. Undecided(p)'
    BY <1>1, <1>2 DEF Undecided
  <1>6. \A q \in Genuine : q # p => sent'[q] = sent[q]
    BY DEF Receive, TypeOK, Payloads
  <1>7. QED
    BY <1>3, <1>4, <1>5, <1>6 DEF VerdictInv

\* The verdict: the payload has an event, this one or an earlier one.
LEMMA MarkDecides ==
    ASSUME TypeOK, MarkInv, NEW p \in Genuine,
           IF p \in marked THEN UNCHANGED won ELSE Win(p)
    PROVE  won'[p] > 0 /\ \A q \in Genuine : won[q] > 0 => won'[q] > 0
  <1>1. \A q \in Genuine : won[q] \in Nat /\ q \in Payloads
    BY DEF TypeOK, Payloads
  <1>2. CASE p \in marked
    BY <1>1, <1>2 DEF MarkInv
  <1>3. CASE p \notin marked
    <2>1. Win(p)
      BY <1>3
    <2>2. \A q \in Genuine : won'[q] = IF q = p THEN won[q] + 1 ELSE won[q]
      BY <1>1, <2>1 DEF Win, TypeOK
    <2>3. QED
      BY <1>1, <2>2
  <1>4. QED
    BY <1>2, <1>3

LEMMA CheckAndMarkVerdicts ==
    ASSUME TypeOK, HandlersInv, MarkInv, VerdictInv, NEW w \in Workers, CheckAndMark(w)
    PROVE  VerdictInv'
  <1>1. /\ Payload(w) \in Genuine /\ UNCHANGED <<sent, queue, dead, msg, owned>>
        /\ IF Payload(w) \in marked THEN UNCHANGED won ELSE Win(Payload(w))
    BY DEF HandlersInv, CheckAndMark, Makes, brokerVars
  <1>2. won'[Payload(w)] > 0 /\ \A q \in Genuine : won[q] > 0 => won'[q] > 0
    BY <1>1, MarkDecides
  <1>3. \A v \in Workers : v # w => pc'[v] = pc[v] /\ msg'[v] = msg[v] /\ owned'[v] = owned[v]
    BY <1>1, GotoElsewhere DEF CheckAndMark
  <1>4. \A q \in Genuine : q # Payload(w) /\ Undecided(q) => Undecided(q)'
    BY <1>1, <1>3, StillUndecided
  <1>5. QED
    BY <1>1, <1>2, <1>4, VerdictKeeps

LEMMA ReplyLostVerdicts ==
    ASSUME TypeOK, HandlersInv, MarkInv, VerdictInv, NEW w \in Workers, ReplyLost(w)
    PROVE  VerdictInv'
  <1>1. /\ Payload(w) \in Genuine /\ UNCHANGED sent /\ pc[w] # "idle"
        /\ IF Payload(w) \in marked THEN UNCHANGED won ELSE Win(Payload(w))
    BY DEF HandlersInv, ReplyLost, historyVars
  <1>2. won'[Payload(w)] > 0 /\ \A q \in Genuine : won[q] > 0 => won'[q] > 0
    BY <1>1, MarkDecides
  <1>3. \A q \in Genuine : q # Payload(w) /\ Undecided(q) => Undecided(q)'
    <2>1. CASE Requeue(w)
      BY <1>1, <2>1, RequeueKeeps
    <2>2. CASE Goto(w, "ack") /\ UNCHANGED <<queue, dead, msg, owned>>
      BY <2>2, GotoElsewhere, StillUndecided
    <2>3. QED
      BY <2>1, <2>2 DEF ReplyLost
  <1>4. QED
    BY <1>1, <1>2, <1>3, VerdictKeeps

LEMMA HandlerVerdicts ==
    ASSUME TypeOK, HandlersInv, MarkInv, VerdictInv, NEW w \in Workers,
           Step(w) \/ CheckFails(w) \/ ReplyLost(w) \/ LoseChannel(w)
    PROVE  VerdictInv'
  <1>1. ASSUME NEW m \in Message, Deliver(w, m) PROVE VerdictInv'
    BY <1>1, DeliverKeeps, VerdictKeeps DEF Deliver, historyVars
  <1>2. CASE Validate(w)
    BY <1>2, ValidateKeeps, VerdictKeeps DEF Validate, brokerVars, historyVars
  <1>3. CASE Enqueue(w)
    <2>1. Goto(w, "ack") /\ UNCHANGED <<sent, queue, dead, msg, owned, won>> /\ pc[w] = "enqueue"
      BY <1>3 DEF Enqueue, brokerVars, historyVars
    <2>2. QED
      BY <2>1, GotoElsewhere, StillUndecided, VerdictKeeps
  <1>4. CASE Finish(w)
    <2>1. Settle(w) /\ UNCHANGED <<sent, queue, dead, won>> /\ pc[w] = "ack"
      BY <1>4 DEF Finish, brokerVars, historyVars
    <2>2. QED
      BY <2>1, SettleElsewhere, StillUndecided, VerdictKeeps
  <1>5. CASE CheckFails(w)
    <2>1. Requeue(w) /\ UNCHANGED <<sent, won>> /\ pc[w] # "idle"
      BY <1>5 DEF CheckFails, historyVars
    <2>2. QED
      BY <2>1, RequeueKeeps, VerdictKeeps
  <1>6. CASE LoseChannel(w)
    BY <1>6, LoseChannelKeeps, VerdictKeeps DEF LoseChannel, historyVars
  <1>7. QED
    BY <1>1, <1>2, <1>3, <1>4, <1>5, <1>6, CheckAndMarkVerdicts, ReplyLostVerdicts DEF Step

LEMMA VerdictStep ==
    ASSUME TypeOK, HandlersInv, MarkInv, VerdictInv, [Next]_vars
    PROVE  VerdictInv'
  <1>1. ASSUME NEW p \in Payloads, Receive(p) \/ Expire(p) PROVE VerdictInv'
    BY <1>1, ReceiveVerdicts, UndecidedElsewhere DEF Expire, brokerVars, handlerVars, historyVars
  <1>2. ASSUME NEW h \in Hosts, Write(h) \/ InsertFails(h) \/ Crash(h) \/ Stop(h)
        PROVE  VerdictInv'
    <2>1. CASE TimerFires(h) \/ Insert(h) \/ GiveUpEvent(h) \/ InsertFails(h)
      BY <2>1, UndecidedElsewhere DEF TimerFires, Insert, GiveUpEvent, InsertFails,
         brokerVars, handlerVars, historyVars
    <2>2. CASE End(h)
      BY <2>2, EndKeeps, VerdictKeeps DEF End
    <2>3. QED
      BY <1>2, <2>1, <2>2 DEF Write, Crash, Stop
  <1>3. CASE UNCHANGED vars
    BY <1>3, UndecidedElsewhere DEF vars, brokerVars, handlerVars, historyVars
  <1>4. QED
    BY <1>1, <1>2, <1>3, HandlerVerdicts DEF Next

-----------------------------------------------------------------------------
(* The events.                                                             *)

\* What a step does to the memory of the processes: which events it takes out,
\* and that the others are where they were or together at one new place.
Moves(out) ==
    /\ \A e \in Events : Held(e)' <=> Held(e) /\ e \notin out
    /\ \A e \in Events : AtOnePlace(e) => AtOnePlace(e)'

LEMMA MemoryElsewhere ==
    ASSUME UNCHANGED <<event, buffer, chain>>
    PROVE  Moves({})
  <1>1. \A e : /\ InHand(e)' <=> InHand(e)
               /\ InBuffer(e)' <=> InBuffer(e)
               /\ InChain(e)' <=> InChain(e)
               /\ InOneBatch(e)' <=> InOneBatch(e)
    BY DEF InHand, InBuffer, InChain, InOneBatch, InBatch
  <1>2. QED
    BY <1>1 DEF Moves, Held, AtOnePlace

\* The batches of the processes after one was appended to the chain of a process.
LEMMA FlushMoves ==
    ASSUME TypeOK, NEW h \in Hosts, NEW events \in SUBSET Events, FlushInto(h, events),
           NEW e
    PROVE  /\ InChain(e)' <=> InChain(e) \/ e \in events
           /\ InBuffer(e)' <=> \E g \in Hosts : g # h /\ e \in buffer[g]
           /\ \A f, g \in Hosts : e \in buffer'[f] /\ e \in buffer'[g] =>
                                    e \in buffer[f] /\ e \in buffer[g]
           /\ InOneBatch(e) /\ ~ (InChain(e) /\ e \in events) => InOneBatch(e)'
  <1> DEFINE newest == Len(chain[h]) + 1
  <1>1. chain[h] \in Seq(SUBSET Events)
    BY DEF TypeOK
  <1>2. chain'[h] = Append(chain[h], events) /\ \A g \in Hosts : g # h => chain'[g] = chain[g]
    BY DEF TypeOK, FlushInto
  <1>3. /\ DOMAIN chain[h] = 1 .. Len(chain[h]) /\ Len(chain[h]) \in Nat
        /\ DOMAIN chain'[h] = 1 .. newest
        /\ \A i \in 1 .. Len(chain[h]) : chain'[h][i] = chain[h][i]
        /\ chain'[h][newest] = events
    BY <1>1, <1>2, Appended
  <1>4. newest \in Nat
    BY <1>3
  <1>5. ASSUME NEW g \in Hosts, NEW i \in Nat
        PROVE  InBatch(e, g, i)' <=> InBatch(e, g, i) \/ (g = h /\ i = newest /\ e \in events)
    <2>1. CASE g # h
      BY <1>2, <2>1 DEF InBatch
    <2>2. CASE g = h /\ i = newest
      BY <1>3, <2>2 DEF InBatch
    <2>3. CASE g = h /\ i # newest
      BY <1>3, <2>3 DEF InBatch
    <2>4. QED
      BY <2>1, <2>2, <2>3
  <1> HIDE DEF newest
  <1>6. InChain(e)' <=> InChain(e) \/ e \in events
    BY <1>4, <1>5 DEF InChain
  <1>7. InOneBatch(e) /\ ~ (InChain(e) /\ e \in events) => InOneBatch(e)'
    BY <1>5 DEF InOneBatch, InChain
  <1>8. \A g \in Hosts : buffer'[g] = IF g = h THEN {} ELSE buffer[g]
    BY DEF TypeOK, FlushInto
  <1>9. QED
    BY <1>6, <1>7, <1>8 DEF InBuffer

LEMMA TimerFiresMoves ==
    ASSUME TypeOK, NEW h \in Hosts, TimerFires(h)
    PROVE  Moves({})
  <1>1. FlushInto(h, buffer[h]) /\ buffer[h] \in SUBSET Events /\ UNCHANGED event
    BY DEF TimerFires, TypeOK, handlerVars
  <1>2. ASSUME NEW e \in Events
        PROVE  /\ InHand(e)' <=> InHand(e)
               /\ InChain(e)' <=> InChain(e) \/ e \in buffer[h]
               /\ InBuffer(e)' <=> \E g \in Hosts : g # h /\ e \in buffer[g]
               /\ \A f, g \in Hosts : e \in buffer'[f] /\ e \in buffer'[g] =>
                                        e \in buffer[f] /\ e \in buffer[g]
               /\ InOneBatch(e) /\ ~ (InChain(e) /\ e \in buffer[h]) => InOneBatch(e)'
    BY <1>1, FlushMoves DEF InHand
  <1>3. \A e \in Events : Held(e)' <=> Held(e)
    BY <1>2 DEF Held, InBuffer
  <1>4. ASSUME NEW e \in Events, AtOnePlace(e) PROVE AtOnePlace(e)'
    BY <1>1, <1>2, <1>4 DEF AtOnePlace, InBuffer
  <1>5. QED
    BY <1>3, <1>4 DEF Moves

\* An event goes from its handler to the buffer of the process, or with the
\* buffer to its chain.
LEMMA EnqueueMoves ==
    ASSUME TypeOK, HandlersInv, NEW w \in Workers, Enqueue(w)
    PROVE  Moves({})
  <1> DEFINE h == HostOf[w]
             events == buffer[h] \cup {event[w]}
  <1>1. h \in Hosts /\ event[w] \in Events /\ events \in SUBSET Events
    BY BufferAfter DEF Enqueue
  <1>2. \A v \in Workers : event'[v] = IF v = w THEN NoEvent ELSE event[v]
    BY DEF Enqueue, TypeOK
  <1>3. NoEvent \notin Events
    BY NoEventIsNone
  <1>4. ASSUME NEW e \in Events
        PROVE  /\ InHand(e) <=> InHand(e)' \/ e = event[w]
               /\ AtOnePlace(e) /\ InHand(e)' => e # event[w]
               /\ AtOnePlace(e) => \A u, v \in Workers : event'[u] = e /\ event'[v] = e => u = v
    BY <1>2, <1>3 DEF InHand, AtOnePlace
  <1>5. CASE FlushInto(h, events)
    <2>1. ASSUME NEW e \in Events
          PROVE  /\ InChain(e)' <=> InChain(e) \/ e \in events
                 /\ InBuffer(e)' <=> \E g \in Hosts : g # h /\ e \in buffer[g]
                 /\ \A f, g \in Hosts : e \in buffer'[f] /\ e \in buffer'[g] =>
                                          e \in buffer[f] /\ e \in buffer[g]
                 /\ InOneBatch(e) /\ ~ (InChain(e) /\ e \in events) => InOneBatch(e)'
      BY <1>1, <1>5, FlushMoves
    <2>2. \A e \in Events : e \in events <=> e = event[w] \/ e \in buffer[h]
      OBVIOUS
    <2> HIDE DEF h, events
    <2>3. \A e \in Events : Held(e)' <=> Held(e)
      BY <1>1, <1>4, <2>1, <2>2 DEF Held, InBuffer
    <2>4. ASSUME NEW e \in Events, AtOnePlace(e) PROVE AtOnePlace(e)'
      <3>1. InBuffer(e)' => InBuffer(e) /\ e \notin events
        BY <1>1, <1>4, <2>1, <2>2, <2>4 DEF AtOnePlace, InBuffer
      <3>2. InHand(e)' => e \notin events
        BY <1>1, <1>4, <2>2, <2>4 DEF AtOnePlace, InBuffer
      <3>3. InChain(e) => e \notin events
        BY <1>1, <1>4, <2>2, <2>4 DEF AtOnePlace, InBuffer
      <3>4. QED
        BY <1>4, <2>1, <2>4, <3>1, <3>2, <3>3 DEF AtOnePlace
    <2>5. QED
      BY <2>3, <2>4 DEF Moves
  <1>6. CASE buffer' = [buffer EXCEPT ![h] = events] /\ UNCHANGED chain
    <2>1. \A g \in Hosts : buffer'[g] = IF g = h THEN buffer[g] \cup {event[w]} ELSE buffer[g]
      BY <1>6 DEF TypeOK
    <2>2. \A e : (InChain(e)' <=> InChain(e)) /\ (InOneBatch(e)' <=> InOneBatch(e))
      BY <1>6 DEF InChain, InOneBatch, InBatch
    <2> HIDE DEF h, events
    <2>3. \A e : InBuffer(e)' <=> InBuffer(e) \/ e = event[w]
      BY <1>1, <2>1 DEF InBuffer
    <2>4. \A e \in Events : Held(e)' <=> Held(e)
      BY <1>4, <2>2, <2>3 DEF Held
    <2>5. ASSUME NEW e \in Events, AtOnePlace(e) PROVE AtOnePlace(e)'
      <3>1. \A f, g \in Hosts : e \in buffer'[f] /\ e \in buffer'[g] => f = g
        <4>1. \A f, g \in Hosts : e \in buffer[f] /\ e \in buffer[g] => f = g
          BY <2>5 DEF AtOnePlace
        <4>2. e = event[w] => \A f \in Hosts : e \notin buffer[f]
          BY <2>5 DEF AtOnePlace, InHand, InBuffer
        <4>3. QED
          BY <1>1, <2>1, <4>1, <4>2
      <3>2. QED
        BY <1>4, <2>2, <2>3, <2>5, <3>1 DEF AtOnePlace
    <2>6. QED
      BY <2>4, <2>5 DEF Moves
  <1>7. QED
    BY <1>5, <1>6 DEF Enqueue

\* Only the chains change, and every event of a batch was in one before.
LEMMA ChainMoves ==
    ASSUME EventInv, NEW out, UNCHANGED <<event, buffer>>,
           \A e \in out : InChain(e),
           \A e \in Events : InChain(e)' <=> InChain(e) /\ e \notin out,
           \A e \in Events : InOneBatch(e) => InOneBatch(e)'
    PROVE  Moves(out)
  <1>1. \A e : (InHand(e)' <=> InHand(e)) /\ (InBuffer(e)' <=> InBuffer(e))
    BY DEF InHand, InBuffer
  <1>2. \A e \in Events : AtOnePlace(e)
    BY DEF EventInv, Accounted
  <1>3. \A e \in Events : Held(e)' <=> Held(e) /\ e \notin out
    BY <1>1, <1>2 DEF Held, AtOnePlace
  <1>4. \A e \in Events : AtOnePlace(e) => AtOnePlace(e)'
    BY <1>1 DEF AtOnePlace
  <1>5. QED
    BY <1>3, <1>4 DEF Moves

LEMMA FirstBatch ==
    ASSUME TypeOK, NEW h \in Hosts, chain[h] # <<>>
    PROVE  /\ Batch(h) = chain[h][1] /\ Batch(h) \in SUBSET Events
           /\ DOMAIN chain[h] = 1 .. Len(chain[h]) /\ Len(chain[h]) \in Nat \ {0}
           /\ DOMAIN Tail(chain[h]) = 1 .. Len(chain[h]) - 1
           /\ \A i \in 1 .. Len(chain[h]) - 1 : Tail(chain[h])[i] = chain[h][i + 1]
           /\ \A e : e \in Batch(h) <=> InBatch(e, h, 1)
           /\ \A e \in Batch(h) : InChain(e)
  <1>1. chain[h] \in Seq(SUBSET Events)
    BY DEF TypeOK
  <1>2. /\ Batch(h) = chain[h][1] /\ Batch(h) \in SUBSET Events
        /\ DOMAIN chain[h] = 1 .. Len(chain[h]) /\ Len(chain[h]) \in Nat \ {0}
        /\ DOMAIN Tail(chain[h]) = 1 .. Len(chain[h]) - 1
        /\ \A i \in 1 .. Len(chain[h]) - 1 : Tail(chain[h])[i] = chain[h][i + 1]
    BY <1>1, Rest DEF Batch
  <1>3. \A e : e \in Batch(h) <=> InBatch(e, h, 1)
    BY <1>2 DEF InBatch
  <1>4. \A e \in Batch(h) : InChain(e)
    BY <1>3 DEF InChain
  <1>5. QED
    BY <1>2, <1>3, <1>4

\* The first batch of a chain is done with.
LEMMA TailMoves ==
    ASSUME TypeOK, EventInv, NEW h \in Hosts, chain[h] # <<>>,
           chain' = [chain EXCEPT ![h] = Tail(@)], UNCHANGED <<event, buffer>>
    PROVE  Moves(Batch(h))
  <1>1. chain'[h] = Tail(chain[h]) /\ \A g \in Hosts : g # h => chain'[g] = chain[g]
    BY DEF TypeOK
  <1>2. \A e \in Events : AtOnePlace(e)
    BY DEF EventInv, Accounted
  <1>3. ASSUME NEW e, NEW g \in Hosts, NEW i \in Nat
        PROVE  InBatch(e, g, i)' <=> IF g = h THEN i > 0 /\ InBatch(e, g, i + 1)
                                             ELSE InBatch(e, g, i)
    <2>1. CASE g # h
      BY <1>1, <2>1 DEF InBatch
    <2>2. CASE g = h
      <3>1. i \in DOMAIN chain'[h] <=> i > 0 /\ i + 1 \in DOMAIN chain[h]
        <4>1. /\ DOMAIN chain[h] = 1 .. Len(chain[h]) /\ Len(chain[h]) \in Nat \ {0}
              /\ DOMAIN chain'[h] = 1 .. Len(chain[h]) - 1
          BY <1>1, FirstBatch
        <4>2. QED
          BY <4>1
      <3>2. i \in DOMAIN chain'[h] => chain'[h][i] = chain[h][i + 1]
        BY <1>1, FirstBatch
      <3>3. QED
        BY <2>2, <3>1, <3>2 DEF InBatch
    <2>3. QED
      BY <2>1, <2>2
  <1>4. \A e, i : InBatch(e, h, i) => i \in Nat \ {0}
    BY FirstBatch DEF InBatch
  <1>5. ASSUME NEW e \in Events PROVE InChain(e)' <=> InChain(e) /\ e \notin Batch(h)
    <2>1. ASSUME InChain(e)' PROVE InChain(e) /\ e \notin Batch(h)
      <3>1. PICK g \in Hosts, i \in Nat : InBatch(e, g, i)'
        BY <2>1 DEF InChain
      <3>2. CASE g = h
        <4>1. InBatch(e, h, i + 1) /\ i > 0
          BY <1>3, <3>1, <3>2
        <4>2. ~ InBatch(e, h, 1)
          BY <1>2, <4>1 DEF AtOnePlace, InOneBatch
        <4>3. QED
          BY <4>1, <4>2, FirstBatch DEF InChain
      <3>3. CASE g # h
        <4>1. InBatch(e, g, i)
          BY <1>3, <3>1, <3>3
        <4>2. ~ InBatch(e, h, 1)
          BY <1>2, <3>3, <4>1 DEF AtOnePlace, InOneBatch
        <4>3. QED
          BY <4>1, <4>2, FirstBatch DEF InChain
      <3>4. QED
        BY <3>2, <3>3
    <2>2. ASSUME InChain(e), e \notin Batch(h) PROVE InChain(e)'
      <3>1. PICK g \in Hosts, i \in Nat : InBatch(e, g, i)
        BY <2>2 DEF InChain
      <3>2. CASE g = h
        <4>1. i # 1 /\ i # 0
          BY <1>4, <2>2, <3>1, <3>2, FirstBatch
        <4>2. i - 1 \in Nat /\ i - 1 > 0 /\ (i - 1) + 1 = i
          BY <4>1
        <4>3. InBatch(e, g, i - 1)'
          BY <1>3, <3>1, <3>2, <4>2
        <4>4. QED
          BY <4>2, <4>3 DEF InChain
      <3>3. CASE g # h
        BY <1>3, <3>1, <3>3 DEF InChain
      <3>4. QED
        BY <3>2, <3>3
    <2>3. QED
      BY <2>1, <2>2
  <1>6. ASSUME NEW e \in Events, InOneBatch(e) PROVE InOneBatch(e)'
    <2>1. ASSUME NEW f \in Hosts, NEW g \in Hosts, NEW i \in Nat, NEW j \in Nat,
                 InBatch(e, f, i)', InBatch(e, g, j)'
          PROVE  f = g /\ i = j
      <3>1. \/ f = h /\ g = h /\ InBatch(e, f, i + 1) /\ InBatch(e, g, j + 1)
            \/ f = h /\ g # h /\ InBatch(e, f, i + 1) /\ InBatch(e, g, j)
            \/ f # h /\ g = h /\ InBatch(e, f, i) /\ InBatch(e, g, j + 1)
            \/ f # h /\ g # h /\ InBatch(e, f, i) /\ InBatch(e, g, j)
        BY <1>3, <2>1
      <3>2. i + 1 \in Nat /\ j + 1 \in Nat /\ (i + 1 = j + 1 => i = j)
        OBVIOUS
      <3>3. QED
        BY <1>6, <3>1, <3>2 DEF InOneBatch
    <2>2. QED
      BY <2>1 DEF InOneBatch
  <1>7. QED
    BY <1>5, <1>6, FirstBatch, ChainMoves

\* One event of the first batch is done with.
LEMMA NextOfBatchMoves ==
    ASSUME TypeOK, EventInv, NEW h \in Hosts, chain[h] # <<>>, NEW d \in Batch(h),
           NextOfBatch(h, d), UNCHANGED <<event, buffer>>
    PROVE  Moves({d})
  <1>1. CASE Batch(h) # {d}
    <2>1. chain[h] \in Seq(SUBSET Events) /\ Batch(h) \ {d} \in SUBSET Events
      BY FirstBatch DEF TypeOK
    <2>2. chain' = [chain EXCEPT ![h] = <<Batch(h) \ {d}>> \o Tail(chain[h])]
      BY <1>1 DEF NextOfBatch, Batch
    <2>3. /\ chain'[h] = <<Batch(h) \ {d}>> \o Tail(chain[h])
          /\ \A g \in Hosts : g # h => chain'[g] = chain[g]
      BY <2>2 DEF TypeOK
    <2>4. /\ DOMAIN chain'[h] = DOMAIN chain[h]
          /\ chain'[h][1] = Batch(h) \ {d}
          /\ \A i \in DOMAIN chain[h] : i # 1 => chain'[h][i] = chain[h][i]
      BY <2>1, <2>3, Shrunk
    <2>5. ASSUME NEW e, NEW g \in Hosts, NEW i \in Nat
          PROVE  InBatch(e, g, i)' <=> InBatch(e, g, i) /\ ~ (g = h /\ i = 1 /\ e = d)
      <3>1. CASE g # h
        BY <2>3, <3>1 DEF InBatch
      <3>2. CASE g = h /\ i = 1
        BY <2>4, <3>2, FirstBatch DEF InBatch
      <3>3. CASE g = h /\ i # 1
        BY <2>4, <3>3 DEF InBatch
      <3>4. QED
        BY <3>1, <3>2, <3>3
    <2>6. InBatch(d, h, 1) /\ AtOnePlace(d)
      BY FirstBatch DEF EventInv, Accounted
    <2>7. ASSUME NEW e \in Events PROVE InChain(e)' <=> InChain(e) /\ e \notin {d}
      <3>1. \A g \in Hosts, i \in Nat : InBatch(d, g, i) => g = h /\ i = 1
        BY <2>6 DEF AtOnePlace, InOneBatch
      <3>2. QED
        BY <2>5, <3>1 DEF InChain
    <2>8. \A e \in Events : InOneBatch(e) => InOneBatch(e)'
      BY <2>5 DEF InOneBatch
    <2>9. QED
      BY <2>7, <2>8, FirstBatch, ChainMoves
  <1>2. CASE Batch(h) = {d}
    <2>1. chain' = [chain EXCEPT ![h] = Tail(@)]
      BY <1>2 DEF NextOfBatch
    <2>2. QED
      BY <1>2, <2>1, TailMoves
  <1>3. QED
    BY <1>1, <1>2

\* Everything a process held is gone with it.
LEMMA EndMoves ==
    ASSUME TypeOK, EventInv, NEW h \in Hosts, End(h)
    PROVE  Moves(EventsIn(h))
  <1>1. \A e \in Events : AtOnePlace(e)
    BY DEF EventInv, Accounted
  <1>2. \A w \in Workers : event'[w] = IF w \in HandlersOf(h) THEN NoEvent ELSE event[w]
    BY DEF End
  <1>3. /\ \A g \in Hosts : buffer'[g] = IF g = h THEN {} ELSE buffer[g]
        /\ \A g \in Hosts : chain'[g] = IF g = h THEN <<>> ELSE chain[g]
    BY DEF End, TypeOK
  <1>4. NoEvent \notin Events
    BY NoEventIsNone
  <1>5. \A e, i : \A g \in Hosts : InBatch(e, g, i)' <=> g # h /\ InBatch(e, g, i)
    BY <1>3 DEF InBatch
  <1>6. ASSUME NEW e \in Events
        PROVE  e \in EventsIn(h) <=> \/ \E w \in HandlersOf(h) : event[w] = e
                                     \/ e \in buffer[h]
                                     \/ \E i \in Nat : InBatch(e, h, i)
    <2>1. chain[h] \in Seq(SUBSET Events)
      BY DEF TypeOK
    <2>2. DOMAIN chain[h] \subseteq Nat
      BY <2>1
    <2>3. QED
      BY <2>2, EventsInAre DEF InBatch
  <1>7. \A e \in Events : InHand(e)' <=> \E w \in Workers : w \notin HandlersOf(h) /\ event[w] = e
    BY <1>2, <1>4 DEF InHand
  <1>8. \A e : InBuffer(e)' <=> \E g \in Hosts : g # h /\ e \in buffer[g]
    BY <1>3 DEF InBuffer
  <1>9. \A e : InChain(e)' <=> \E g \in Hosts : g # h /\ \E i \in Nat : InBatch(e, g, i)
    BY <1>5 DEF InChain
  <1>10. ASSUME NEW e \in Events PROVE Held(e)' <=> Held(e) /\ e \notin EventsIn(h)
    <2>1. ASSUME Held(e)' PROVE Held(e) /\ e \notin EventsIn(h)
      <3>1. CASE InHand(e)'
        BY <1>1, <1>6, <1>7, <3>1 DEF Held, AtOnePlace, InHand, InBuffer, InChain, HandlersOf
      <3>2. CASE InBuffer(e)'
        BY <1>1, <1>6, <1>8, <3>2 DEF Held, AtOnePlace, InHand, InBuffer, InChain, HandlersOf
      <3>3. CASE InChain(e)'
        BY <1>1, <1>6, <1>9, <3>3 DEF Held, AtOnePlace, InHand, InBuffer, InChain, InOneBatch, HandlersOf
      <3>4. QED
        BY <2>1, <3>1, <3>2, <3>3 DEF Held
    <2>2. ASSUME Held(e), e \notin EventsIn(h) PROVE Held(e)'
      BY <1>6, <1>7, <1>8, <1>9, <2>2 DEF Held, InHand, InBuffer, InChain
    <2>3. QED
      BY <2>1, <2>2
  <1>11. ASSUME NEW e \in Events, AtOnePlace(e) PROVE AtOnePlace(e)'
    <2>1. \A v, w \in Workers : event'[v] = e /\ event'[w] = e => v = w
      BY <1>2, <1>4, <1>11 DEF AtOnePlace
    <2>2. \A f, g \in Hosts : e \in buffer'[f] /\ e \in buffer'[g] => f = g
      BY <1>3, <1>11 DEF AtOnePlace
    <2>3. InOneBatch(e)'
      BY <1>5, <1>11 DEF AtOnePlace, InOneBatch
    <2>4. /\ InHand(e)' => InHand(e)
          /\ InBuffer(e)' => InBuffer(e)
          /\ InChain(e)' => InChain(e)
      BY <1>7, <1>8, <1>9 DEF InHand, InBuffer, InChain
    <2>5. QED
      BY <1>11, <2>1, <2>2, <2>3, <2>4 DEF AtOnePlace
  <1>12. QED
    BY <1>10, <1>11 DEF Moves

\* Events that stay in the processes stay accounted for.
LEMMA MovedAreAccounted ==
    ASSUME EventInv, Moves({}), UNCHANGED <<stored, failed, lost, doubtful, won>>
    PROVE  EventInv'
  BY DEF EventInv, Accounted, Moves

LEMMA EventsElsewhere ==
    ASSUME EventInv, UNCHANGED <<event, buffer, chain, stored, failed, lost, doubtful, won>>
    PROVE  EventInv'
  BY MemoryElsewhere, MovedAreAccounted

\* Events that leave the processes leave for one destination.
LEMMA LeaversAreAccounted ==
    ASSUME EventInv, NEW out, Moves(out), UNCHANGED <<doubtful, won>>,
           \A e \in out : Held(e),
           \/ stored' = stored \cup out /\ UNCHANGED <<failed, lost>>
           \/ failed' = failed \cup out /\ UNCHANGED <<stored, lost>>
           \/ lost' = lost \cup out /\ UNCHANGED <<stored, failed>>
    PROVE  EventInv'
  <1>1. SUFFICES ASSUME NEW e \in Events PROVE Accounted(e)'
    BY DEF EventInv
  <1>2. /\ Held(e)' <=> Held(e) /\ e \notin out
        /\ AtOnePlace(e) => AtOnePlace(e)'
        /\ Accounted(e)
    BY DEF Moves, EventInv
  <1>3. CASE e \in out
    BY <1>2, <1>3 DEF Accounted
  <1>4. CASE e \notin out
    BY <1>2, <1>4 DEF Accounted
  <1>5. QED
    BY <1>3, <1>4

\* The next event of a payload is none of those there were.
LEMMA NextEventIsNew ==
    ASSUME TypeOK, EventInv, NEW p \in Genuine, Win(p)
    PROVE  LET new == NextEvent(p)
           IN  /\ new \in Events
               /\ ~ Held(new) /\ new \notin stored \cup failed \cup lost \cup doubtful
               /\ \A e \in Events : e.turn <= won'[e.payload] <=> e.turn <= won[e.payload] \/ e = new
  <1> DEFINE new == NextEvent(p)
  <1>1. new \in Events /\ new.payload = p /\ new.turn = won[p] + 1
    BY NextEventType DEF NextEvent, EventOf
  <1>2. \A q \in Genuine : won[q] \in Nat /\ won'[q] = IF q = p THEN won[q] + 1 ELSE won[q]
    BY DEF Win, TypeOK, Payloads
  <1>3. ~ (new.turn <= won[new.payload])
    BY <1>1, <1>2
  <1>4. ~ Held(new) /\ new \notin stored \cup failed \cup lost \cup doubtful
    BY <1>1, <1>3 DEF EventInv, Accounted
  <1>5. ASSUME NEW e \in Events
        PROVE  e.turn <= won'[e.payload] <=> e.turn <= won[e.payload] \/ e = new
    <2>1. e = [payload |-> e.payload, turn |-> e.turn] /\ e.payload \in Genuine /\ e.turn \in Nat
      BY DEF Events
    <2>2. e = new <=> e.payload = p /\ e.turn = won[p] + 1
      BY <2>1 DEF NextEvent, EventOf
    <2>3. QED
      BY <1>2, <2>1, <2>2
  <1>6. QED
    BY <1>1, <1>4, <1>5

\* A new event is with the handler that made it.
LEMMA MakesAccounted ==
    ASSUME TypeOK, HandlersInv, EventInv, NEW w \in Workers, Payload(w) \in Genuine,
           event[w] = NoEvent, Makes(w),
           UNCHANGED <<buffer, chain, stored, failed, lost, doubtful>>
    PROVE  EventInv'
  <1> DEFINE new == NextEvent(Payload(w))
  <1>1. /\ new \in Events
        /\ ~ Held(new) /\ new \notin stored \cup failed \cup lost \cup doubtful
        /\ \A e \in Events : e.turn <= won'[e.payload] <=> e.turn <= won[e.payload] \/ e = new
    BY NextEventIsNew DEF Makes
  <1>2. \A v \in Workers : event'[v] = IF v = w THEN new ELSE event[v]
    BY DEF Makes, TypeOK
  <1> HIDE DEF new
  <1>3. NoEvent \notin Events
    BY NoEventIsNone
  <1>4. \A e \in Events : InHand(e)' <=> InHand(e) \/ e = new
    BY <1>2, <1>3 DEF InHand
  <1>5. \A e : /\ InBuffer(e)' <=> InBuffer(e)
               /\ InChain(e)' <=> InChain(e)
               /\ InOneBatch(e)' <=> InOneBatch(e)
    BY DEF InBuffer, InChain, InOneBatch, InBatch
  <1>6. \A e \in Events : Held(e)' <=> Held(e) \/ e = new
    BY <1>4, <1>5 DEF Held
  <1>7. ASSUME NEW e \in Events, AtOnePlace(e) PROVE AtOnePlace(e)'
    <2>1. CASE e = new
      <3>1. ~ InHand(e) /\ ~ InBuffer(e) /\ ~ InChain(e)
        BY <1>1, <2>1 DEF Held
      <3>2. \A v \in Workers : event'[v] = e => v = w
        BY <1>2, <3>1 DEF InHand
      <3>3. QED
        BY <1>5, <1>7, <3>1, <3>2 DEF AtOnePlace
    <2>2. CASE e # new
      <3>1. \A v \in Workers : event'[v] = e => event[v] = e
        BY <1>2, <2>2
      <3>2. QED
        BY <1>4, <1>5, <1>7, <2>2, <3>1 DEF AtOnePlace
    <2>3. QED
      BY <2>1, <2>2
  <1>8. SUFFICES ASSUME NEW e \in Events PROVE Accounted(e)'
    BY DEF EventInv
  <1>9. Accounted(e)
    BY DEF EventInv
  <1>10. CASE e = new
    BY <1>1, <1>6, <1>7, <1>9, <1>10 DEF Accounted
  <1>11. CASE e # new
    BY <1>1, <1>6, <1>7, <1>9, <1>11 DEF Accounted
  <1>12. QED
    BY <1>10, <1>11

LEMMA CheckAndMarkAccounted ==
    ASSUME TypeOK, HandlersInv, EventInv, NEW w \in Workers, CheckAndMark(w)
    PROVE  EventInv'
  <1>1. /\ Payload(w) \in Genuine /\ event[w] = NoEvent
        /\ UNCHANGED <<buffer, chain, stored, failed, lost, doubtful>>
    BY DEF HandlersInv, CheckAndMark, writerVars, outputVars
  <1>2. CASE UNCHANGED <<won, event>>
    BY <1>1, <1>2, EventsElsewhere
  <1>3. CASE Makes(w)
    BY <1>1, <1>3, MakesAccounted
  <1>4. QED
    BY <1>2, <1>3 DEF CheckAndMark

\* A reply that got lost takes the event with it.
LEMMA ReplyLostAccounted ==
    ASSUME TypeOK, HandlersInv, EventInv, NEW w \in Workers, ReplyLost(w)
    PROVE  EventInv'
  <1>1. Payload(w) \in Genuine /\ UNCHANGED <<event, buffer, chain, stored, failed>>
    BY DEF HandlersInv, ReplyLost, writerVars, outputVars
  <1>2. CASE UNCHANGED historyVars
    BY <1>1, <1>2, EventsElsewhere DEF historyVars
  <1>3. CASE Win(Payload(w)) /\ Lose(NextEvent(Payload(w)))
    <2> DEFINE new == NextEvent(Payload(w))
    <2>1. /\ new \in Events
          /\ ~ Held(new) /\ new \notin stored \cup failed \cup lost \cup doubtful
          /\ \A e \in Events : e.turn <= won'[e.payload] <=> e.turn <= won[e.payload] \/ e = new
      BY <1>1, <1>3, NextEventIsNew
    <2>2. lost' = lost \cup {new} /\ UNCHANGED doubtful
      BY <1>3 DEF Lose
    <2> HIDE DEF new
    <2>3. Moves({})
      BY <1>1, MemoryElsewhere
    <2>4. SUFFICES ASSUME NEW e \in Events PROVE Accounted(e)'
      BY DEF EventInv
    <2>5. Accounted(e) /\ (Held(e)' <=> Held(e)) /\ (AtOnePlace(e) => AtOnePlace(e)')
      BY <2>3 DEF EventInv, Moves
    <2>6. CASE e = new
      BY <1>1, <2>1, <2>2, <2>5, <2>6 DEF Accounted
    <2>7. CASE e # new
      BY <1>1, <2>1, <2>2, <2>5, <2>7 DEF Accounted
    <2>8. QED
      BY <2>6, <2>7
  <1>4. QED
    BY <1>2, <1>3 DEF ReplyLost

LEMMA InsertFailsAccounted ==
    ASSUME TypeOK, EventInv, NEW h \in Hosts, InsertFails(h)
    PROVE  EventInv'
  <1>1. UNCHANGED <<event, buffer, chain, failed, won, lost>>
    BY DEF InsertFails, handlerVars
  <1>2. Moves({})
    BY <1>1, MemoryElsewhere
  <1>3. CASE UNCHANGED <<stored, doubtful>>
    BY <1>1, <1>2, <1>3, MovedAreAccounted
  <1>4. CASE stored' = stored \cup Batch(h) /\ doubtful' = doubtful \cup Batch(h)
    <2>1. \A e \in Batch(h) : Held(e)
      BY FirstBatch DEF InsertFails, Inserting, Held
    <2>2. SUFFICES ASSUME NEW e \in Events PROVE Accounted(e)'
      BY DEF EventInv
    <2>3. Accounted(e) /\ (Held(e)' <=> Held(e)) /\ (AtOnePlace(e) => AtOnePlace(e)')
      BY <1>2 DEF EventInv, Moves
    <2>4. QED
      BY <1>1, <1>4, <2>1, <2>3 DEF Accounted
  <1>5. QED
    BY <1>3, <1>4 DEF InsertFails

LEMMA InsertAccounted ==
    ASSUME TypeOK, EventInv, NEW h \in Hosts, Insert(h)
    PROVE  EventInv'
  <1>1. chain[h] # <<>> /\ UNCHANGED <<event, buffer, failed, lost, doubtful, won>>
    BY DEF Insert, Inserting, handlerVars, historyVars
  <1>2. Moves(Batch(h))
    BY <1>1, TailMoves DEF Insert
  <1>3. \A e \in Batch(h) : Held(e)
    BY <1>1, FirstBatch DEF Held
  <1>4. stored' = stored \cup Batch(h)
    BY DEF Insert
  <1>5. QED
    BY <1>1, <1>2, <1>3, <1>4, LeaversAreAccounted

LEMMA GiveUpEventAccounted ==
    ASSUME TypeOK, EventInv, NEW h \in Hosts, GiveUpEvent(h)
    PROVE  EventInv'
  <1>1. chain[h] # <<>> /\ UNCHANGED <<event, buffer, stored, won>>
    BY DEF GiveUpEvent, handlerVars
  <1>2. PICK d \in Batch(h) :
          /\ \/ failed' = failed \cup {d} /\ UNCHANGED <<lost, doubtful>>
             \/ Lose(d) /\ UNCHANGED failed
          /\ NextOfBatch(h, d)
    BY DEF GiveUpEvent
  <1>3. Moves({d})
    BY <1>1, <1>2, NextOfBatchMoves
  <1>4. \A e \in {d} : Held(e)
    BY <1>1, FirstBatch DEF Held
  <1>5. /\ UNCHANGED <<doubtful, won>>
        /\ \/ failed' = failed \cup {d} /\ UNCHANGED <<stored, lost>>
           \/ lost' = lost \cup {d} /\ UNCHANGED <<stored, failed>>
    BY <1>1, <1>2 DEF Lose
  <1>6. QED
    BY <1>3, <1>4, <1>5, LeaversAreAccounted

LEMMA EndAccounted ==
    ASSUME TypeOK, EventInv, NEW h \in Hosts, End(h)
    PROVE  EventInv'
  <1>1. Moves(EventsIn(h))
    BY EndMoves
  <1>2. \A e \in EventsIn(h) : Held(e)
    <2>1. DOMAIN chain[h] \subseteq Nat
      BY DEF TypeOK
    <2>2. QED
      BY <2>1, EventsInAre DEF Held, InHand, InBuffer, InChain, InBatch, HandlersOf
  <1>3. UNCHANGED <<stored, failed, doubtful, won>> /\ lost' = lost \cup EventsIn(h)
    BY DEF End, outputVars
  <1>4. QED
    BY <1>1, <1>2, <1>3, LeaversAreAccounted

LEMMA EventsStep ==
    ASSUME TypeOK, HandlersInv, EventInv, [Next]_vars
    PROVE  EventInv'
  <1>1. ASSUME NEW p \in Payloads, Receive(p) \/ Expire(p) PROVE EventInv'
    BY <1>1, EventsElsewhere DEF Receive, Expire, handlerVars, writerVars, outputVars, historyVars
  <1>2. ASSUME NEW w \in Workers, Step(w) \/ CheckFails(w) \/ ReplyLost(w) \/ LoseChannel(w)
        PROVE  EventInv'
    <2>1. CASE \/ \E m \in Message : Deliver(w, m)
               \/ Validate(w) \/ Finish(w) \/ CheckFails(w) \/ LoseChannel(w)
      BY <2>1, EventsElsewhere DEF Deliver, Validate, Finish, CheckFails, LoseChannel,
         writerVars, outputVars, historyVars
    <2>2. CASE Enqueue(w)
      BY <2>2, EnqueueMoves, MovedAreAccounted DEF Enqueue, outputVars, historyVars
    <2>3. QED
      BY <1>2, <2>1, <2>2, CheckAndMarkAccounted, ReplyLostAccounted DEF Step
  <1>3. ASSUME NEW h \in Hosts, Write(h) \/ InsertFails(h) \/ Crash(h) \/ Stop(h)
        PROVE  EventInv'
    <2>1. CASE TimerFires(h)
      BY <2>1, TimerFiresMoves, MovedAreAccounted DEF TimerFires, outputVars, historyVars
    <2>2. QED
      BY <1>3, <2>1, InsertAccounted, GiveUpEventAccounted, InsertFailsAccounted, EndAccounted
         DEF Write, Crash, Stop
  <1>4. CASE UNCHANGED vars
    BY <1>4, EventsElsewhere DEF vars, handlerVars, writerVars, outputVars, historyVars
  <1>5. QED
    BY <1>1, <1>2, <1>3, <1>4 DEF Next

-----------------------------------------------------------------------------
(* The theorem.                                                            *)

LEMMA InitPipeline ==
    ASSUME Init
    PROVE  PipelineInv
  <1>1. NoCopies(Message) \in [Message -> Nat] /\ Waiting(NoCopies(Message)) = {}
    BY DEF NoCopies, Waiting
  <1>2. TypeOK
    <2>1. <<>> \in Seq(SUBSET Events) /\ 0 \in 0 .. Retries + 1
      BY EventAssumption
    <2>2. \A h \in Hosts : IsFiniteSet(buffer[h]) /\ Cardinality(buffer[h]) < BatchSize
      BY FS_EmptySet, EventAssumption DEF Init
    <2>3. QED
      BY <1>1, <2>1, <2>2 DEF Init, TypeOK, Steps
  <1>3. HandlersInv /\ MarkInv /\ VerdictInv
    BY DEF Init, HandlersInv, MarkInv, VerdictInv, Payloads
  <1>4. EventInv
    <2>1. SUFFICES ASSUME NEW e \in Events PROVE Accounted(e)
      BY DEF EventInv
    <2>2. ~ InHand(e) /\ ~ InBuffer(e) /\ ~ InChain(e)
      BY NoEventIsNone DEF Init, InHand, InBuffer, InChain, InBatch
    <2>3. ~ (e.turn <= won[e.payload])
      BY DEF Init, Events, Payloads
    <2>4. AtOnePlace(e)
      <3>1. InOneBatch(e)
        BY <2>2 DEF InOneBatch, InChain
      <3>2. QED
        BY <2>2, <3>1 DEF AtOnePlace, InHand, InBuffer
    <2>5. QED
      BY <2>2, <2>3, <2>4 DEF Accounted, Held, Init
  <1>5. QED
    BY <1>2, <1>3, <1>4 DEF PipelineInv

LEMMA PipelineStep ==
    ASSUME PipelineInv, [Next]_vars
    PROVE  PipelineInv'
  BY TypeStep, HandlersStep, MarksStep, VerdictStep, EventsStep DEF PipelineInv

\* The events in memory are those that are held.
LEMMA MemoryIsHeld ==
    ASSUME TypeOK
    PROVE  /\ InMemory \subseteq Events
           /\ \A e \in Events : e \in InMemory <=> Held(e)
  <1>1. InMemory \subseteq Events
    BY EventsInAre DEF InMemory
  <1>2. ASSUME NEW e \in Events PROVE e \in InMemory <=> Held(e)
    <2>1. \A h \in Hosts : DOMAIN chain[h] \subseteq Nat
      BY DEF TypeOK
    <2>2. \A w \in Workers : HostOf[w] \in Hosts
      BY EventAssumption
    <2>3. e \in InMemory <=> \E h \in Hosts : e \in EventsIn(h)
      BY DEF InMemory
    <2>4. ASSUME NEW h \in Hosts PROVE e \in EventsIn(h) => Held(e)
      BY <2>1, EventsInAre DEF Held, InHand, InBuffer, InChain, InBatch, HandlersOf
    <2>5. InHand(e) => \E h \in Hosts : e \in EventsIn(h)
      BY <2>2, EventsInAre DEF InHand, HandlersOf
    <2>6. InBuffer(e) \/ InChain(e) => \E h \in Hosts : e \in EventsIn(h)
      BY EventsInAre DEF InBuffer, InChain, InBatch
    <2>7. QED
      BY <2>3, <2>4, <2>5, <2>6 DEF Held
  <1>3. QED
    BY <1>1, <1>2

\* An event that is at one place has no two places.
LEMMA OnePlace ==
    ASSUME TypeOK, NEW e \in Events, AtOnePlace(e), NEW x \in Places(e), NEW y \in Places(e)
    PROVE  x = y
  <1>1. \A h \in Hosts : DOMAIN chain[h] \subseteq Nat
    BY DEF TypeOK
  <1>2. ASSUME NEW z \in Places(e)
        PROVE  \/ \E w \in Workers : z = <<"handler", w, 0>> /\ event[w] = e
               \/ \E h \in Hosts : z = <<"buffer", h, 0>> /\ e \in buffer[h]
               \/ \E h \in Hosts : \E i \in Nat : z = <<"chain", h, i>> /\ InBatch(e, h, i)
    BY <1>1 DEF Places, InBatch
  <1>3. CASE \E w \in Workers : x = <<"handler", w, 0>> /\ event[w] = e
    BY <1>2, <1>3 DEF AtOnePlace, InHand, InBuffer, InChain
  <1>4. CASE \E h \in Hosts : x = <<"buffer", h, 0>> /\ e \in buffer[h]
    BY <1>2, <1>4 DEF AtOnePlace, InHand, InBuffer, InChain
  <1>5. CASE \E h \in Hosts : \E i \in Nat : x = <<"chain", h, i>> /\ InBatch(e, h, i)
    BY <1>2, <1>5 DEF AtOnePlace, InHand, InBuffer, InChain, InOneBatch
  <1>6. QED
    BY <1>2, <1>3, <1>4, <1>5

LEMMA PipelineAccounts ==
    ASSUME PipelineInv
    PROVE  PayloadsAccounted
  <1>1. TypeOK /\ MarkInv /\ VerdictInv /\ \A e \in Events : Accounted(e)
    BY DEF PipelineInv, EventInv
  <1>2. /\ InMemory \subseteq Events
        /\ \A e \in Events : e \in InMemory <=> Held(e)
    BY <1>1, MemoryIsHeld
  <1>3. NothingElseLost
    <2>1. ASSUME NEW p \in Genuine, NEW n \in 1 .. won[p]
          PROVE  EventOf(p, n) \in InMemory \cup stored \cup failed \cup lost
      <3>1. won[p] \in Nat
        BY <1>1 DEF TypeOK, Payloads
      <3>2. n \in Nat \ {0} /\ n <= won[p]
        BY <3>1
      <3>3. EventOf(p, n) \in Events /\ EventOf(p, n).payload = p /\ EventOf(p, n).turn = n
        BY <3>2 DEF EventOf, Events
      <3>4. QED
        BY <1>1, <1>2, <3>2, <3>3 DEF Accounted
    <2>2. QED
      BY <1>1, <2>1 DEF NothingElseLost, VerdictInv
  <1>4. OneEventPerKey
    <2>1. \A p \in Genuine : won[p] <= 1 + expiries
      <3>1. \A p \in Genuine : won[p] \in Nat /\ expiries \in Nat
        BY <1>1 DEF TypeOK, Payloads
      <3>2. QED
        BY <1>1, <3>1 DEF MarkInv
    <2>2. \A e \in InMemory : \A x, y \in Places(e) : x = y
      BY <1>1, <1>2, OnePlace DEF Accounted
    <2>3. stored \subseteq Events /\ failed \subseteq Events /\ lost \subseteq Events
      BY <1>1 DEF TypeOK
    <2>4. /\ failed \cap lost = {} /\ InMemory \cap (failed \cup lost) = {}
          /\ stored \cap (InMemory \cup failed \cup lost) \subseteq doubtful
      BY <1>1, <1>2, <2>3 DEF Accounted
    <2>5. QED
      BY <2>1, <2>2, <2>4 DEF OneEventPerKey
  <1>5. QED
    BY <1>1, <1>3, <1>4 DEF PayloadsAccounted

\* Every accepted payload waits for its verdict or became an event; a key makes one
\* event until it expires; an event is at one place of one process, and leaves it for
\* one destination but by an insert that was made and reported as failed.
THEOREM PayloadsAreAccounted == Spec => []PayloadsAccounted
  <1>1. Init => PipelineInv
    BY InitPipeline
  <1>2. PipelineInv /\ [Next]_vars => PipelineInv'
    BY PipelineStep
  <1>3. PipelineInv => PayloadsAccounted
    BY PipelineAccounts
  <1>4. QED
    BY <1>1, <1>2, <1>3, PTL DEF Spec

-------------------------------------------------------------------------------
(* SegmentComputation: the inductive invariant.                              *)

\* The events of a contact at the positions P that a node asks for.
Matching(node, c, P) ==
    {j \in P \cap DOMAIN log : log[j].contact = c /\ Matches(node, log[j].kind)}

Unforgotten == "forgotten" \notin excuses
Heeded == "elsewhere" \notin excuses

\* The nodes whose value a deletion takes away.
Forgets(node) == node \notin {"counted", "bucket"}

\* A state row is empty, or that of an event its node asks for; it says what the
\* node made of the contact when that event was the last one stored, and nothing
\* of a contact deleted by then.
RowSound(node, r, c) ==
    /\ r.at = 0 => ~r.value
    /\ r.at # 0 =>
        /\ r.at \in Matching(node, c, DOMAIN log)
        /\ c \notin Gone => (r.value <=> Value(node, log[r.at], {}, SetIn(log, 1 .. r.at)))
        /\ Heeded /\ Forgets(node) =>
            \A j \in 1 .. r.at : log[j].kind = "deleted" /\ log[j].contact = c => ~r.value

\* No event at the positions P is later than the row's.
RowReaches(node, r, c, P) == \A j \in Matching(node, c, P) : j <= r.at

\* The rows of a node before a scan of what is later than from ...
NodeOld(def, i, from) ==
    \A c \in Contacts : /\ RowSound(def.nodes[i], state[i][c], c)
                        /\ RowReaches(def.nodes[i], state[i][c], c, 1 .. from)

\* ... and after it: what reading all events at once gives.
Readable(def, i) ==
    IF def.nodes[i] = "recent" THEN DOMAIN log \ 1 .. window[i] ELSE DOMAIN log

NodeExact(def, i) ==
    \A c \in Contacts :
        /\ RowSound(def.nodes[i], state[i][c], c)
        /\ state[i][c].at \in {0} \cup Readable(def, i)
        /\ RowReaches(def.nodes[i], state[i][c], c, Readable(def, i))
        /\ HasTimeWindows(def) /\ Heeded /\ Forgets(def.nodes[i]) /\ c \in Gone =>
            ~state[i][c].value

\* Who is in the segment has an event that makes a row, for any scan to find.
Grounded(def) ==
    \A c \in Contacts \ Gone :
        assigned[c] = "in" =>
            \E i \in DOMAIN def.nodes :
                def.nodes[i] # "bucket" /\ Matching(def.nodes[i], c, DOMAIN log) # {}

\* What a scan can go on from.
Resumable(def, from) ==
    Grounded(def) /\ \A i \in DOMAIN def.nodes : NodeOld(def, i, from)

\* No edit lies between the rows and the definition.
Unedited == edits = 0 \/ (last # Never /\ ~edited)

Begun == {"prepare", "scan", "assign", "announce", "save", "record"}
Scanning == {"scan", "assign", "announce", "save", "record"}
Phases == Begun \cup {"idle", "clean"}

Times == {Never} \cup 0 .. Len(log)

Works == [pc : Phases, path : {"single", "batch"}, def : Definitions, last : Times,
          now : Times, before : [Contacts -> Memberships], node : Nat]

WorkInv ==
    /\ work \in Works
    /\ At("scan") => work.node \in DOMAIN work.def.nodes
    /\ At("clean") /\ Windowed => work.node = 1 /\ work.now # Never
    /\ At("clean") /\ ~Windowed => last = Never \/ edited
    /\ ~At("idle") => work.last = last /\ (Unedited => work.def = definition)
    /\ edits = 0 => ~edited
    /\ cached \subseteq Gone
    /\ Heeded => cached = {} \/ cached = Gone

RowsInv ==
    Unforgotten =>
        /\ work.now # Never => work.now = Len(log)
        /\ work.pc \in Scanning => work.now # Never
        /\ Unedited /\ ~HasTimeWindows(definition) => Resumable(definition, last)
        /\ work.pc \in Begun /\ ~Windowed => Resumable(work.def, work.last)
        /\ At("scan") =>
            \A i \in DOMAIN work.def.nodes :
                /\ i < work.node => NodeExact(work.def, i)
                /\ i >= work.node /\ Windowed => state[i] = [c \in Contacts |-> NoRow]
        /\ work.pc \in Scanning \ {"scan"} =>
            \A i \in DOMAIN work.def.nodes : NodeExact(work.def, i)
        /\ Windowed /\ work.pc \in {"scan", "assign"} => upto = Never /\ assigned = Nobody
        /\ At("clean") /\ ~Windowed => last = Never

\* Listeners know who was in the segment when it was last saved, or, between a
\* clean-up and the announcement, who the computation kept from before it.
Agree(x, y) == Differs(x, y) = {}

ToldInv ==
    ~Excused({"unannounced"}) =>
        /\ ~repeated
        /\ \A c \in Contacts : assigned[c] = "none" => resolved[c] = "none"
        /\ work.pc \in {"idle", "clean", "prepare", "record"} => Agree(told, resolved)
        /\ work.pc \in {"scan", "assign", "announce"} =>
            IF Windowed THEN Agree(told, work.before) /\ resolved = Nobody
                        ELSE Agree(told, resolved)
        /\ At("clean") /\ Windowed => work.before = resolved
        /\ At("save") => Agree(told, assigned)

SegInv ==
    /\ SegmentTypeOK
    /\ WorkInv
    /\ RowsInv
    /\ IncrementalIsExact
    /\ DeletedLeave
    /\ ToldInv

-------------------------------------------------------------------------------
(* Rows.                                                                     *)

Less == {pair \in Nat \X Nat : pair[1] < pair[2]}

\* A non-empty set of positions of the log has a last one.
LEMMA LatestPosition ==
    ASSUME NEW n \in Nat, NEW S, S \subseteq 1 .. n, S # {}
    PROVE  \E x \in S : \A y \in S : y <= x
  <1> DEFINE T == {n - x : x \in S}
  <1>1. T \subseteq Nat /\ T # {}
    <2>1. \A x \in S : n - x \in Nat
      OBVIOUS
    <2>2. QED
      BY <2>1
  <1>2. PICK m \in T : \A y \in T : <<y, m>> \notin Less
    <2>1. IsWellFoundedOn(Less, Nat)
      BY NatLessThanWellFounded, Zenon DEF OpToRel, Less
    <2>2. QED
      BY <1>1, <2>1, WFMin, Zenon
  <1>3. \A y \in T : ~(y < m)
    BY <1>1, <1>2 DEF Less
  <1>4. PICK x \in S : m = n - x
    OBVIOUS
  <1>5. ASSUME NEW y \in S  PROVE y <= x
    <2>1. n - y \in T
      OBVIOUS
    <2>2. ~(n - y < n - x)
      BY <1>3, <1>4, <2>1
    <2>3. QED
      BY <2>2
  <1>6. QED
    BY <1>5

\* The row a query makes of the positions P: none, or the latest event's.
LEMMA RowOf ==
    ASSUME log \in Seq(SegmentEvents), NEW node, NEW c, NEW P, P \subseteq DOMAIN log, NEW D, NEW S
    PROVE  LET r == Row(node, log, P, c, D, S)
           IN  \/ Matching(node, c, P) = {} /\ r = NoRow
               \/ /\ r.at \in Matching(node, c, P)
                  /\ \A j \in Matching(node, c, P) : j <= r.at
                  /\ r.value = Value(node, log[r.at], D, S)
                  /\ r = [at |-> r.at, value |-> r.value]
  <1> DEFINE found == {i \in P : log[i].contact = c /\ Matches(node, log[i].kind)}
  <1>1. found = Matching(node, c, P)
    BY DEF Matching
  <1>2. CASE found = {}
    BY <1>1, <1>2 DEF Row
  <1>3. CASE found # {}
    <2> DEFINE latest == CHOOSE i \in found : \A j \in found : j <= i
    <2>1. Len(log) \in Nat /\ DOMAIN log = 1 .. Len(log)
      OBVIOUS
    <2>2. \E i \in found : \A j \in found : j <= i
      BY <1>3, <2>1, LatestPosition
    <2>3. latest \in found /\ \A j \in found : j <= latest
      BY <2>2
    <2>4. Row(node, log, P, c, D, S) = [at |-> latest, value |-> Value(node, log[latest], D, S)]
      BY <1>3 DEF Row
    <2>5. QED
      BY <1>1, <2>3, <2>4
  <1>4. QED
    BY <1>2, <1>3

LEMMA RowType ==
    ASSUME log \in Seq(SegmentEvents), NEW node, NEW c, NEW P, P \subseteq DOMAIN log, NEW D, NEW S
    PROVE  Row(node, log, P, c, D, S) \in [at : 0 .. Len(log), value : BOOLEAN]
  <1> DEFINE r == Row(node, log, P, c, D, S)
  <1>1. CASE r = NoRow
    BY <1>1 DEF NoRow
  <1>2. CASE r.at \in Matching(node, c, P) /\ r.value = Value(node, log[r.at], D, S)
             /\ r = [at |-> r.at, value |-> r.value]
    <2>1. r.at \in 0 .. Len(log)
      BY <1>2 DEF Matching
    <2>2. r.value \in BOOLEAN
      BY <1>2 DEF Value
    <2>3. QED
      BY <1>2, <2>1, <2>2
  <1>3. QED
    BY <1>1, <1>2, RowOf

\* What deletions and the label make of an event's value.
LEMMA ValueOf ==
    ASSUME NEW node, NEW e, NEW D, NEW S
    PROVE  /\ e.contact \notin D => (Value(node, e, D, S) <=> Value(node, e, {}, S))
           /\ e.contact \in D /\ Forgets(node) => ~Value(node, e, D, S)
  BY DEF Value, Forgets

LEMMA ValueOfSet ==
    ASSUME NEW node, NEW e, NEW D, NEW S, NEW T,
           node = "has_not" => (e.contact \in S <=> e.contact \in T)
    PROVE  Value(node, e, D, S) <=> Value(node, e, D, T)
  BY DEF Value

\* The label of a contact is settled by its last event.
LEMMA SetSettled ==
    ASSUME log \in Seq(SegmentEvents), NEW c, NEW a \in DOMAIN log, NEW P, 1 .. a \subseteq P,
           P \subseteq DOMAIN log, \A j \in P : log[j].contact = c => j <= a
    PROVE  c \in SetIn(log, P) <=> c \in SetIn(log, 1 .. a)
  <1>1. Len(log) \in Nat /\ DOMAIN log = 1 .. Len(log) /\ a \in Nat
    OBVIOUS
  <1>2. \A j \in P : log[j].contact = c => j \in 1 .. a
    BY <1>1
  <1>3. QED
    BY <1>2 DEF SetIn

\* How many nodes a definition has.
LEMMA NodesOf ==
    /\ MaxNodes \in Nat
    /\ \A d \in Definitions : /\ d.nodes \in Seq(NodeKinds)
                              /\ Len(d.nodes) \in Nat \ {0}
                              /\ DOMAIN d.nodes = 1 .. Len(d.nodes)
                              /\ Len(d.nodes) <= MaxNodes
                              /\ d.join \in {"and", "or"}
  <1>1. \A d \in Definitions : /\ d.nodes \in Seq(NodeKinds)
                               /\ Len(d.nodes) \in Nat \ {0}
                               /\ DOMAIN d.nodes = 1 .. Len(d.nodes)
                               /\ d.join \in {"and", "or"}
    BY DefinitionsAssumption
  <1> DEFINE Lengths == {Len(d.nodes) : d \in Definitions}
  <1>2. \E n \in Lengths : \A d \in Definitions : Len(d.nodes) <= n
    BY DefinitionsAssumption
  <1>3. MaxNodes \in Lengths /\ \A d \in Definitions : Len(d.nodes) <= MaxNodes
    BY <1>2 DEF MaxNodes
  <1>4. QED
    BY <1>1, <1>3

-------------------------------------------------------------------------------
(* The log only grows.                                                       *)

LEMMA LogGrows ==
    ASSUME log \in Seq(SegmentEvents), NEW e \in SegmentEvents, log' = Append(log, e)
    PROVE  /\ log' \in Seq(SegmentEvents) /\ Len(log') = Len(log) + 1 /\ Len(log) \in Nat
           /\ DOMAIN log = 1 .. Len(log) /\ DOMAIN log' = 1 .. Len(log) + 1
           /\ \A i \in DOMAIN log : log'[i] = log[i]
           /\ log'[Len(log) + 1] = e
           /\ DOMAIN log \subseteq DOMAIN log'
  BY AppendProperties

LEMMA GrownFacts ==
    ASSUME log \in Seq(SegmentEvents), NEW e \in SegmentEvents, log' = Append(log, e)
    PROVE  /\ Gone \subseteq Gone'
           /\ e.kind # "deleted" => Gone' = Gone
           /\ \A P : P \subseteq DOMAIN log => /\ DeletedIn(log', P) = DeletedIn(log, P)
                                               /\ SetIn(log', P) = SetIn(log, P)
           /\ \A node, c, P : P \subseteq DOMAIN log => Matching(node, c, P)' = Matching(node, c, P)
           /\ \A node, c : Matching(node, c, DOMAIN log) \subseteq Matching(node, c, DOMAIN log)'
  <1>1. /\ DOMAIN log = 1 .. Len(log) /\ DOMAIN log' = 1 .. Len(log) + 1
        /\ \A i \in DOMAIN log : log'[i] = log[i]
        /\ log'[Len(log) + 1] = e /\ Len(log) \in Nat
        /\ DOMAIN log \subseteq DOMAIN log'
    BY LogGrows
  <1>2. ASSUME NEW P, P \subseteq DOMAIN log
        PROVE  DeletedIn(log', P) = DeletedIn(log, P) /\ SetIn(log', P) = SetIn(log, P)
    BY <1>1, <1>2 DEF DeletedIn, SetIn
  <1>3. ASSUME NEW node, NEW c, NEW P, P \subseteq DOMAIN log
        PROVE  Matching(node, c, P)' = Matching(node, c, P)
    BY <1>1, <1>3 DEF Matching
  <1>4. ASSUME NEW node, NEW c
        PROVE  Matching(node, c, DOMAIN log) \subseteq Matching(node, c, DOMAIN log)'
    BY <1>1 DEF Matching
  <1>5. Gone \subseteq Gone'
    BY <1>1 DEF Gone, DeletedIn
  <1>6. ASSUME e.kind # "deleted"  PROVE Gone' = Gone
    <2>1. \A i \in DOMAIN log' : log'[i].kind = "deleted" => i \in DOMAIN log
      BY <1>1, <1>6
    <2>2. QED
      BY <1>1, <2>1 DEF Gone, DeletedIn
  <1>7. QED
    BY <1>2, <1>3, <1>4, <1>5, <1>6

-------------------------------------------------------------------------------
(* Types.                                                                    *)

Rows == [at : 0 .. Len(log), value : BOOLEAN]
People == [Contacts -> Memberships]

LEMMA IdleWork ==
    ASSUME SegmentTypeOK
    PROVE  /\ Idle \in Works /\ Idle.pc = "idle" /\ Idle.now = Never
           /\ Nobody \in People /\ NoStates \in [1 .. MaxNodes -> [Contacts -> Rows]]
           /\ Len(log) \in Nat
  <1>1. Len(log) \in Nat
    BY DEF SegmentTypeOK
  <1>2. Nobody \in People
    BY DEF Nobody, People, Memberships
  <1>3. (CHOOSE d \in Definitions : TRUE) \in Definitions
    BY DEF SegmentTypeOK
  <1>4. NoRow \in Rows
    BY <1>1 DEF NoRow, Rows
  <1>5. QED
    BY <1>1, <1>2, <1>3, <1>4 DEF Idle, Works, Phases, Begun, Times, People, NoStates

\* A step that leaves the log: what it has to show of the other variables.
LEMMA TypeKept ==
    ASSUME SegmentTypeOK, log' = log,
           definition' \in Definitions, by' \in Definitions, edited' \in BOOLEAN,
           last' \in Times, upto' \in Times,
           window' \in [1 .. MaxNodes -> 0 .. Len(log)],
           state' \in [1 .. MaxNodes -> [Contacts -> Rows]],
           assigned' \in People, resolved' \in People, told' \in People,
           cached' \subseteq Contacts, repeated' \in BOOLEAN,
           excuses' \subseteq {"forgotten", "elsewhere", "unannounced"},
           edits' \in 0 .. MaxEdits, mishaps' \in 0 .. MaxMishaps
    PROVE  SegmentTypeOK'
  BY DEF SegmentTypeOK, Times, Rows, People

LEMMA TypeParts ==
    ASSUME SegmentTypeOK
    PROVE  /\ log \in Seq(SegmentEvents) /\ Len(log) \in Nat /\ DOMAIN log = 1 .. Len(log)
           /\ definition \in Definitions /\ by \in Definitions /\ edited \in BOOLEAN
           /\ last \in Times /\ upto \in Times
           /\ window \in [1 .. MaxNodes -> 0 .. Len(log)]
           /\ state \in [1 .. MaxNodes -> [Contacts -> Rows]]
           /\ assigned \in People /\ resolved \in People /\ told \in People
           /\ cached \subseteq Contacts /\ repeated \in BOOLEAN
           /\ excuses \subseteq {"forgotten", "elsewhere", "unannounced"}
           /\ edits \in 0 .. MaxEdits /\ mishaps \in 0 .. MaxMishaps
           /\ (Mishap => mishaps' \in 0 .. MaxMishaps)
  <1>1. Mishap => mishaps' \in 0 .. MaxMishaps
    BY BoundsAssumption DEF SegmentTypeOK, Mishap
  <1>2. QED
    BY <1>1 DEF SegmentTypeOK, Times, Rows, People

LEMMA GoneType ==
    ASSUME SegmentTypeOK  PROVE Gone \subseteq Contacts /\ KnownDeleted \subseteq Contacts
  <1>1. \A i \in DOMAIN log : log[i] \in SegmentEvents
    BY DEF SegmentTypeOK
  <1>2. Gone \subseteq Contacts
    BY <1>1, EventsAssumption DEF Gone, DeletedIn
  <1>3. QED
    BY <1>2 DEF KnownDeleted, SegmentTypeOK, Gone

LEMMA IngestType ==
    ASSUME SegmentTypeOK, work \in Works, Ingest  PROVE SegmentTypeOK' /\ work' \in Works'
  <1>1. PICK e \in SegmentEvents, here \in BOOLEAN :
          /\ log' = Append(log, e)
          /\ IF e.kind = "deleted" THEN Signal(here) ELSE UNCHANGED cached
          /\ excuses' = excuses \cup (IF here \/ cached = {} THEN {} ELSE {"elsewhere"})
                                \cup (IF work.now # Never THEN {"forgotten"} ELSE {})
    BY DEF Ingest
  <1>2. log' \in Seq(SegmentEvents) /\ Len(log') = Len(log) + 1 /\ Len(log) \in Nat
    BY <1>1, LogGrows DEF SegmentTypeOK
  <1>3. 0 .. Len(log) \subseteq 0 .. Len(log') /\ Times \subseteq Times' /\ Rows \subseteq Rows'
    BY <1>2 DEF Times, Rows
  <1>4. UNCHANGED <<row, state, assigned, resolved, work, scan, listeners, budgets>>
    BY DEF Ingest
  <1>5. work' \in Works'
    BY <1>3, <1>4 DEF Works
  <1>6. cached' \subseteq Contacts /\ excuses' \subseteq {"forgotten", "elsewhere", "unannounced"}
    BY <1>1 DEF SegmentTypeOK, Signal
  <1>7. state \in [1 .. MaxNodes -> [Contacts -> Rows']]
    BY <1>3, TypeParts
  <1>8. window \in [1 .. MaxNodes -> 0 .. Len(log')]
    BY <1>3, TypeParts
  <1>9. {last, upto} \subseteq Times'
    BY <1>3, TypeParts
  <1>10. QED
    BY <1>2, <1>4, <1>5, <1>6, <1>7, <1>8, <1>9
       DEF SegmentTypeOK, row, scan, listeners, budgets, Times, Rows

LEMMA ScanRows ==
    ASSUME SegmentTypeOK, work \in Works, At("scan"), work.node \in DOMAIN work.def.nodes, Scan
    PROVE  /\ work.node \in 1 .. MaxNodes
           /\ window' \in [1 .. MaxNodes -> 0 .. Len(log)]
           /\ \A i \in 1 .. MaxNodes : i # work.node => window'[i] = window[i]
           /\ work.def.nodes[work.node] # "recent" => window' = window
           /\ Scanned(work) \subseteq DOMAIN log
           /\ state' \in [1 .. MaxNodes -> [Contacts -> Rows]]
           /\ \A i \in 1 .. MaxNodes : i # work.node => state'[i] = state[i]
           /\ \A c \in Contacts :
                LET node == work.def.nodes[work.node]
                    P == IF node = "recent" THEN Scanned(work) \ 1 .. window'[work.node]
                                            ELSE Scanned(work)
                    found == Row(node, log, P, c, KnownDeleted, SetIn(log, DOMAIN log))
                    old == state[work.node][c]
                IN  \/ state'[work.node][c] = found /\ found.at >= old.at
                    \/ state'[work.node][c] = old /\ found.at <= old.at
  <1> DEFINE node == work.def.nodes[work.node]
             P == IF node = "recent" THEN Scanned(work) \ 1 .. window'[work.node]
                                     ELSE Scanned(work)
             F == [c \in Contacts |-> Row(node, log, P, c, KnownDeleted, SetIn(log, DOMAIN log))]
             old == state[work.node]
  <1>1. work.def \in Definitions /\ work.node \in 1 .. MaxNodes
    BY NodesOf DEF Works
  <1>2. window' \in IF node = "recent"
                    THEN {[window EXCEPT ![work.node] = n] : n \in window[work.node] .. Len(log)}
                    ELSE {window}
    BY DEF Scan
  <1>3. window \in [1 .. MaxNodes -> 0 .. Len(log)] /\ Len(log) \in Nat
    BY TypeParts
  <1>4. /\ window' \in [1 .. MaxNodes -> 0 .. Len(log)]
        /\ \A i \in 1 .. MaxNodes : i # work.node => window'[i] = window[i]
        /\ node # "recent" => window' = window
    <2>1. CASE node # "recent"
      BY <1>2, <1>3, <2>1
    <2>2. CASE node = "recent"
      <3>1. PICK n \in window[work.node] .. Len(log) : window' = [window EXCEPT ![work.node] = n]
        BY <1>2, <2>2
      <3>2. n \in 0 .. Len(log)
        BY <1>1, <1>3, <3>1
      <3>3. QED
        BY <1>3, <2>2, <3>1, <3>2
    <2>3. QED
      BY <2>1, <2>2
  <1>5. Scanned(work) \subseteq DOMAIN log /\ P \subseteq DOMAIN log
    BY DEF Scanned
  <1>6. PICK kept \in SUBSET {c \in Contacts : F[c].at = old[c].at /\ F[c] # old[c]} :
          state' = [state EXCEPT ![work.node] =
                      [c \in Contacts |-> IF c \in kept \/ F[c].at < old[c].at
                                          THEN old[c] ELSE F[c]]]
    BY DEF Scan
  <1>7. state \in [1 .. MaxNodes -> [Contacts -> Rows]] /\ old \in [Contacts -> Rows]
    BY <1>1, TypeParts
  <1>8. \A c \in Contacts : F[c] \in Rows
    BY <1>5, RowType, TypeParts DEF Rows
  <1>9. ASSUME NEW c \in Contacts
        PROVE  \/ state'[work.node][c] = F[c] /\ F[c].at >= old[c].at
               \/ state'[work.node][c] = old[c] /\ F[c].at <= old[c].at
    <2> HIDE DEF F, old
    <2>0. \A r \in Rows : r.at \in Nat
      BY <1>3 DEF Rows
    <2>1. F[c].at \in Nat /\ old[c].at \in Nat
      BY <1>7, <1>8, <2>0
    <2>2. state'[work.node][c] = IF c \in kept \/ F[c].at < old[c].at THEN old[c] ELSE F[c]
      BY <1>1, <1>6, <1>7
    <2>3. c \in kept => F[c].at = old[c].at
      BY <1>6
    <2>4. QED
      BY <2>1, <2>2, <2>3
  <1>10. [c \in Contacts |-> IF c \in kept \/ F[c].at < old[c].at THEN old[c] ELSE F[c]]
            \in [Contacts -> Rows]
    BY <1>7, <1>8
  <1>11. /\ state' \in [1 .. MaxNodes -> [Contacts -> Rows]]
         /\ \A i \in 1 .. MaxNodes : i # work.node => state'[i] = state[i]
    BY <1>1, <1>6, <1>7, <1>10
  <1>12. \A c \in Contacts :
           F[c] = Row(node, log, P, c, KnownDeleted, SetIn(log, DOMAIN log))
    OBVIOUS
  <1>13. QED
    BY <1>1, <1>4, <1>5, <1>9, <1>11, <1>12

LEMMA StepTypes ==
    ASSUME SegmentTypeOK, work \in Works, At("scan") => work.node \in DOMAIN work.def.nodes,
           CacheExpires \/ Edit \/ Begin \/ Clean \/ Prepare \/ Scan \/ Assign \/ Announce
             \/ Save \/ Record \/ Fail \/ ProcessDies
    PROVE  SegmentTypeOK' /\ work' \in Works'
  <1> USE TypeParts, IdleWork
  <1>1. CASE CacheExpires
    <2>1. work' = work /\ log' = log
      BY <1>1 DEF CacheExpires
    <2>2. SegmentTypeOK'
      BY <1>1, TypeKept DEF CacheExpires, row, scan, listeners, budgets
    <2>3. QED
      BY <2>1, <2>2 DEF Works, Times
  <1>2. CASE Edit
    <2>1. work' = work /\ log' = log
      BY <1>2 DEF Edit
    <2>2. edits' \in 0 .. MaxEdits
      BY <1>2, BoundsAssumption DEF Edit
    <2>3. SegmentTypeOK'
      BY <1>2, <2>2, TypeKept DEF Edit, scan, listeners
    <2>4. QED
      BY <2>1, <2>3 DEF Works, Times
  <1>3. CASE Begin
    <2>1. work' \in Works /\ log' = log
      BY <1>3 DEF Begin, Goes, Works, Phases, Begun
    <2>2. excuses' \subseteq {"forgotten", "elsewhere", "unannounced"}
      BY <1>3 DEF Begin, Excuse
    <2>3. SegmentTypeOK'
      BY <1>3, <2>2, TypeKept DEF Begin, row, scan, listeners, budgets
    <2>4. QED
      BY <2>1, <2>3 DEF Works, Times
  <1>4. CASE Clean
    <2>1. work' \in Works /\ log' = log
      BY <1>4 DEF Clean, Goes, GoesTo, Works, Phases, Begun
    <2>2. excuses' \subseteq {"forgotten", "elsewhere", "unannounced"} /\ upto' \in Times
      BY <1>4 DEF Clean, Excuse, Times
    <2>3. SegmentTypeOK'
      BY <1>4, <2>2, TypeKept DEF Clean, row, listeners, budgets
    <2>4. QED
      BY <2>1, <2>3 DEF Works, Times
  <1>5. CASE Prepare
    <2>1. log' = log /\ Len(log) \in Times /\ Never \in Times
      BY <1>5 DEF Prepare, Times
    <2>p. PICK before \in {resolved, Nobody} :
            work' = [work EXCEPT !.now = Len(log), !.node = 1,
                                 !.pc = IF Windowed THEN "clean" ELSE "scan",
                                 !.before = IF Windowed THEN before ELSE Nobody]
      BY <1>5 DEF Prepare, Goes
    <2>w. work' \in Works
      BY <2>1, <2>p DEF Works, Phases, Begun, People
    <2>2. excuses' \subseteq {"forgotten", "elsewhere", "unannounced"} /\ mishaps' \in 0 .. MaxMishaps
      BY <1>5 DEF Prepare
    <2>3. SegmentTypeOK'
      BY <1>5, <2>2, TypeKept DEF Prepare, row, scan, listeners
    <2>4. QED
      BY <2>1, <2>w, <2>3 DEF Works, Times
  <1>6. CASE Scan
    <2>1. At("scan")
      BY <1>6 DEF Scan
    <2>2. work' \in Works /\ log' = log
      <3>1. /\ log' = log
            /\ work' = [work EXCEPT !.node = @ + 1,
                                    !.pc = IF work.node = Len(work.def.nodes)
                                           THEN "assign" ELSE "scan"]
        BY <1>6 DEF Scan, Goes
      <3>2. work.node + 1 \in Nat /\ {"assign", "scan"} \subseteq Phases
        BY DEF Works, Phases, Begun
      <3>3. QED
        BY <3>1, <3>2 DEF Works
    <2>3. cached' \subseteq Contacts
      BY <1>6, GoneType DEF Scan
    <2>4. state' \in [1 .. MaxNodes -> [Contacts -> Rows]]
      BY <1>6, <2>1, ScanRows
    <2>5. window' \in [1 .. MaxNodes -> 0 .. Len(log)]
      BY <1>6, <2>1, ScanRows
    <2>6. SegmentTypeOK'
      BY <1>6, <2>2, <2>3, <2>4, <2>5, TypeKept DEF Scan, row, listeners, budgets
    <2>7. QED
      BY <2>2, <2>6 DEF Works, Times
  <1>7. CASE Assign
    <2>1. work' \in Works /\ log' = log
      BY <1>7 DEF Assign, Goes, GoesTo, Works, Phases, Begun
    <2>2. assigned' \in People
      BY <1>7 DEF Assign, People, Memberships
    <2>3. upto' \in Times /\ by' \in Definitions
      BY <1>7 DEF Assign, Works
    <2>4. SegmentTypeOK'
      BY <1>7, <2>1, <2>2, <2>3, TypeKept DEF Assign, row, listeners, budgets
    <2>5. QED
      BY <2>1, <2>4 DEF Works, Times
  <1>8. CASE Announce
    <2>1. work' \in Works /\ log' = log
      BY <1>8 DEF Announce, Goes, GoesTo, Works, Phases, Begun
    <2>2. excuses' \subseteq {"forgotten", "elsewhere", "unannounced"} /\ mishaps' \in 0 .. MaxMishaps
      BY <1>8 DEF Announce, Excuse
    <2>3. ASSUME NEW x, NEW y, Tell(x, y)
          PROVE  told' \in People /\ repeated' \in BOOLEAN
      BY <2>3 DEF Tell, People, Memberships
    <2>4. told' \in People /\ repeated' \in BOOLEAN
      BY <1>8, <2>3 DEF Announce, Find, listeners
    <2>5. SegmentTypeOK'
      BY <1>8, <2>2, <2>4, TypeKept DEF Announce, row, scan
    <2>6. QED
      BY <2>1, <2>5 DEF Works, Times
  <1>9. CASE Save
    <2>1. work' \in Works /\ log' = log
      BY <1>9 DEF Save, Goes, GoesTo, Works, Phases, Begun
    <2>2. resolved' \in People
      BY <1>9 DEF Save, People
    <2>3. SegmentTypeOK'
      BY <1>9, <2>2, TypeKept DEF Save, row, scan, listeners, budgets
    <2>4. QED
      BY <2>1, <2>3 DEF Works, Times
  <1>10. CASE Record
    <2>1. work' \in Works /\ log' = log
      BY <1>10 DEF Record, Goes
    <2>2. excuses' \subseteq {"forgotten", "elsewhere", "unannounced"} /\ last' \in Times
      BY <1>10 DEF Record, Excuse, Times
    <2>3. SegmentTypeOK'
      BY <1>10, <2>2, TypeKept DEF Record, scan, listeners, budgets
    <2>4. QED
      BY <2>1, <2>3 DEF Works, Times
  <1>11. ASSUME Partly, UNCHANGED <<log, row, window, by, listeners, edits>>, Mishap,
                cached' \subseteq Contacts, excuses' \subseteq excuses \cup Lost \cup {"forgotten"}
         PROVE  SegmentTypeOK'
    <2>1. /\ state' \in [1 .. MaxNodes -> [Contacts -> Rows]]
          /\ assigned' \in People /\ resolved' \in People /\ upto' \in Times
      BY <1>11 DEF Partly, Times
    <2>2. excuses' \subseteq {"forgotten", "elsewhere", "unannounced"}
      BY <1>11 DEF Lost
    <2>3. QED
      BY <1>11, <2>1, <2>2, TypeKept DEF row, listeners
  <1>12. CASE Fail
    <2>1. work' \in Works /\ log' = log
      BY <1>12 DEF Fail, Goes, GoesTo, Works, Phases, Begun
    <2>2. SegmentTypeOK'
      BY <1>11, <1>12 DEF Fail
    <2>3. QED
      BY <2>1, <2>2 DEF Works, Times
  <1>13. CASE ProcessDies
    <2>1. work' \in Works /\ log' = log
      BY <1>13 DEF ProcessDies
    <2>2. SegmentTypeOK'
      BY <1>11, <1>13 DEF ProcessDies
    <2>3. QED
      BY <2>1, <2>2 DEF Works, Times
  <1>14. QED
    BY <1>1, <1>2, <1>3, <1>4, <1>5, <1>6, <1>7, <1>8, <1>9, <1>10, <1>12, <1>13

-------------------------------------------------------------------------------
(* The computation, the edits and the cache.                                 *)

LEMMA ExcusesGrow ==
    ASSUME [SegmentNext]_segmentVars  PROVE excuses \subseteq excuses'
  BY DEF SegmentNext, Ingest, CacheExpires, Edit, Begin, Proceed, Clean, Prepare, Scan, Assign, Announce,
         Save, Record, Fail, ProcessDies, Excuse, segmentVars

LEMMA CacheStep ==
    ASSUME SegmentTypeOK, WorkInv, [SegmentNext]_segmentVars
    PROVE  cached' \subseteq Gone' /\ (Heeded' => cached' = {} \/ cached' = Gone')
  <1>1. Heeded' => Heeded
    BY ExcusesGrow DEF Heeded
  <1>2. cached \subseteq Gone /\ (Heeded => cached = {} \/ cached = Gone)
    BY DEF WorkInv
  <1>3. CASE Ingest
    <2>1. PICK e \in SegmentEvents, here \in BOOLEAN :
            /\ e.kind # "deleted" => here
            /\ log' = Append(log, e)
            /\ IF e.kind = "deleted" THEN Signal(here) ELSE UNCHANGED cached
            /\ excuses' = excuses \cup (IF here \/ cached = {} THEN {} ELSE {"elsewhere"})
                                  \cup (IF work.now # Never THEN {"forgotten"} ELSE {})
      BY <1>3 DEF Ingest
    <2>2. Gone \subseteq Gone' /\ (e.kind # "deleted" => Gone' = Gone)
      BY <2>1, GrownFacts, TypeParts
    <2>3. CASE e.kind # "deleted"
      BY <1>1, <1>2, <2>1, <2>2, <2>3
    <2>4. CASE e.kind = "deleted"
      BY <1>1, <1>2, <2>1, <2>2, <2>4 DEF Signal, Heeded
    <2>5. QED
      BY <2>3, <2>4
  <1>4. CASE log' = log /\ (cached' = cached \/ cached' = {} \/ cached' = KnownDeleted)
    <2>1. Gone' = Gone
      BY <1>4 DEF Gone
    <2>2. KnownDeleted = Gone \/ KnownDeleted = cached
      BY DEF KnownDeleted, Gone
    <2>3. QED
      BY <1>1, <1>2, <1>4, <2>1, <2>2
  <1>5. QED
    BY <1>3, <1>4 DEF SegmentNext, CacheExpires, Edit, Begin, Proceed, Clean, Prepare, Scan, Assign, Announce,
       Save, Record, Fail, ProcessDies, segmentVars

LEMMA ControlStep ==
    ASSUME SegmentTypeOK, WorkInv, [SegmentNext]_segmentVars
    PROVE  /\ At("scan")' => work'.node \in DOMAIN work'.def.nodes
           /\ At("clean")' /\ Windowed' => work'.node = 1 /\ work'.now # Never
           /\ At("clean")' /\ ~Windowed' => last' = Never \/ edited'
           /\ ~At("idle")' => work'.last = last' /\ (Unedited' => work'.def = definition')
           /\ edits' = 0 => ~edited'
  <1> DEFINE Goal ==
           /\ At("scan")' => work'.node \in DOMAIN work'.def.nodes
           /\ At("clean")' /\ Windowed' => work'.node = 1 /\ work'.now # Never
           /\ At("clean")' /\ ~Windowed' => last' = Never \/ edited'
           /\ ~At("idle")' => work'.last = last' /\ (Unedited' => work'.def = definition')
           /\ edits' = 0 => ~edited'
  <1> SUFFICES Goal
    OBVIOUS
  <1>1. /\ At("scan") => work.node \in DOMAIN work.def.nodes
        /\ At("clean") /\ Windowed => work.node = 1 /\ work.now # Never
        /\ At("clean") /\ ~Windowed => last = Never \/ edited
        /\ ~At("idle") => work.last = last /\ (Unedited => work.def = definition)
        /\ edits = 0 => ~edited
        /\ work \in Works /\ work.def \in Definitions
    BY DEF WorkInv, Works
  <1>2. Len(log) \in Nat /\ Len(log) # Never /\ edits \in Nat
    BY TypeParts, BoundsAssumption DEF Never
  <1>3. \A d \in Definitions : 1 \in DOMAIN d.nodes /\ Len(d.nodes) \in Nat
                               /\ DOMAIN d.nodes = 1 .. Len(d.nodes)
    BY NodesOf
  <1>4. CASE UNCHANGED <<work, row, edits>>
    BY <1>1, <1>4 DEF At, Windowed, Unedited, row
  <1>5. CASE Edit
    <2>1. /\ edits' = edits + 1 /\ edited' = (last # Never) /\ last' = last /\ work' = work
      BY <1>5 DEF Edit
    <2>2. edits' # 0
      BY <1>2, <2>1
    <2>3. last # Never => edited'
      BY <2>1
    <2>4. QED
      BY <1>1, <2>1, <2>2, <2>3 DEF At, Windowed, Unedited
  <1>6. CASE Begin
    <2>1. PICK path \in {"single", "batch"} :
            work' = [Idle EXCEPT !.pc = IF path = "single" /\ (last = Never \/ edited)
                                           /\ ~HasTimeWindows(definition)
                                        THEN "clean" ELSE "prepare",
                                 !.path = path, !.def = definition, !.last = last]
      BY <1>6 DEF Begin, Goes
    <2>2. /\ work'.def = definition /\ work'.last = last
          /\ work'.pc = IF path = "single" /\ (last = Never \/ edited)
                           /\ ~HasTimeWindows(definition)
                        THEN "clean" ELSE "prepare"
      BY <2>1 DEF Idle
    <2>3. UNCHANGED <<row, edits>>
      BY <1>6 DEF Begin, budgets
    <2>4. QED
      BY <1>1, <2>2, <2>3 DEF At, Windowed, Unedited, row
  <1>7. CASE Clean
    <2>1. /\ work'.def = work.def /\ work'.last = work.last /\ work'.node = work.node
          /\ work'.pc = IF Windowed THEN "scan" ELSE "prepare"
      BY <1>7, <1>1 DEF Clean, GoesTo, Goes, Works
    <2>2. UNCHANGED <<row, edits>> /\ At("clean")
      BY <1>7 DEF Clean, budgets
    <2>3. QED
      BY <1>1, <1>3, <2>1, <2>2 DEF At, Windowed, Unedited, row
  <1>8. CASE Prepare
    <2>1. /\ work'.def = work.def /\ work'.last = work.last /\ work'.node = 1
          /\ work'.pc = (IF Windowed THEN "clean" ELSE "scan") /\ work'.now = Len(log)
      BY <1>8, <1>1 DEF Prepare, Goes, Works
    <2>2. UNCHANGED <<row, edits>> /\ At("prepare")
      BY <1>8 DEF Prepare
    <2>3. QED
      BY <1>1, <1>2, <1>3, <2>1, <2>2 DEF At, Windowed, Unedited, row
  <1>9. CASE Scan
    <2>1. /\ work'.def = work.def /\ work'.last = work.last /\ work'.node = work.node + 1
          /\ work'.pc = IF work.node = Len(work.def.nodes) THEN "assign" ELSE "scan"
      BY <1>9, <1>1 DEF Scan, Goes, Works
    <2>2. UNCHANGED <<row, edits>> /\ At("scan")
      BY <1>9 DEF Scan, budgets
    <2>3. work'.pc = "scan" => work'.node \in DOMAIN work'.def.nodes
      <3>1. work.node \in 1 .. Len(work.def.nodes) /\ Len(work.def.nodes) \in Nat
        BY <1>1, <1>3, <2>2
      <3>2. QED
        BY <1>1, <1>3, <2>1, <3>1
    <2>4. QED
      BY <1>1, <2>1, <2>2, <2>3 DEF At, Unedited, row
  <1>10. CASE Assign \/ Announce \/ Save
    <2>1. /\ work'.def = work.def /\ work'.last = work.last
          /\ work'.pc \in {"announce", "save", "record"}
      BY <1>10, <1>1 DEF Assign, Announce, Save, GoesTo, Goes, Works
    <2>2. UNCHANGED <<row, edits>> /\ ~At("idle")
      BY <1>10 DEF Assign, Announce, Save, budgets, At
    <2>3. QED
      BY <1>1, <2>1, <2>2 DEF At, Unedited, row
  <1>11. CASE Record
    BY <1>1, <1>11 DEF Record, Goes, Idle, At, budgets
  <1>12. CASE Fail
    <2>1. UNCHANGED <<row, edits>> /\ ~At("idle")
      BY <1>12 DEF Fail, At
    <2>2. CASE work' = Idle
      BY <1>1, <2>1, <2>2 DEF Idle, At, row
    <2>3. CASE work' = [work EXCEPT !.pc = "record"]
      <3>1. work'.pc = "record" /\ work'.def = work.def /\ work'.last = work.last
        BY <1>1, <2>3 DEF Works
      <3>2. QED
        BY <1>1, <2>1, <3>1 DEF At, Unedited, row
    <2>4. QED
      BY <1>12, <2>2, <2>3 DEF Fail, Goes, GoesTo
  <1>13. CASE ProcessDies
    BY <1>1, <1>13 DEF ProcessDies, Idle, At, row
  <1>14. CASE Ingest \/ CacheExpires \/ UNCHANGED segmentVars
    BY <1>4, <1>14 DEF Ingest, CacheExpires, segmentVars, budgets, row
  <1>15. QED
    BY <1>5, <1>6, <1>7, <1>8, <1>9, <1>10, <1>11, <1>12, <1>13, <1>14 DEF SegmentNext, Proceed

LEMMA WorkStep ==
    ASSUME SegmentTypeOK, WorkInv, [SegmentNext]_segmentVars
    PROVE  SegmentTypeOK' /\ WorkInv'
  <1>1. SegmentTypeOK' /\ work' \in Works'
    <2>1. work \in Works /\ (At("scan") => work.node \in DOMAIN work.def.nodes)
      BY DEF WorkInv
    <2>2. CASE UNCHANGED segmentVars
      <3>1. SegmentTypeOK'
        BY <2>2, TypeKept, TypeParts DEF segmentVars
      <3>2. QED
        BY <2>1, <2>2, <3>1 DEF segmentVars, Works, Times
    <2>3. CASE Ingest
      BY <2>1, <2>3, IngestType
    <2>4. QED
      BY <2>1, <2>2, <2>3, StepTypes DEF SegmentNext, Proceed
  <1>2. QED
    BY <1>1, CacheStep, ControlStep DEF WorkInv

-------------------------------------------------------------------------------
(* What the events, the edits and the clean-ups make of the rows.            *)

\* Events stored later leave the rows what they are.
LEMMA SoundGrows ==
    ASSUME SegmentTypeOK, NEW e \in SegmentEvents, log' = Append(log, e), excuses \subseteq excuses',
           NEW node, NEW c, NEW r, r.at \in 0 .. Len(log), RowSound(node, r, c)
    PROVE  RowSound(node, r, c)'
  <1>1. /\ log \in Seq(SegmentEvents) /\ DOMAIN log = 1 .. Len(log) /\ Len(log) \in Nat
        /\ \A i \in DOMAIN log : log'[i] = log[i]
    BY LogGrows DEF SegmentTypeOK
  <1>2. Gone \subseteq Gone' /\ Matching(node, c, DOMAIN log) \subseteq Matching(node, c, DOMAIN log)'
    BY <1>1, GrownFacts
  <1>3. SetIn(log', 1 .. r.at) = SetIn(log, 1 .. r.at)
    <2>1. 1 .. r.at \subseteq DOMAIN log
      BY <1>1
    <2>2. QED
      BY <1>1, <2>1, GrownFacts
  <1>4. Heeded' => Heeded
    BY DEF Heeded
  <1>5. r.at # 0 => r.at \in DOMAIN log /\ log'[r.at] = log[r.at]
    BY <1>1
  <1>6. \A j \in 1 .. r.at : log'[j] = log[j]
    BY <1>1
  <1>7. QED
    BY <1>2, <1>3, <1>4, <1>5, <1>6 DEF RowSound

LEMMA ResumableGrows ==
    ASSUME SegmentTypeOK, Ingest, NEW def \in Definitions, NEW from \in Times, Resumable(def, from)
    PROVE  Resumable(def, from)'
  <1>1. PICK e \in SegmentEvents : log' = Append(log, e)
    BY DEF Ingest
  <1>2. excuses \subseteq excuses' /\ state' = state /\ assigned' = assigned
    BY DEF Ingest
  <1>3. log \in Seq(SegmentEvents) /\ DOMAIN log = 1 .. Len(log) /\ Len(log) \in Nat
    BY TypeParts
  <1>4. /\ Gone \subseteq Gone'
        /\ \A node, c, P : P \subseteq DOMAIN log => Matching(node, c, P)' = Matching(node, c, P)
        /\ \A node, c : Matching(node, c, DOMAIN log) \subseteq Matching(node, c, DOMAIN log)'
    BY <1>1, <1>3, GrownFacts
  <1>5. Grounded(def)'
    BY <1>2, <1>4 DEF Resumable, Grounded
  <1>6. ASSUME NEW i \in DOMAIN def.nodes, NEW c \in Contacts
        PROVE  /\ RowSound(def.nodes[i], state[i][c], c)'
               /\ RowReaches(def.nodes[i], state[i][c], c, 1 .. from)'
    <2>1. i \in 1 .. MaxNodes
      BY NodesOf
    <2>2. state[i][c].at \in 0 .. Len(log)
      BY <2>1, TypeParts DEF Rows
    <2>3. /\ RowSound(def.nodes[i], state[i][c], c)
          /\ RowReaches(def.nodes[i], state[i][c], c, 1 .. from)
      BY DEF Resumable, NodeOld
    <2> DEFINE r == state[i][c]
    <2>4. \A x : x = r => RowSound(def.nodes[i], x, c)'
      BY <1>1, <1>2, <2>2, <2>3, SoundGrows
    <2>5. RowSound(def.nodes[i], state[i][c], c)'
      BY <1>2, <2>4
    <2>6. 1 .. from \subseteq DOMAIN log
      BY <1>3 DEF Times, Never
    <2>7. Matching(def.nodes[i], c, 1 .. from)' = Matching(def.nodes[i], c, 1 .. from)
      BY <1>4, <2>6
    <2>8. QED
      BY <1>2, <2>3, <2>5, <2>7 DEF RowReaches
  <1>7. QED
    BY <1>5, <1>6 DEF Resumable, NodeOld

\* Steps that leave the rows and the events leave the facts about them.
LEMMA NodesKept ==
    ASSUME log' = log, state' = state, excuses \subseteq excuses', NEW def, NEW i, NEW from
    PROVE  /\ NodeOld(def, i, from) => NodeOld(def, i, from)'
           /\ window' = window /\ NodeExact(def, i) => NodeExact(def, i)'
  BY DEF NodeOld, NodeExact, RowSound, RowReaches, Readable, Matching, Gone, Heeded

LEMMA GroundedKept ==
    ASSUME log' = log, assigned' = assigned, NEW def
    PROVE  Grounded(def) => Grounded(def)'
  BY DEF Grounded, Matching, Gone

LEMMA ResumableKept ==
    ASSUME log' = log, state' = state, assigned' = assigned, excuses \subseteq excuses',
           NEW def, NEW from, Resumable(def, from)
    PROVE  Resumable(def, from)'
  BY NodesKept, GroundedKept DEF Resumable

\* Nothing is in the way of a scan that begins from no rows.
LEMMA NoRowsResume ==
    ASSUME state = NoStates, Len(log) \in Nat, NEW def \in Definitions
    PROVE  /\ \A i \in DOMAIN def.nodes : NodeOld(def, i, Never)
           /\ assigned = Nobody => Resumable(def, Never)
  <1>1. 1 .. Never = {}
    BY DEF Never
  <1>2. ASSUME NEW i \in DOMAIN def.nodes, NEW c \in Contacts
        PROVE  /\ RowSound(def.nodes[i], state[i][c], c)
               /\ RowReaches(def.nodes[i], state[i][c], c, 1 .. Never)
    <2>1. state[i][c] = NoRow
      <3>1. i \in 1 .. MaxNodes
        BY NodesOf
      <3>2. QED
        BY <3>1 DEF NoStates
    <2>2. QED
      BY <1>1, <2>1 DEF NoRow, RowSound, RowReaches, Matching
  <1>3. assigned = Nobody => Grounded(def)
    BY DEF Grounded, Nobody
  <1>4. QED
    BY <1>2, <1>3 DEF NodeOld, Resumable

\* A scan of everything leaves rows to go on from.
LEMMA ExactIsOld ==
    ASSUME SegmentTypeOK, NEW def \in Definitions, ~HasTimeWindows(def), NEW i \in DOMAIN def.nodes,
           NodeExact(def, i), NEW from \in Times
    PROVE  NodeOld(def, i, from)
  <1>1. def.nodes[i] # "recent"
    BY DEF HasTimeWindows
  <1>2. Readable(def, i) = DOMAIN log /\ DOMAIN log = 1 .. Len(log) /\ Len(log) \in Nat
    BY <1>1, TypeParts DEF Readable
  <1>3. 1 .. from \subseteq DOMAIN log
    BY <1>2 DEF Times, Never
  <1>4. \A c \in Contacts : Matching(def.nodes[i], c, 1 .. from) \subseteq Matching(def.nodes[i], c, DOMAIN log)
    BY <1>3 DEF Matching
  <1>5. QED
    BY <1>2, <1>4 DEF NodeExact, NodeOld, RowReaches

-------------------------------------------------------------------------------
(* What a scan makes of the rows of its node.                                *)

\* The positions a scan reads, and what those before them are.
LEMMA ScannedIs ==
    ASSUME SegmentTypeOK, work \in Works, work.now = Len(log)
    PROVE  /\ Windowed => Scanned(work) = DOMAIN log
           /\ ~Windowed => DOMAIN log = Scanned(work) \cup (DOMAIN log \cap 1 .. work.last)
           /\ Scanned(work) \subseteq DOMAIN log
           /\ \A j \in Scanned(work), k \in DOMAIN log \ Scanned(work) : k < j
  <1>1. DOMAIN log = 1 .. Len(log) /\ Len(log) \in Nat
    BY TypeParts
  <1>2. work.last \in Times
    BY DEF Works
  <1>3. CASE Windowed \/ work.last = Never
    <2>1. Scanned(work) = DOMAIN log
      BY <1>1, <1>3 DEF Scanned, Windowed
    <2>2. QED
      BY <2>1
  <1>4. CASE ~(Windowed \/ work.last = Never)
    <2>1. Scanned(work) = {j \in DOMAIN log : work.last < j} /\ work.last \in Nat
      BY <1>1, <1>2, <1>4 DEF Scanned, Windowed, Times
    <2>2. QED
      BY <1>1, <1>4, <2>1
  <1>5. QED
    BY <1>3, <1>4

\* A row found now says what it should.
LEMMA FoundSound ==
    ASSUME SegmentTypeOK, WorkInv, NEW node, NEW c \in Contacts, NEW P, P \subseteq DOMAIN log,
           node # "recent" => \A j \in P, k \in DOMAIN log \ P : k < j
    PROVE  LET r == Row(node, log, P, c, KnownDeleted, SetIn(log, DOMAIN log))
           IN  /\ RowSound(node, r, c)
               /\ RowReaches(node, r, c, P)
               /\ r.at \in {0} \cup P
               /\ Heeded /\ Forgets(node) /\ c \in Gone => ~r.value
  <1> DEFINE r == Row(node, log, P, c, KnownDeleted, SetIn(log, DOMAIN log))
  <1>1. log \in Seq(SegmentEvents) /\ DOMAIN log = 1 .. Len(log) /\ Len(log) \in Nat
    BY TypeParts
  <1>2. KnownDeleted \subseteq Gone /\ (Heeded => KnownDeleted = Gone)
    BY DEF WorkInv, KnownDeleted, Gone
  <1>3. \/ Matching(node, c, P) = {} /\ r = NoRow
        \/ /\ r.at \in Matching(node, c, P)
           /\ \A j \in Matching(node, c, P) : j <= r.at
           /\ r.value = Value(node, log[r.at], KnownDeleted, SetIn(log, DOMAIN log))
    BY <1>1, RowOf
  <1> HIDE DEF r
  <1>4. CASE Matching(node, c, P) = {} /\ r = NoRow
    BY <1>4 DEF NoRow, RowSound, RowReaches, r
  <1>5. CASE /\ r.at \in Matching(node, c, P)
             /\ \A j \in Matching(node, c, P) : j <= r.at
             /\ r.value = Value(node, log[r.at], KnownDeleted, SetIn(log, DOMAIN log))
    <2>1. r.at \in P /\ r.at \in DOMAIN log /\ log[r.at].contact = c /\ r.at \in Nat \ {0}
      BY <1>1, <1>5 DEF Matching
    <2>2. r.at \in Matching(node, c, DOMAIN log)
      BY <1>5 DEF Matching
    <2>3. node = "has_not" => (c \in SetIn(log, DOMAIN log) <=> c \in SetIn(log, 1 .. r.at))
      <3>1. SUFFICES ASSUME node = "has_not"
                     PROVE  c \in SetIn(log, DOMAIN log) <=> c \in SetIn(log, 1 .. r.at)
        OBVIOUS
      <3>2. ASSUME NEW j \in DOMAIN log, log[j].contact = c  PROVE j <= r.at
        <4>1. CASE j \in P
          <5>1. Matches(node, log[j].kind)
            BY <3>1 DEF Matches
          <5>2. j \in Matching(node, c, P)
            BY <3>2, <4>1, <5>1 DEF Matching
          <5>3. QED
            BY <1>5, <5>2
        <4>2. CASE j \notin P
          <5>1. j < r.at
            BY <2>1, <3>1, <4>2
          <5>2. QED
            BY <1>1, <2>1, <5>1
        <4>3. QED
          BY <4>1, <4>2
      <3>3. 1 .. r.at \subseteq DOMAIN log
        BY <1>1, <2>1
      <3>4. QED
        BY <1>1, <2>1, <3>2, <3>3, SetSettled
    <2>4. c \notin Gone => (r.value <=> Value(node, log[r.at], {}, SetIn(log, 1 .. r.at)))
      <3>1. Value(node, log[r.at], {}, SetIn(log, DOMAIN log))
              <=> Value(node, log[r.at], {}, SetIn(log, 1 .. r.at))
        BY <2>1, <2>3, ValueOfSet
      <3>2. c \notin KnownDeleted =>
              (Value(node, log[r.at], KnownDeleted, SetIn(log, DOMAIN log))
                <=> Value(node, log[r.at], {}, SetIn(log, DOMAIN log)))
        BY <2>1, ValueOf
      <3>3. QED
        BY <1>2, <1>5, <3>1, <3>2, Zenon
    <2>5. Heeded /\ Forgets(node) /\ c \in Gone => ~r.value
      <3>1. c \in KnownDeleted /\ Forgets(node) =>
              ~Value(node, log[r.at], KnownDeleted, SetIn(log, DOMAIN log))
        BY <2>1, ValueOf
      <3>2. QED
        BY <1>2, <1>5, <3>1, Zenon
    <2>6. \A j \in 1 .. r.at : log[j].kind = "deleted" /\ log[j].contact = c => c \in Gone
      <3>1. 1 .. r.at \subseteq DOMAIN log
        BY <1>1, <2>1
      <3>2. QED
        BY <3>1 DEF Gone, DeletedIn
    <2>7. RowSound(node, r, c)
      BY <2>1, <2>2, <2>4, <2>5, <2>6 DEF RowSound
    <2>8. RowReaches(node, r, c, P)
      BY <1>5 DEF RowReaches
    <2>9. QED
      BY <2>1, <2>5, <2>7, <2>8 DEF r
  <1>6. QED
    BY <1>3, <1>4, <1>5

LEMMA ScanExact ==
    ASSUME SegmentTypeOK, WorkInv, Unforgotten, RowsInv, Scan
    PROVE  \A d, k : d = work.def /\ k = work.node => NodeExact(d, k)'
  <1> DEFINE i == work.node
             def == work.def
             node == def.nodes[i]
             P == IF node = "recent" THEN Scanned(work) \ 1 .. window'[i] ELSE Scanned(work)
             found(c) == Row(node, log, P, c, KnownDeleted, SetIn(log, DOMAIN log))
             old(c) == state[i][c]
             new(c) == state'[i][c]
             R == IF node = "recent" THEN DOMAIN log \ 1 .. window'[i] ELSE DOMAIN log
  <1>1. At("scan") /\ work \in Works /\ i \in DOMAIN def.nodes /\ def \in Definitions
    BY DEF Scan, WorkInv, Works
  <1>2. work.now = Len(log)
    BY <1>1 DEF RowsInv, Scanning, At
  <1>3. /\ log' = log /\ excuses' = excuses /\ work'.def = work.def
        /\ Scanned(work) \subseteq DOMAIN log /\ i \in 1 .. MaxNodes
    BY <1>1, ScanRows DEF Scan, Goes, Works
  <1>4. \A c \in Contacts : \/ new(c) = found(c) /\ found(c).at >= old(c).at
                            \/ new(c) = old(c) /\ found(c).at <= old(c).at
    BY <1>1, ScanRows
  <1>5. log \in Seq(SegmentEvents) /\ DOMAIN log = 1 .. Len(log) /\ Len(log) \in Nat
    BY TypeParts
  <1>6. node = "recent" => Windowed
    BY <1>1 DEF Windowed, HasTimeWindows
  <1>7. P \subseteq R /\ P \subseteq DOMAIN log /\ R \subseteq DOMAIN log
    BY <1>3
  <1>8. Windowed => P = R
    BY <1>1, <1>2, ScannedIs
  <1>9. ~Windowed => R = DOMAIN log /\ DOMAIN log = P \cup (DOMAIN log \cap 1 .. work.last)
    BY <1>1, <1>2, <1>6, ScannedIs
  <1>10. node # "recent" => \A j \in P, k \in DOMAIN log \ P : k < j
    BY <1>1, <1>2, ScannedIs
  <1>11. Windowed => \A c \in Contacts : old(c) = NoRow
    <2>1. i >= work.node
      BY <1>3
    <2>2. Windowed => state[i] = [c \in Contacts |-> NoRow]
      BY <1>1, <2>1 DEF RowsInv
    <2>3. QED
      BY <2>2
  <1>12. ~Windowed => \A c \in Contacts : /\ RowSound(node, old(c), c)
                                          /\ RowReaches(node, old(c), c, 1 .. work.last)
    <2>1. At("scan") => work.pc \in Begun
      BY DEF At, Begun
    <2>2. QED
      BY <1>1, <2>1 DEF RowsInv, Resumable, NodeOld
  <1>13. ASSUME NEW c \in Contacts
         PROVE  /\ RowSound(node, new(c), c)
                /\ new(c).at \in {0} \cup R
                /\ RowReaches(node, new(c), c, R)
                /\ Windowed /\ Heeded /\ Forgets(node) /\ c \in Gone => ~new(c).value
    <2>1. /\ RowSound(node, found(c), c)
          /\ RowReaches(node, found(c), c, P)
          /\ found(c).at \in {0} \cup P
          /\ Heeded /\ Forgets(node) /\ c \in Gone => ~found(c).value
      BY <1>7, <1>10, FoundSound
    <2> DEFINE f == found(c)
               o == old(c)
               n == new(c)
    <2>2. \/ n = f /\ f.at >= o.at
          \/ n = o /\ f.at <= o.at
      BY <1>4
    <2>3. o.at \in Nat
      BY <1>3, <1>5, TypeParts DEF Rows
    <2>4. Windowed => o = NoRow
      BY <1>11
    <2>5. ~Windowed => RowSound(node, o, c) /\ RowReaches(node, o, c, 1 .. work.last)
      BY <1>12
    <2> HIDE DEF f, o, n, R, P, node
    <2>6. /\ RowSound(node, f, c) /\ RowReaches(node, f, c, P) /\ f.at \in {0} \cup P
          /\ Heeded /\ Forgets(node) /\ c \in Gone => ~f.value
      BY <2>1 DEF f, P, node
    <2>7. RowSound(node, o, c) /\ o.at \in {0} \cup R
      <3>1. CASE Windowed
        BY <2>4, <3>1 DEF NoRow, RowSound
      <3>2. CASE ~Windowed
        BY <1>9, <2>5, <3>2 DEF RowSound, Matching
      <3>3. QED
        BY <3>1, <3>2
    <2>8. f.at \in Nat
      BY <1>5, <1>7, <2>6
    <2>9. n = f \/ n = o
      BY <2>2
    <2>10. RowSound(node, n, c) /\ n.at \in {0} \cup R
      BY <1>7, <2>6, <2>7, <2>9
    <2>11. f.at <= n.at /\ o.at <= n.at /\ n.at \in Nat
      BY <2>2, <2>3, <2>8
    <2>12. ASSUME NEW j \in Matching(node, c, R)  PROVE j <= n.at
      <3>1. j \in DOMAIN log /\ log[j].contact = c /\ Matches(node, log[j].kind) /\ j \in R /\ j \in Nat
        BY <1>5 DEF Matching
      <3>2. CASE j \in P
        <4>1. j \in Matching(node, c, P)
          BY <3>1, <3>2 DEF Matching
        <4>2. j <= f.at
          BY <2>6, <4>1 DEF RowReaches
        <4>3. QED
          BY <2>8, <2>11, <3>1, <4>2
      <3>3. CASE j \notin P
        <4>1. ~Windowed /\ j \in 1 .. work.last
          BY <1>8, <1>9, <3>1, <3>3
        <4>2. j \in Matching(node, c, 1 .. work.last)
          BY <3>1, <4>1 DEF Matching
        <4>3. j <= o.at
          BY <2>5, <4>1, <4>2 DEF RowReaches
        <4>4. QED
          BY <2>3, <2>11, <3>1, <4>3
      <3>4. QED
        BY <3>2, <3>3
    <2>13. Windowed /\ Heeded /\ Forgets(node) /\ c \in Gone => ~n.value
      BY <2>4, <2>6, <2>9 DEF NoRow
    <2>14. QED
      BY <2>10, <2>12, <2>13 DEF RowReaches, n
  <1>14. ASSUME NEW d, NEW k, d = def, k = i
         PROVE  NodeExact(d, k)'
    <2>1. Readable(d, k)' = R /\ d.nodes[k] = node
      BY <1>3, <1>14 DEF Readable
    <2>2. HasTimeWindows(d) <=> Windowed
      BY <1>14 DEF Windowed
    <2>3. \A c \in Contacts : state'[k][c] = new(c)
      BY <1>14
    <2> HIDE DEF R, node, new, P, found, old
    <2>4. /\ \A m, r, c : RowSound(m, r, c) => RowSound(m, r, c)'
          /\ \A m, r, c, p : RowReaches(m, r, c, p) => RowReaches(m, r, c, p)'
          /\ Gone' = Gone /\ (Heeded' <=> Heeded)
      BY <1>3 DEF RowSound, RowReaches, Matching, Gone, Heeded
    <2>5. ASSUME NEW c \in Contacts
          PROVE  /\ RowSound(d.nodes[k], state[k][c], c)'
                 /\ state'[k][c].at \in {0} \cup Readable(d, k)'
                 /\ RowReaches(d.nodes[k], state[k][c], c, Readable(d, k))'
                 /\ HasTimeWindows(d) /\ Heeded' /\ Forgets(d.nodes[k]) /\ c \in Gone' =>
                      ~state'[k][c].value
      BY <1>13, <2>1, <2>2, <2>3, <2>4
    <2>6. QED
      BY <2>5 DEF NodeExact
  <1>15. QED
    BY <1>14

-------------------------------------------------------------------------------
(* Every step leaves rows a scan can go on from.                             *)

LEMMA RowsIngest ==
    ASSUME SegmentTypeOK, WorkInv, RowsInv, Ingest, Unforgotten'  PROVE RowsInv'
  <1>1. UNCHANGED <<row, state, assigned, resolved, work, scan, listeners, budgets>>
    BY DEF Ingest
  <1>2. Unforgotten /\ work.now = Never
    BY DEF Ingest, Unforgotten
  <1>3. work.pc \notin Scanning
    BY <1>2 DEF RowsInv
  <1>4. work.def \in Definitions /\ definition \in Definitions /\ work.last \in Times /\ last \in Times
    BY TypeParts DEF WorkInv, Works
  <1>5. \A d \in Definitions, f \in Times : Resumable(d, f) => Resumable(d, f)'
    BY ResumableGrows
  <1>6. Unedited /\ ~HasTimeWindows(definition) => \A d, f : d = definition /\ f = last => Resumable(d, f)'
    BY <1>2, <1>4, <1>5 DEF RowsInv
  <1>7. work.pc \in Begun /\ ~Windowed => \A d, f : d = work.def /\ f = work.last => Resumable(d, f)'
    BY <1>2, <1>4, <1>5 DEF RowsInv
  <1>8. At("clean") /\ ~Windowed => last = Never
    BY <1>2 DEF RowsInv
  <1>9. QED
    BY <1>1, <1>2, <1>3, <1>6, <1>7, <1>8
       DEF RowsInv, Unedited, Windowed, At, row, scan, budgets, Scanning

\* Steps that touch neither the rows nor the assignments, and do not begin.
LEMMA RowsKept ==
    ASSUME RowsInv, [SegmentNext]_segmentVars,
           UNCHANGED <<log, definition, last, state, assigned, work, upto, window>>,
           (Unedited' => Unedited), Unforgotten'
    PROVE  RowsInv'
  <1>1. excuses \subseteq excuses' /\ Unforgotten
    BY ExcusesGrow DEF Unforgotten
  <1>2. /\ \A d, f : Resumable(d, f) => Resumable(d, f)'
        /\ \A d, i : NodeExact(d, i) => NodeExact(d, i)'
    BY <1>1, ResumableKept, NodesKept
  <1>3. Unedited /\ ~HasTimeWindows(definition) => \A d, f : d = definition /\ f = last => Resumable(d, f)'
    BY <1>1, <1>2 DEF RowsInv
  <1>4. work.pc \in Begun /\ ~Windowed => \A d, f : d = work.def /\ f = work.last => Resumable(d, f)'
    BY <1>1, <1>2 DEF RowsInv
  <1>5. /\ At("scan") => \A d, k : d = work.def /\ k = work.node =>
              \A i \in DOMAIN d.nodes : /\ i < k => NodeExact(d, i)'
                                        /\ i >= k /\ Windowed => state'[i] = [c \in Contacts |-> NoRow]
        /\ work.pc \in Scanning \ {"scan"} =>
              \A d : d = work.def => \A i \in DOMAIN d.nodes : NodeExact(d, i)'
    BY <1>1, <1>2 DEF RowsInv
  <1>6. /\ work.now # Never => work.now = Len(log)
        /\ work.pc \in Scanning => work.now # Never
        /\ Windowed /\ work.pc \in {"scan", "assign"} => upto = Never /\ assigned = Nobody
        /\ At("clean") /\ ~Windowed => last = Never
    BY <1>1 DEF RowsInv
  <1>7. (Windowed' <=> Windowed) /\ \A x : At(x)' <=> At(x)
    BY DEF Windowed, At
  <1>8. QED
    BY <1>3, <1>4, <1>5, <1>6, <1>7 DEF RowsInv

LEMMA RowsBegin ==
    ASSUME SegmentTypeOK, WorkInv, RowsInv, Begin, Unforgotten'  PROVE RowsInv'
  <1>1. PICK path \in {"single", "batch"} :
          /\ work' = [Idle EXCEPT !.pc = IF path = "single" /\ (last = Never \/ edited)
                                            /\ ~HasTimeWindows(definition)
                                         THEN "clean" ELSE "prepare",
                                  !.path = path, !.def = definition, !.last = last]
          /\ Excuse("forgotten",
                    ~HasTimeWindows(definition)
                      /\ (edited \/ (path = "batch" /\ edits > 0
                                     /\ (state # NoStates \/ assigned # Nobody))))
    BY DEF Begin, Goes
  <1>2. UNCHANGED <<log, row, state, assigned, resolved, cached, scan, listeners, budgets>>
    BY DEF Begin
  <1>3. /\ work'.def = definition /\ work'.last = last /\ work'.now = Never
        /\ work'.pc = IF path = "single" /\ (last = Never \/ edited)
                         /\ ~HasTimeWindows(definition)
                      THEN "clean" ELSE "prepare"
    BY <1>1 DEF Idle
  <1>4. Unforgotten /\ excuses' = excuses
    BY <1>1 DEF Excuse, Unforgotten
  <1>5. HasTimeWindows(definition) \/
          (~edited /\ (path = "batch" /\ edits > 0 => state = NoStates /\ assigned = Nobody))
    BY <1>1 DEF Excuse, Unforgotten
  <1>6. definition \in Definitions /\ Len(log) \in Nat /\ edits \in Nat
    BY TypeParts, BoundsAssumption
  <1>7. Unedited /\ ~HasTimeWindows(definition) => Resumable(definition, last)
    BY <1>4 DEF RowsInv
  <1>8. work'.pc = "prepare" /\ ~HasTimeWindows(definition) => Resumable(definition, last)
    <2>1. SUFFICES ASSUME work'.pc = "prepare", ~HasTimeWindows(definition), ~Unedited
                   PROVE  Resumable(definition, last)
      BY <1>7
    <2>2. ~edited /\ last = Never /\ edits > 0
      BY <1>5, <1>6, <2>1 DEF Unedited
    <2>3. path = "batch"
      BY <1>3, <2>1, <2>2
    <2>4. QED
      BY <1>5, <1>6, <2>1, <2>2, <2>3, NoRowsResume
  <1>9. \A d, f : Resumable(d, f) => Resumable(d, f)'
    BY <1>2, <1>4, ResumableKept
  <1>10. Unedited' /\ ~HasTimeWindows(definition) =>
           \A d, f : d = definition /\ f = last => Resumable(d, f)'
    BY <1>2, <1>7, <1>9 DEF Unedited, row, budgets
  <1>11. work'.pc = "prepare" /\ ~HasTimeWindows(definition) =>
           \A d, f : d = definition /\ f = last => Resumable(d, f)'
    BY <1>8, <1>9
  <1>12. work'.pc = "clean" /\ ~HasTimeWindows(definition) => last = Never
    BY <1>3, <1>5
  <1>13. work'.pc \in {"clean", "prepare"}
    BY <1>3
  <1>14. QED
    BY <1>2, <1>3, <1>10, <1>11, <1>12, <1>13 DEF RowsInv, At, Windowed, row, Scanning, Begun

LEMMA RowsClean ==
    ASSUME SegmentTypeOK, WorkInv, RowsInv, Clean, Unforgotten'  PROVE RowsInv'
  <1>1. /\ At("clean") /\ work \in Works /\ work.def \in Definitions /\ definition \in Definitions
        /\ Len(log) \in Nat
    BY TypeParts DEF Clean, WorkInv, Works
  <1>2. /\ work'.def = work.def /\ work'.last = work.last /\ work'.node = work.node
        /\ work'.now = work.now /\ work'.pc = IF Windowed THEN "scan" ELSE "prepare"
    BY <1>1 DEF Clean, GoesTo, Goes, Works
  <1>3. /\ UNCHANGED <<log, row, cached, window, by, listeners, budgets>>
        /\ state' = NoStates /\ assigned' = Nobody /\ upto' = Never
    BY DEF Clean
  <1>4. Unforgotten
    BY DEF Clean, Excuse, Unforgotten
  <1>5. ~Windowed => last = Never /\ work.last = Never
    BY <1>1, <1>4 DEF RowsInv, WorkInv, At
  <1>6. Windowed => work.node = 1 /\ work.now # Never /\ work.now = Len(log)
    BY <1>1, <1>4 DEF RowsInv, WorkInv
  <1>7. Unedited => work.def = definition
    BY <1>1 DEF WorkInv, At
  <1>8. \A d \in Definitions : Resumable(d, Never)'
    <2>1. state' = NoStates /\ Len(log') \in Nat /\ assigned' = Nobody
      BY <1>1, <1>3
    <2>2. /\ 1 .. Never = {}
          /\ \A d \in Definitions : \A i \in DOMAIN d.nodes : i \in 1 .. MaxNodes
      BY NodesOf DEF Never
    <2>3. \A d \in Definitions : \A i \in DOMAIN d.nodes : NodeOld(d, i, Never)'
      <3>1. \A d \in Definitions : \A i \in DOMAIN d.nodes : \A c \in Contacts : state'[i][c] = NoRow
        BY <2>1, <2>2 DEF NoStates
      <3>2. QED
        BY <2>2, <3>1 DEF NodeOld, NoRow, RowSound, RowReaches, Matching
    <2>4. \A d \in Definitions : Grounded(d)'
      BY <2>1 DEF Grounded, Nobody
    <2>5. QED
      BY <2>3, <2>4 DEF Resumable
  <1>9. Unedited' => Unedited
    BY <1>3 DEF Unedited, row, budgets
  <1>10. Unedited' /\ ~HasTimeWindows(definition) =>
           \A d, f : d = definition /\ f = last => Resumable(d, f)'
    BY <1>1, <1>5, <1>7, <1>8, <1>9 DEF Windowed
  <1>11. ~Windowed => \A d, f : d = work.def /\ f = work.last => Resumable(d, f)'
    BY <1>1, <1>5, <1>8
  <1>12. Windowed => \A i \in DOMAIN work.def.nodes : state'[i] = [c \in Contacts |-> NoRow]
    <2>1. \A i \in DOMAIN work.def.nodes : i \in 1 .. MaxNodes
      BY <1>1, NodesOf
    <2>2. QED
      BY <1>3, <2>1 DEF NoStates
  <1>13. \A i \in DOMAIN work.def.nodes : ~(i < 1)
    BY <1>1, NodesOf
  <1>14. work.now # Never => work.now = Len(log)
    BY <1>4 DEF RowsInv
  <1>15. CASE Windowed
    BY <1>2, <1>3, <1>6, <1>10, <1>12, <1>13, <1>14, <1>15
       DEF RowsInv, At, Windowed, row, Scanning, Begun
  <1>16. CASE ~Windowed
    BY <1>2, <1>3, <1>5, <1>10, <1>11, <1>14, <1>16
       DEF RowsInv, At, Windowed, row, Scanning, Begun
  <1>17. QED
    BY <1>15, <1>16

LEMMA RowsPrepare ==
    ASSUME SegmentTypeOK, WorkInv, RowsInv, Prepare, Unforgotten'  PROVE RowsInv'
  <1>1. At("prepare") /\ work \in Works /\ Len(log) \in Nat /\ Len(log) # Never
    BY TypeParts DEF Prepare, WorkInv, Never
  <1>2. /\ work'.def = work.def /\ work'.last = work.last /\ work'.node = 1
        /\ work'.now = Len(log) /\ work'.pc = IF Windowed THEN "clean" ELSE "scan"
    BY <1>1 DEF Prepare, Goes, Works
  <1>3. /\ UNCHANGED <<log, row, state, assigned, resolved, cached, scan, listeners, edits>>
        /\ excuses \subseteq excuses'
    BY DEF Prepare
  <1>4. Unforgotten
    BY <1>3 DEF Unforgotten
  <1>5. \A d, f : Resumable(d, f) => Resumable(d, f)'
    BY <1>3, ResumableKept
  <1>6. Unedited' /\ ~HasTimeWindows(definition) =>
           \A d, f : d = definition /\ f = last => Resumable(d, f)'
    BY <1>3, <1>4, <1>5 DEF RowsInv, Unedited, row
  <1>7. ~Windowed => \A d, f : d = work.def /\ f = work.last => Resumable(d, f)'
    BY <1>1, <1>4, <1>5 DEF RowsInv, At, Begun
  <1>8. \A i \in DOMAIN work.def.nodes : ~(i < 1)
    BY <1>1, NodesOf DEF Works
  <1>9. QED
    BY <1>1, <1>2, <1>3, <1>6, <1>7, <1>8 DEF RowsInv, At, Windowed, row, Scanning, Begun

LEMMA RowsScan ==
    ASSUME SegmentTypeOK, WorkInv, RowsInv, Scan, Unforgotten'  PROVE RowsInv'
  <1>1. /\ At("scan") /\ work \in Works /\ work.node \in DOMAIN work.def.nodes
        /\ work.def \in Definitions
    BY DEF Scan, WorkInv, Works
  <1>2. /\ work'.def = work.def /\ work'.last = work.last /\ work'.node = work.node + 1
        /\ work'.now = work.now
        /\ work'.pc = IF work.node = Len(work.def.nodes) THEN "assign" ELSE "scan"
    BY <1>1 DEF Scan, Goes, Works
  <1>3. UNCHANGED <<log, row, assigned, resolved, upto, by, listeners, excuses, budgets>>
    BY DEF Scan
  <1>4. Unforgotten
    BY <1>3 DEF Unforgotten
  <1>5. \A d, k : d = work.def /\ k = work.node => NodeExact(d, k)'
    BY <1>4, ScanExact
  <1>6. \A i \in 1 .. MaxNodes : i # work.node => window'[i] = window[i] /\ state'[i] = state[i]
    BY <1>1, ScanRows
  <1>7. \A d, i : i \in 1 .. MaxNodes /\ i # work.node /\ NodeExact(d, i) => NodeExact(d, i)'
    BY <1>3, <1>6 DEF NodeExact, RowSound, RowReaches, Readable, Matching, Gone, Heeded
  <1>8. \A d, i, f : i \in 1 .. MaxNodes /\ i # work.node /\ NodeOld(d, i, f) => NodeOld(d, i, f)'
    BY <1>3, <1>6 DEF NodeOld, RowSound, RowReaches, Matching, Gone, Heeded
  <1>9. /\ \A i \in DOMAIN work.def.nodes : i \in 1 .. MaxNodes /\ i \in Nat
        /\ DOMAIN work.def.nodes = 1 .. Len(work.def.nodes) /\ Len(work.def.nodes) \in Nat
    BY <1>1, NodesOf
  <1>10. /\ \A i \in DOMAIN work.def.nodes :
              /\ i < work.node => NodeExact(work.def, i)
              /\ i >= work.node /\ Windowed => state[i] = [c \in Contacts |-> NoRow]
         /\ ~Windowed => Resumable(work.def, work.last)
         /\ work.now = Len(log) /\ work.now # Never
         /\ Windowed => upto = Never /\ assigned = Nobody
    BY <1>1, <1>4 DEF RowsInv, At, Scanning, Begun
  <1>11. \A d : d = work.def => \A i \in DOMAIN d.nodes : i < work.node + 1 => NodeExact(d, i)'
    <2>1. SUFFICES ASSUME NEW d, d = work.def, NEW i \in DOMAIN d.nodes, i < work.node + 1
                   PROVE  NodeExact(d, i)'
      OBVIOUS
    <2>2. CASE i = work.node
      BY <1>5, <2>1, <2>2
    <2>3. CASE i # work.node
      <3>1. i < work.node
        BY <1>1, <1>9, <2>1, <2>3
      <3>2. QED
        BY <1>7, <1>9, <1>10, <2>1, <2>3, <3>1
    <2>4. QED
      BY <2>2, <2>3
  <1>12. \A i \in DOMAIN work.def.nodes :
           i >= work.node + 1 /\ Windowed => state'[i] = [c \in Contacts |-> NoRow]
    <2>1. SUFFICES ASSUME NEW i \in DOMAIN work.def.nodes, i >= work.node + 1, Windowed
                   PROVE  state'[i] = [c \in Contacts |-> NoRow]
      OBVIOUS
    <2>2. i >= work.node /\ i # work.node
      BY <1>1, <1>9, <2>1
    <2>3. QED
      BY <1>6, <1>9, <1>10, <2>1, <2>2
  <1>13. ~Windowed => \A d, f : d = work.def /\ f = work.last => Resumable(d, f)'
    <2>1. SUFFICES ASSUME ~Windowed, NEW d, NEW f, d = work.def, f = work.last
                   PROVE  Resumable(d, f)'
      OBVIOUS
    <2>2. Resumable(d, f)
      BY <1>10, <2>1
    <2>3. Grounded(d)'
      BY <1>3, <2>2, GroundedKept DEF Resumable
    <2>4. ASSUME NEW i \in DOMAIN d.nodes  PROVE NodeOld(d, i, f)'
      <3>1. CASE i # work.node
        BY <1>8, <1>9, <2>1, <2>2, <3>1 DEF Resumable
      <3>2. CASE i = work.node
        <4>1. NodeExact(d, i)'
          BY <1>5, <2>1, <3>2
        <4>2. d.nodes[i] # "recent"
          BY <2>1 DEF Windowed, HasTimeWindows
        <4>3. Readable(d, i)' = DOMAIN log'
          BY <4>2 DEF Readable
        <4>4. f \in Times /\ DOMAIN log = 1 .. Len(log) /\ Len(log) \in Nat
          BY <1>1, <2>1, TypeParts DEF Works
        <4>5. 1 .. f \subseteq DOMAIN log'
          BY <1>3, <4>4 DEF Times, Never
        <4>6. \A c : Matching(d.nodes[i], c, 1 .. f)' \subseteq Matching(d.nodes[i], c, DOMAIN log)'
          BY <4>5 DEF Matching
        <4>7. QED
          BY <4>1, <4>3, <4>6 DEF NodeExact, NodeOld, RowReaches
      <3>3. QED
        BY <3>1, <3>2
    <2>5. QED
      BY <2>3, <2>4 DEF Resumable
  <1>14. Unedited' /\ ~HasTimeWindows(definition) =>
           \A d, f : d = definition /\ f = last => Resumable(d, f)'
    <2>1. Unedited' => work.def = definition /\ work.last = last
      BY <1>1, <1>3 DEF WorkInv, Unedited, row, budgets, At
    <2>2. QED
      BY <1>13, <2>1 DEF Windowed
  <1>15. work'.pc = "assign" => \A d : d = work.def => \A i \in DOMAIN d.nodes : NodeExact(d, i)'
    <2>1. work'.pc = "assign" => \A i \in DOMAIN work.def.nodes : i < work.node + 1
      BY <1>2, <1>9
    <2>2. QED
      BY <1>11, <2>1
  <1>16. Windowed' <=> Windowed
    BY <1>2 DEF Windowed
  <1>17. /\ log' = log /\ definition' = definition /\ last' = last /\ upto' = upto /\ assigned' = assigned
         /\ work'.pc \in {"scan", "assign"}
    BY <1>2, <1>3 DEF row
  <1>18. QED
    BY <1>2, <1>10, <1>11, <1>12, <1>13, <1>14, <1>15, <1>16, <1>17
       DEF RowsInv, At, Scanning, Begun

LEMMA RowsAssign ==
    ASSUME SegmentTypeOK, WorkInv, RowsInv, Assign, Unforgotten'  PROVE RowsInv'
  <1> DEFINE def == work.def
             rows(c) == [i \in DOMAIN def.nodes |-> state[i][c]]
  <1>1. At("assign") /\ work \in Works /\ def \in Definitions
    BY DEF Assign, WorkInv, Works
  <1>2. /\ work'.def = work.def /\ work'.last = work.last /\ work'.now = work.now
        /\ work'.pc = "announce"
    BY <1>1 DEF Assign, GoesTo, Goes, Works
  <1>3. /\ UNCHANGED <<log, row, state, resolved, cached, window, listeners, excuses, budgets>>
        /\ assigned' = [c \in Contacts |->
                          IF ~IsAssigned(def, rows(c)) THEN assigned[c]
                          ELSE IF Assignment(def, rows(c)) THEN "in" ELSE "out"]
    BY DEF Assign
  <1>4. Unforgotten
    BY <1>3 DEF Unforgotten
  <1>5. /\ \A i \in DOMAIN def.nodes : NodeExact(def, i)
        /\ ~Windowed => Resumable(def, work.last)
        /\ Windowed => assigned = Nobody
        /\ work.now = Len(log) /\ work.now # Never
    BY <1>1, <1>4 DEF RowsInv, At, Scanning, Begun
  <1>6. ASSUME NEW c \in Contacts \ Gone, assigned'[c] = "in"
        PROVE  \E i \in DOMAIN def.nodes :
                 def.nodes[i] # "bucket" /\ Matching(def.nodes[i], c, DOMAIN log) # {}
    <2>1. CASE IsAssigned(def, rows(c))
      <3>1. PICK i \in DOMAIN def.nodes : def.nodes[i] # "bucket" /\ state[i][c].at > 0
        BY <2>1 DEF IsAssigned
      <3>2. RowSound(def.nodes[i], state[i][c], c) /\ state[i][c].at # 0
        BY <1>5, <3>1 DEF NodeExact
      <3>3. state[i][c].at \in Matching(def.nodes[i], c, DOMAIN log)
        BY <3>2 DEF RowSound
      <3>4. QED
        BY <3>1, <3>3
    <2>2. CASE ~IsAssigned(def, rows(c))
      <3>1. assigned[c] = "in"
        BY <1>3, <1>6, <2>2
      <3>2. ~Windowed
        BY <1>5, <3>1 DEF Nobody
      <3>3. QED
        BY <1>5, <3>1, <3>2 DEF Resumable, Grounded
    <2>3. QED
      BY <2>1, <2>2
  <1> HIDE DEF rows
  <1>7. \A d : d = def => Grounded(d)'
    BY <1>3, <1>6 DEF Grounded, Matching, Gone
  <1>8. /\ \A d, i, f : NodeOld(d, i, f) => NodeOld(d, i, f)'
        /\ \A d, i : NodeExact(d, i) => NodeExact(d, i)'
    BY <1>3, NodesKept
  <1>9. ~Windowed => \A d, f : d = def /\ f = work.last => Resumable(d, f)'
    BY <1>5, <1>7, <1>8 DEF Resumable
  <1>10. Unedited' /\ ~HasTimeWindows(definition) =>
           \A d, f : d = definition /\ f = last => Resumable(d, f)'
    <2>1. Unedited' => def = definition /\ work.last = last
      BY <1>1, <1>3 DEF WorkInv, Unedited, row, budgets, At
    <2>2. QED
      BY <1>9, <2>1 DEF Windowed
  <1>11. \A d : d = def => \A i \in DOMAIN d.nodes : NodeExact(d, i)'
    BY <1>5, <1>8
  <1>12. Windowed' <=> Windowed
    BY <1>2 DEF Windowed
  <1>13. log' = log /\ definition' = definition /\ last' = last
    BY <1>3 DEF row
  <1>14. QED
    BY <1>2, <1>5, <1>9, <1>10, <1>11, <1>12, <1>13 DEF RowsInv, At, Scanning, Begun

LEMMA RowsAnnounceSave ==
    ASSUME SegmentTypeOK, WorkInv, RowsInv, Announce \/ Save, Unforgotten'  PROVE RowsInv'
  <1>1. (At("announce") \/ At("save")) /\ work \in Works
    BY DEF Announce, Save, WorkInv
  <1>2. /\ work'.def = work.def /\ work'.last = work.last /\ work'.now = work.now
        /\ work'.pc \in {"save", "record"}
    BY <1>1 DEF Announce, Save, GoesTo, Goes, Works
  <1>3. /\ UNCHANGED <<log, row, state, assigned, cached, scan, edits>>
        /\ excuses \subseteq excuses'
    BY DEF Announce, Save, budgets, Excuse
  <1>4. Unforgotten
    BY <1>3 DEF Unforgotten
  <1>5. /\ \A d, f : Resumable(d, f) => Resumable(d, f)'
        /\ \A d, i : NodeExact(d, i) => NodeExact(d, i)'
    BY <1>3, ResumableKept, NodesKept DEF scan
  <1>6. /\ \A i \in DOMAIN work.def.nodes : NodeExact(work.def, i)
        /\ ~Windowed => Resumable(work.def, work.last)
        /\ work.now = Len(log) /\ work.now # Never
        /\ Unedited /\ ~HasTimeWindows(definition) => Resumable(definition, last)
    BY <1>1, <1>4 DEF RowsInv, At, Scanning, Begun
  <1>7. ~Windowed => \A d, f : d = work.def /\ f = work.last => Resumable(d, f)'
    BY <1>5, <1>6
  <1>8. Unedited' /\ ~HasTimeWindows(definition) =>
           \A d, f : d = definition /\ f = last => Resumable(d, f)'
    BY <1>3, <1>5, <1>6 DEF Unedited, row
  <1>9. \A d : d = work.def => \A i \in DOMAIN d.nodes : NodeExact(d, i)'
    BY <1>5, <1>6
  <1>10. Windowed' <=> Windowed
    BY <1>2 DEF Windowed
  <1>11. log' = log /\ definition' = definition /\ last' = last
    BY <1>3 DEF row
  <1>12. QED
    BY <1>2, <1>6, <1>7, <1>8, <1>9, <1>10, <1>11 DEF RowsInv, At, Scanning, Begun

LEMMA RowsRecord ==
    ASSUME SegmentTypeOK, WorkInv, RowsInv, Record, Unforgotten'  PROVE RowsInv'
  <1>1. At("record") /\ work \in Works /\ work.def \in Definitions
    BY DEF Record, WorkInv, Works
  <1>2. /\ work' = Idle /\ last' = Len(log) /\ UNCHANGED <<log, definition, state, assigned>>
        /\ excuses \subseteq excuses'
    BY DEF Record, Goes, Excuse
  <1>3. Unforgotten /\ definition = work.def
    BY DEF Record, Excuse, Unforgotten
  <1>4. /\ \A i \in DOMAIN work.def.nodes : NodeExact(work.def, i)
        /\ ~Windowed => Resumable(work.def, work.last)
    BY <1>1, <1>3 DEF RowsInv, At, Scanning, Begun
  <1>5. Len(log) \in Times
    BY TypeParts DEF Times
  <1>6. ~Windowed => Resumable(work.def, Len(log))
    BY <1>1, <1>4, <1>5, ExactIsOld DEF Resumable, Windowed
  <1>7. \A d, f : Resumable(d, f) => Resumable(d, f)'
    BY <1>2, ResumableKept
  <1>8. ~HasTimeWindows(definition) => \A d, f : d = definition /\ f = Len(log) => Resumable(d, f)'
    BY <1>3, <1>6, <1>7 DEF Windowed
  <1>9. Idle.pc = "idle" /\ Idle.now = Never
    BY IdleWork
  <1>10. QED
    BY <1>2, <1>8, <1>9 DEF RowsInv, At, Scanning, Begun

LEMMA RowsFault ==
    ASSUME SegmentTypeOK, WorkInv, RowsInv, Fail \/ ProcessDies, Unforgotten'  PROVE RowsInv'
  <1>1. work \in Works /\ work.def \in Definitions /\ definition \in Definitions /\ ~At("idle")
    BY TypeParts DEF WorkInv, Works, Fail, ProcessDies, At
  <1>2. /\ UNCHANGED <<log, row, window, by, listeners, edits>>
        /\ excuses \subseteq excuses' /\ Partly /\ work' = Idle
    BY DEF Fail, ProcessDies, Unforgotten, Goes
  <1>3. Unforgotten
    BY <1>2 DEF Unforgotten
  <1>4. Unedited /\ ~HasTimeWindows(definition) => Resumable(definition, last)
    BY <1>3 DEF RowsInv
  <1>5. Unedited /\ ~HasTimeWindows(definition) =>
          \A d, f : d = definition /\ f = last => Resumable(d, f)'
    <2>1. CASE At("clean")
      <3>1. SUFFICES ASSUME Unedited, ~HasTimeWindows(definition)
                     PROVE  \A d, f : d = definition /\ f = last => Resumable(d, f)'
        OBVIOUS
      <3>2. ~Windowed
        BY <1>1, <3>1 DEF WorkInv, Windowed
      <3>3. last = Never
        BY <1>3, <2>1, <3>2 DEF RowsInv
      <3>4. state' = NoStates /\ assigned' \in {assigned, Nobody}
        BY <1>2, <2>1 DEF Partly
      <3>5. \A d : d = definition => Grounded(d)'
        <4>1. Grounded(definition)
          BY <1>4, <3>1 DEF Resumable
        <4>2. CASE assigned' = assigned
          BY <1>2, <4>1, <4>2, GroundedKept
        <4>3. CASE assigned' = Nobody
          BY <4>3 DEF Grounded, Nobody
        <4>4. QED
          BY <3>4, <4>2, <4>3
      <3>6. \A d : d = definition => \A i \in DOMAIN d.nodes : NodeOld(d, i, Never)'
        <4>1. \A i \in DOMAIN definition.nodes : i \in 1 .. MaxNodes
          BY <1>1, NodesOf
        <4>2. 1 .. Never = {}
          BY DEF Never
        <4>3. \A i \in DOMAIN definition.nodes : \A c \in Contacts : state'[i][c] = NoRow
          BY <3>4, <4>1 DEF NoStates
        <4>4. QED
          BY <4>2, <4>3 DEF NodeOld, NoRow, RowSound, RowReaches, Matching
      <3>7. QED
        BY <3>3, <3>5, <3>6 DEF Resumable
    <2>2. CASE ~At("clean")
      <3>1. state' = state /\ assigned' = assigned
        BY <1>2, <2>2 DEF Partly
      <3>2. \A d, f : Resumable(d, f) => Resumable(d, f)'
        BY <1>2, <3>1, ResumableKept
      <3>3. QED
        BY <1>4, <3>2
    <2>3. QED
      BY <2>1, <2>2
  <1>6. Unedited' => Unedited
    BY <1>2 DEF Unedited, row
  <1>7. Idle.pc = "idle" /\ Idle.now = Never
    BY IdleWork
  <1>8. QED
    BY <1>2, <1>5, <1>6, <1>7 DEF RowsInv, At, Scanning, Begun, row

LEMMA RowsStep ==
    ASSUME SegmentTypeOK, WorkInv, RowsInv, [SegmentNext]_segmentVars  PROVE RowsInv'
  <1> SUFFICES ASSUME Unforgotten'  PROVE RowsInv'
    BY DEF RowsInv
  <1>1. CASE CacheExpires
    <2>1. /\ UNCHANGED <<log, definition, last, state, assigned, work, upto, window>>
          /\ (Unedited' => Unedited)
      BY <1>1 DEF CacheExpires, row, scan, budgets, Unedited
    <2>2. QED
      BY <2>1, RowsKept
  <1>2. CASE Edit
    <2>1. edits \in Nat
      BY TypeParts, BoundsAssumption
    <2>2. ~Unedited'
      <3>1. edits' = edits + 1 /\ edited' = (last # Never) /\ last' = last
        BY <1>2 DEF Edit
      <3>2. edits' # 0
        BY <2>1, <3>1
      <3>3. last # Never => edited'
        BY <3>1
      <3>4. QED
        BY <3>1, <3>2, <3>3 DEF Unedited
    <2>3. /\ UNCHANGED <<log, last, state, assigned, resolved, cached, work, scan,
                         listeners, excuses, mishaps>>
      BY <1>2 DEF Edit
    <2>4. Unforgotten
      BY <2>3 DEF Unforgotten
    <2>5. /\ \A d, f : Resumable(d, f) => Resumable(d, f)'
          /\ \A d, i : NodeExact(d, i) => NodeExact(d, i)'
      BY <2>3, ResumableKept, NodesKept DEF scan
    <2>6. work.pc \in Begun /\ ~Windowed => \A d, f : d = work.def /\ f = work.last => Resumable(d, f)'
      BY <2>4, <2>5 DEF RowsInv
    <2>7. /\ At("scan") => \A d, k : d = work.def /\ k = work.node =>
                \A i \in DOMAIN d.nodes : /\ i < k => NodeExact(d, i)'
                                          /\ i >= k /\ Windowed => state'[i] = [c \in Contacts |-> NoRow]
          /\ work.pc \in Scanning \ {"scan"} =>
                \A d : d = work.def => \A i \in DOMAIN d.nodes : NodeExact(d, i)'
      BY <2>3, <2>4, <2>5 DEF RowsInv
    <2>8. /\ work.now # Never => work.now = Len(log)
          /\ work.pc \in Scanning => work.now # Never
          /\ Windowed /\ work.pc \in {"scan", "assign"} => upto = Never /\ assigned = Nobody
          /\ At("clean") /\ ~Windowed => last = Never
      BY <2>4 DEF RowsInv
    <2>9. (Windowed' <=> Windowed) /\ \A x : At(x)' <=> At(x)
      BY <2>3 DEF Windowed, At
    <2>10. log' = log /\ last' = last /\ work' = work /\ upto' = upto /\ assigned' = assigned
      BY <2>3 DEF scan
    <2>11. QED
      BY <2>2, <2>6, <2>7, <2>8, <2>9, <2>10 DEF RowsInv
  <1>3. CASE UNCHANGED segmentVars
    <2>1. /\ UNCHANGED <<log, definition, last, state, assigned, work, upto, window>>
          /\ (Unedited' => Unedited)
      BY <1>3 DEF segmentVars, Unedited
    <2>2. QED
      BY <2>1, RowsKept
  <1>4. QED
    BY <1>1, <1>2, <1>3, RowsIngest, RowsBegin, RowsClean, RowsPrepare, RowsScan, RowsAssign,
       RowsAnnounceSave, RowsRecord, RowsFault DEF SegmentNext, Proceed

-------------------------------------------------------------------------------
(* The assignments.                                                          *)

\* The rows of reading everything at once are those of the scans.
LEMMA ExactRows ==
    ASSUME SegmentTypeOK, NEW def \in Definitions, NEW i \in DOMAIN def.nodes, NodeExact(def, i),
           NEW c \in Contacts \ Gone
    PROVE  LET r == Row(def.nodes[i], log, Readable(def, i), c, Gone, SetIn(log, DOMAIN log))
           IN  /\ r.at = state[i][c].at
               /\ state[i][c].at # 0 => (r.value <=> state[i][c].value)
  <1> DEFINE node == def.nodes[i]
             P == Readable(def, i)
             r == Row(node, log, P, c, Gone, SetIn(log, DOMAIN log))
             s == state[i][c]
  <1>1. log \in Seq(SegmentEvents) /\ DOMAIN log = 1 .. Len(log) /\ Len(log) \in Nat
    BY TypeParts
  <1>2. P \subseteq DOMAIN log /\ (node # "recent" => P = DOMAIN log)
    BY DEF Readable
  <1> HIDE DEF node, P
  <1>3. \/ Matching(node, c, P) = {} /\ r = NoRow
        \/ /\ r.at \in Matching(node, c, P)
           /\ \A j \in Matching(node, c, P) : j <= r.at
           /\ r.value = Value(node, log[r.at], Gone, SetIn(log, DOMAIN log))
    BY <1>1, <1>2, RowOf
  <1>4. RowSound(node, s, c) /\ s.at \in {0} \cup P /\ RowReaches(node, s, c, P)
    BY DEF NodeExact, node, P
  <1>5. s.at \in Nat
    BY <1>1, <1>2, <1>4
  <1>6. s.at # 0 => s.at \in Matching(node, c, P)
    BY <1>4 DEF RowSound, Matching
  <1> HIDE DEF r, s
  <1>7. CASE Matching(node, c, P) = {} /\ r = NoRow
    BY <1>6, <1>7 DEF NoRow, r, s, P, node
  <1>8. CASE /\ r.at \in Matching(node, c, P)
             /\ \A j \in Matching(node, c, P) : j <= r.at
             /\ r.value = Value(node, log[r.at], Gone, SetIn(log, DOMAIN log))
    <2>1. r.at \in Nat \ {0} /\ r.at \in DOMAIN log /\ log[r.at].contact = c
      BY <1>1, <1>8 DEF Matching
    <2>2. r.at <= s.at
      BY <1>4, <1>8 DEF RowReaches
    <2>3. s.at # 0
      BY <1>5, <2>1, <2>2
    <2>4. s.at <= r.at
      BY <1>6, <1>8, <2>3
    <2>5. s.at = r.at
      BY <1>5, <2>1, <2>2, <2>4
    <2>6. s.value <=> Value(node, log[r.at], {}, SetIn(log, 1 .. r.at))
      BY <1>4, <2>3, <2>5 DEF RowSound
    <2>7. node = "has_not" => (c \in SetIn(log, DOMAIN log) <=> c \in SetIn(log, 1 .. r.at))
      <3>1. SUFFICES ASSUME node = "has_not"
                     PROVE  c \in SetIn(log, DOMAIN log) <=> c \in SetIn(log, 1 .. r.at)
        OBVIOUS
      <3>2. ASSUME NEW j \in DOMAIN log, log[j].contact = c  PROVE j <= r.at
        <4>1. j \in Matching(node, c, P)
          BY <1>2, <3>1, <3>2 DEF Matching, Matches
        <4>2. QED
          BY <1>8, <4>1
      <3>3. 1 .. r.at \subseteq DOMAIN log
        BY <1>1, <2>1
      <3>4. QED
        BY <1>1, <2>1, <3>2, <3>3, SetSettled
    <2>8. Value(node, log[r.at], {}, SetIn(log, DOMAIN log))
            <=> Value(node, log[r.at], {}, SetIn(log, 1 .. r.at))
      BY <2>1, <2>7, ValueOfSet
    <2>9. Value(node, log[r.at], Gone, SetIn(log, DOMAIN log))
            <=> Value(node, log[r.at], {}, SetIn(log, DOMAIN log))
      BY <2>1, ValueOf
    <2>10. r.value <=> s.value
      BY <1>8, <2>6, <2>8, <2>9, Zenon
    <2>11. QED
      BY <2>5, <2>10 DEF r, s, P, node
  <1>9. QED
    BY <1>3, <1>7, <1>8

\* Contacts without a row are assigned nothing, and are not meant.
LEMMA AssignedRight ==
    ASSUME SegmentTypeOK, WorkInv, RowsInv, Unforgotten, Assign, NEW c \in Contacts \ Gone
    PROVE  assigned'[c] = "in" <=> Meaning(work.def, log, DOMAIN log, window, c)
  <1> DEFINE def == work.def
             rows == [i \in DOMAIN def.nodes |-> state[i][c]]
             all == [i \in DOMAIN def.nodes |->
                       Row(def.nodes[i], log,
                           IF def.nodes[i] = "recent" THEN DOMAIN log \ 1 .. window[i] ELSE DOMAIN log,
                           c, DeletedIn(log, DOMAIN log), SetIn(log, DOMAIN log))]
  <1>1. At("assign") /\ work \in Works /\ def \in Definitions
    BY DEF Assign, WorkInv, Works
  <1>2. /\ \A i \in DOMAIN def.nodes : NodeExact(def, i)
        /\ ~Windowed => Resumable(def, work.last)
        /\ Windowed => assigned = Nobody
    BY <1>1 DEF RowsInv, At, Scanning, Begun
  <1>3. assigned'[c] = IF ~IsAssigned(def, rows) THEN assigned[c]
                       ELSE IF Assignment(def, rows) THEN "in" ELSE "out"
    BY DEF Assign
  <1>4. \A i \in DOMAIN def.nodes : /\ all[i].at = rows[i].at
                                    /\ rows[i].at # 0 => (all[i].value <=> rows[i].value)
    <2>1. ASSUME NEW i \in DOMAIN def.nodes
          PROVE  /\ all[i].at = state[i][c].at
                 /\ state[i][c].at # 0 => (all[i].value <=> state[i][c].value)
      <3>1. all[i] = Row(def.nodes[i], log, Readable(def, i), c, Gone, SetIn(log, DOMAIN log))
        BY DEF Readable, Gone
      <3>2. QED
        BY <1>1, <1>2, <3>1, ExactRows
    <2>2. QED
      BY <2>1
  <1>5. Meaning(def, log, DOMAIN log, window, c) <=> Assignment(def, all)
    BY DEF Meaning
  <1>6. \A i \in DOMAIN def.nodes : rows[i].at \in Nat
    <2>1. \A i \in DOMAIN def.nodes : i \in 1 .. MaxNodes
      BY <1>1, NodesOf
    <2>2. QED
      BY <2>1, TypeParts DEF Rows
  <1>7. 1 \in DOMAIN def.nodes
    BY <1>1, NodesOf
  <1>8. CASE IsAssigned(def, rows)
    <2> HIDE DEF all, rows
    <2>1. Assignment(def, rows) <=> Assignment(def, all)
      BY <1>4, <1>6 DEF Assignment
    <2>2. QED
      BY <1>3, <1>5, <1>8, <2>1
  <1>9. CASE ~IsAssigned(def, rows)
    <2>1. \A i \in DOMAIN def.nodes : def.nodes[i] = "bucket" \/ rows[i].at = 0
      BY <1>6, <1>9 DEF IsAssigned
    <2>2. ~Assignment(def, all)
      <3> HIDE DEF all, rows
      <3>1. QED
        BY <1>4, <1>7, <2>1 DEF Assignment
    <2>3. assigned[c] # "in"
      <3>1. SUFFICES ASSUME assigned[c] = "in"  PROVE FALSE
        OBVIOUS
      <3>2. ~Windowed
        BY <1>2, <3>1 DEF Nobody
      <3>3. PICK i \in DOMAIN def.nodes :
              def.nodes[i] # "bucket" /\ Matching(def.nodes[i], c, DOMAIN log) # {}
        BY <1>2, <3>1, <3>2 DEF Resumable, Grounded
      <3>4. Readable(def, i) = DOMAIN log
        BY <3>2 DEF Readable, Windowed, HasTimeWindows
      <3>5. PICK j \in Matching(def.nodes[i], c, DOMAIN log) : TRUE
        BY <3>3
      <3>6. j <= rows[i].at
        BY <1>2, <3>4 DEF NodeExact, RowReaches
      <3>7. j \in Nat \ {0}
        BY TypeParts DEF Matching
      <3>8. QED
        BY <2>1, <3>3, <3>6, <3>7
    <2>4. QED
      BY <1>3, <1>5, <1>9, <2>2, <2>3
  <1>10. QED
    BY <1>8, <1>9

\* A contact that is gone is not assigned to a segment among all contacts.
LEMMA DeletedOut ==
    ASSUME SegmentTypeOK, WorkInv, RowsInv, Unforgotten, Heeded, Assign, SelectsAmongAll(work.def),
           NEW c \in Gone
    PROVE  assigned'[c] # "in"
  <1> DEFINE def == work.def
             rows == [i \in DOMAIN def.nodes |-> state[i][c]]
  <1>1. At("assign") /\ work \in Works /\ def \in Definitions /\ c \in Contacts
    BY GoneType DEF Assign, WorkInv, Works
  <1>2. /\ \A i \in DOMAIN def.nodes : NodeExact(def, i)
        /\ Windowed => assigned = Nobody
    BY <1>1 DEF RowsInv, At, Scanning, Begun
  <1>3. assigned'[c] = IF ~IsAssigned(def, rows) THEN assigned[c]
                       ELSE IF Assignment(def, rows) THEN "in" ELSE "out"
    BY <1>1 DEF Assign
  <1>4. 1 \in DOMAIN def.nodes
    BY <1>1, NodesOf
  <1>5. CASE Windowed /\ \A i \in DOMAIN def.nodes : def.nodes[i] # "counted"
    <2>1. \A i \in DOMAIN def.nodes : def.nodes[i] = "bucket" \/ ~rows[i].value
      BY <1>1, <1>2, <1>5 DEF NodeExact, Forgets, Windowed
    <2>2. ~Assignment(def, rows)
      <3> HIDE DEF rows
      <3>1. QED
        BY <1>4, <2>1 DEF Assignment
    <2>3. assigned[c] # "in"
      BY <1>1, <1>2, <1>5 DEF Nobody
    <2>4. QED
      BY <1>3, <2>2, <2>3
  <1>6. CASE \A i \in DOMAIN def.nodes : def.nodes[i] \in {"everyone", "has_not"}
    <2>1. PICK j \in DOMAIN log : log[j].kind = "deleted" /\ log[j].contact = c
      BY DEF Gone, DeletedIn
    <2>2. j \in Nat \ {0}
      BY TypeParts
    <2>3. ASSUME NEW i \in DOMAIN def.nodes
          PROVE  state[i][c].at > 0 /\ ~state[i][c].value /\ def.nodes[i] # "bucket"
      <3>1. Readable(def, i) = DOMAIN log /\ Forgets(def.nodes[i]) /\ Matches(def.nodes[i], log[j].kind)
        BY <1>6 DEF Readable, Forgets, Matches
      <3>2. j \in Matching(def.nodes[i], c, DOMAIN log)
        BY <2>1, <3>1 DEF Matching
      <3>3. j <= state[i][c].at /\ RowSound(def.nodes[i], state[i][c], c)
        BY <1>1, <1>2, <3>1, <3>2 DEF NodeExact, RowReaches
      <3>4. state[i][c].at \in Nat
        <4>1. i \in 1 .. MaxNodes
          BY <1>1, NodesOf
        <4>2. QED
          BY <1>1, <4>1, TypeParts DEF Rows
      <3>5. state[i][c].at # 0 /\ j \in 1 .. state[i][c].at
        BY <2>2, <3>3, <3>4
      <3>6. ~state[i][c].value
        BY <2>1, <3>1, <3>3, <3>5 DEF RowSound
      <3>7. QED
        BY <1>6, <3>4, <3>5, <3>6
    <2>4. IsAssigned(def, rows)
      BY <1>4, <2>3 DEF IsAssigned
    <2>5. ~Assignment(def, rows)
      <3>1. \A i \in DOMAIN def.nodes : ~rows[i].value
        BY <2>3
      <3> HIDE DEF rows
      <3>2. QED
        BY <1>4, <3>1 DEF Assignment
    <2>6. QED
      BY <1>3, <2>4, <2>5
  <1>7. QED
    BY <1>5, <1>6 DEF SelectsAmongAll, Windowed

\* Events stored later leave the meaning of those before them.
LEMMA MeaningGrows ==
    ASSUME log \in Seq(SegmentEvents), NEW e \in SegmentEvents, log' = Append(log, e),
           NEW def, NEW n \in Times, NEW left, NEW c
    PROVE  /\ Meaning(def, log', 1 .. n, left, c) = Meaning(def, log, 1 .. n, left, c)
           /\ DeletedIn(log', 1 .. n) = DeletedIn(log, 1 .. n)
  <1>1. /\ DOMAIN log = 1 .. Len(log) /\ Len(log) \in Nat
        /\ \A i \in DOMAIN log : log'[i] = log[i]
    BY LogGrows
  <1>2. 1 .. n \subseteq DOMAIN log
    BY <1>1 DEF Times, Never
  <1>3. DeletedIn(log', 1 .. n) = DeletedIn(log, 1 .. n) /\ SetIn(log', 1 .. n) = SetIn(log, 1 .. n)
    BY <1>2, GrownFacts
  <1>4. ASSUME NEW node, NEW P, P \subseteq 1 .. n, NEW D, NEW S
        PROVE  Row(node, log', P, c, D, S) = Row(node, log, P, c, D, S)
    <2> DEFINE found == {i \in P : log[i].contact = c /\ Matches(node, log[i].kind)}
               latest == CHOOSE i \in found : \A j \in found : j <= i
    <2>1. found = {i \in P : log'[i].contact = c /\ Matches(node, log'[i].kind)}
      BY <1>1, <1>2, <1>4
    <2>2. CASE found = {}
      BY <2>1, <2>2 DEF Row
    <2>3. CASE found # {}
      <3>1. \E i \in found : \A j \in found : j <= i
        BY <1>1, <1>2, <1>4, <2>3, LatestPosition
      <3>2. latest \in found
        BY <3>1
      <3>3. log'[latest] = log[latest]
        BY <1>1, <1>2, <1>4, <3>2
      <3>4. Row(node, log', P, c, D, S) = [at |-> latest, value |-> Value(node, log'[latest], D, S)]
        BY <2>1, <2>3 DEF Row
      <3>5. Row(node, log, P, c, D, S) = [at |-> latest, value |-> Value(node, log[latest], D, S)]
        BY <2>3 DEF Row
      <3>6. QED
        BY <3>3, <3>4, <3>5
    <2>4. QED
      BY <2>2, <2>3
  <1>5. Meaning(def, log', 1 .. n, left, c) = Meaning(def, log, 1 .. n, left, c)
    <2> DEFINE P(i) == IF def.nodes[i] = "recent" THEN 1 .. n \ 1 .. left[i] ELSE 1 .. n
               D == DeletedIn(log, 1 .. n)
               S == SetIn(log, 1 .. n)
               then == [i \in DOMAIN def.nodes |-> Row(def.nodes[i], log, P(i), c, D, S)]
               now == [i \in DOMAIN def.nodes |-> Row(def.nodes[i], log', P(i), c, D, S)]
    <2>1. now = then
      <3>1. \A i : P(i) \subseteq 1 .. n
        OBVIOUS
      <3> HIDE DEF P
      <3>2. \A i : Row(def.nodes[i], log', P(i), c, D, S) = Row(def.nodes[i], log, P(i), c, D, S)
        BY <1>4, <3>1
      <3> HIDE DEF D, S
      <3>3. QED
        BY <3>2
    <2> HIDE DEF D, S
    <2>2. Meaning(def, log, 1 .. n, left, c) = Assignment(def, then)
      BY DEF Meaning, D, S
    <2>3. Meaning(def, log', 1 .. n, left, c) = Assignment(def, now)
      BY <1>3 DEF Meaning, D, S
    <2> HIDE DEF then, now
    <2>4. QED
      BY <2>1, <2>2, <2>3
  <1>6. QED
    BY <1>3, <1>5

LEMMA ExactStep ==
    ASSUME SegmentTypeOK, WorkInv, RowsInv, IncrementalIsExact, DeletedLeave, [SegmentNext]_segmentVars
    PROVE  IncrementalIsExact' /\ DeletedLeave'
  <1> SUFFICES ASSUME upto' # Never, Unforgotten'
               PROVE  /\ \A c \in Contacts \ Gone' :
                           assigned'[c] = "in" <=> Meaning(by', log', Read', window', c)
                      /\ SelectsAmongAll(by') /\ Heeded' =>
                           \A c \in DeletedIn(log', Read') : assigned'[c] # "in"
    BY DEF IncrementalIsExact, DeletedLeave, Excused, Unforgotten, Heeded
  <1>1. excuses \subseteq excuses' /\ Unforgotten /\ (Heeded' => Heeded)
    BY ExcusesGrow DEF Unforgotten, Heeded
  <1>2. upto # Never =>
          /\ \A c \in Contacts \ Gone : assigned[c] = "in" <=> Meaning(by, log, Read, window, c)
          /\ SelectsAmongAll(by) /\ Heeded => \A c \in DeletedIn(log, Read) : assigned[c] # "in"
    BY <1>1 DEF IncrementalIsExact, DeletedLeave, Excused, Unforgotten, Heeded
  <1>3. CASE UNCHANGED <<log, assigned, upto, window, by>>
    BY <1>1, <1>2, <1>3 DEF Read, Gone
  <1>4. CASE Ingest
    <2>1. PICK e \in SegmentEvents : log' = Append(log, e)
      BY <1>4 DEF Ingest
    <2>2. UNCHANGED <<assigned, upto, window, by>>
      BY <1>4 DEF Ingest, scan
    <2>3. Gone \subseteq Gone' /\ upto \in Times /\ log \in Seq(SegmentEvents)
      BY <2>1, TypeParts, GrownFacts
    <2>4. \A c : Meaning(by, log', Read, window, c) = Meaning(by, log, Read, window, c)
      BY <2>1, <2>3, MeaningGrows DEF Read
    <2>5. DeletedIn(log', Read) = DeletedIn(log, Read)
      BY <2>1, <2>3, MeaningGrows DEF Read
    <2>6. Read' = Read
      BY <2>2 DEF Read
    <2>7. QED
      BY <1>1, <1>2, <2>2, <2>3, <2>4, <2>5, <2>6
  <1>5. CASE Assign
    <2>1. UNCHANGED <<log, window, excuses>> /\ upto' = work.now /\ by' = work.def /\ At("assign")
      BY <1>5 DEF Assign
    <2>2. work.now = Len(log)
      BY <1>1, <2>1 DEF RowsInv, At, Scanning
    <2>3. Read' = DOMAIN log
      BY <2>1, <2>2, TypeParts DEF Read
    <2>4. \A c \in Contacts \ Gone :
            assigned'[c] = "in" <=> Meaning(work.def, log, DOMAIN log, window, c)
      BY <1>1, <1>5, AssignedRight
    <2>5. SelectsAmongAll(work.def) /\ Heeded => \A c \in Gone : assigned'[c] # "in"
      BY <1>1, <1>5, DeletedOut
    <2>6. QED
      BY <1>1, <2>1, <2>3, <2>4, <2>5 DEF Gone
  <1>6. CASE Scan
    <2>1. UNCHANGED <<log, assigned, upto, by>> /\ At("scan")
      BY <1>6 DEF Scan
    <2>2. work \in Works /\ work.node \in DOMAIN work.def.nodes
      BY <2>1 DEF WorkInv
    <2>3. work.def.nodes[work.node] # "recent" => window' = window
      BY <1>6, <2>1, <2>2, ScanRows
    <2>4. work.def.nodes[work.node] = "recent" => upto = Never
      BY <1>1, <2>1, <2>2 DEF RowsInv, Windowed, HasTimeWindows, At
    <2>5. UNCHANGED <<log, assigned, upto, window, by>>
      BY <2>1, <2>3, <2>4
    <2>6. QED
      BY <1>3, <2>5
  <1>7. CASE Clean
    BY <1>7 DEF Clean
  <1>8. CASE Fail \/ ProcessDies
    <2>1. ~At("clean")
      BY <1>8 DEF Fail, ProcessDies, Partly
    <2>2. UNCHANGED <<log, assigned, upto, window, by>>
      BY <1>8, <2>1 DEF Fail, ProcessDies, Partly
    <2>3. QED
      BY <1>3, <2>2
  <1>9. QED
    BY <1>3, <1>4, <1>5, <1>6, <1>7, <1>8
       DEF SegmentNext, CacheExpires, Edit, Begin, Proceed, Prepare, Announce, Save, Record, segmentVars, scan

-------------------------------------------------------------------------------
(* What listeners know.                                                      *)

Quiet == "unannounced" \notin excuses

LEMMA ToldStep ==
    ASSUME SegmentTypeOK, WorkInv, ToldInv, [SegmentNext]_segmentVars  PROVE ToldInv'
  <1> SUFFICES ASSUME Quiet'
               PROVE  /\ ~repeated'
                      /\ \A c \in Contacts : assigned'[c] = "none" => resolved'[c] = "none"
                      /\ work'.pc \in {"idle", "clean", "prepare", "record"} => Agree(told', resolved')
                      /\ work'.pc \in {"scan", "assign", "announce"} =>
                           IF Windowed' THEN Agree(told', work'.before) /\ resolved' = Nobody
                                        ELSE Agree(told', resolved')
                      /\ work'.pc = "clean" /\ Windowed' => work'.before = resolved'
                      /\ work'.pc = "save" => Agree(told', assigned')
    BY DEF ToldInv, Excused, Quiet, At, Agree, Differs
  <1>1. excuses \subseteq excuses' /\ Quiet
    BY ExcusesGrow DEF Quiet
  <1>2. /\ ~repeated
        /\ \A c \in Contacts : assigned[c] = "none" => resolved[c] = "none"
        /\ work.pc \in {"idle", "clean", "prepare", "record"} => Agree(told, resolved)
        /\ work.pc \in {"scan", "assign", "announce"} =>
             IF Windowed THEN Agree(told, work.before) /\ resolved = Nobody
                         ELSE Agree(told, resolved)
        /\ work.pc = "clean" /\ Windowed => work.before = resolved
        /\ work.pc = "save" => Agree(told, assigned)
    BY <1>1 DEF ToldInv, Excused, Quiet, At
  <1>3. work \in Works /\ Idle.pc = "idle"
    BY IdleWork DEF WorkInv
  <1>4. CASE UNCHANGED <<assigned, resolved, told, repeated, work>>
    BY <1>2, <1>4 DEF Windowed
  <1>5. CASE Begin
    <2>1. UNCHANGED <<assigned, resolved, told, repeated>> /\ work.pc = "idle"
      BY <1>5 DEF Begin, listeners, At
    <2>2. /\ work'.pc \in {"clean", "prepare"}
          /\ work'.pc = "clean" => ~HasTimeWindows(work'.def)
      BY <1>5 DEF Begin, Goes, Idle
    <2>3. QED
      BY <1>2, <2>1, <2>2 DEF Windowed
  <1>6. CASE Prepare
    <2>1. UNCHANGED <<assigned, resolved, told, repeated>> /\ work.pc = "prepare"
      BY <1>6 DEF Prepare, listeners, At
    <2>2. work' = [work EXCEPT !.now = Len(log), !.node = 1,
                               !.pc = IF Windowed THEN "clean" ELSE "scan",
                               !.before = IF Windowed THEN resolved ELSE Nobody]
      BY <1>6 DEF Prepare, Goes, Quiet
    <2>3. /\ work'.def = work.def /\ work'.pc = IF Windowed THEN "clean" ELSE "scan"
          /\ Windowed => work'.before = resolved
      BY <1>3, <2>2 DEF Works
    <2>4. QED
      BY <1>2, <2>1, <2>3 DEF Windowed
  <1>7. CASE Clean
    <2>1. /\ UNCHANGED <<told, repeated>> /\ work.pc = "clean"
          /\ assigned' = Nobody /\ resolved' = Nobody
      BY <1>7 DEF Clean, listeners, At
    <2>2. /\ work'.def = work.def /\ work'.before = work.before
          /\ work'.pc = IF Windowed THEN "scan" ELSE "prepare"
      BY <1>3, <1>7 DEF Clean, GoesTo, Goes, Works
    <2>3. ~Windowed => resolved = Nobody
      BY <1>7 DEF Clean, Excuse, Quiet
    <2>4. \A c \in Contacts : resolved'[c] = "none"
      BY <2>1 DEF Nobody
    <2>5. QED
      BY <1>2, <2>1, <2>2, <2>3, <2>4 DEF Windowed
  <1>8. CASE Scan
    <2>1. UNCHANGED <<assigned, resolved, told, repeated>> /\ work.pc = "scan"
      BY <1>8 DEF Scan, listeners, At
    <2>2. /\ work'.def = work.def /\ work'.before = work.before
          /\ work'.pc \in {"scan", "assign"}
      BY <1>3, <1>8 DEF Scan, Goes, Works
    <2>3. QED
      BY <1>2, <2>1, <2>2 DEF Windowed
  <1>9. CASE Assign
    <2>1. UNCHANGED <<resolved, told, repeated>> /\ work.pc = "assign"
      BY <1>9 DEF Assign, listeners, At
    <2>2. work'.def = work.def /\ work'.before = work.before /\ work'.pc = "announce"
      BY <1>3, <1>9 DEF Assign, GoesTo, Goes, Works
    <2>3. \A c \in Contacts : assigned'[c] = "none" => assigned[c] = "none"
      BY <1>9 DEF Assign
    <2>4. QED
      BY <1>2, <2>1, <2>2, <2>3 DEF Windowed
  <1>10. CASE Announce
    <2> DEFINE before == IF Windowed THEN work.before ELSE resolved
    <2>1. UNCHANGED <<assigned, resolved>> /\ work.pc = "announce"
      BY <1>10 DEF Announce, At
    <2>2. work'.pc = "save"
      BY <1>3, <1>10 DEF Announce, GoesTo, Goes, Works
    <2>3. Agree(told, before)
      BY <1>2, <2>1
    <2>4. IF before = Nobody THEN Find(assigned) ELSE Tell(before, assigned)
      BY <1>10 DEF Announce, Quiet
    <2>5. Agree(told', assigned) /\ repeated' = repeated
      <3>1. CASE before = Nobody
        BY <2>4, <3>1 DEF Find, Agree, Differs
      <3>2. CASE before # Nobody
        <4> DEFINE changed == Differs(before, assigned)
                   news(c) == IF assigned[c] = "in" THEN "in" ELSE "out"
        <4>1. /\ told' = [c \in Contacts |-> IF c \in changed THEN news(c) ELSE told[c]]
              /\ repeated' = (repeated \/ \E c \in changed : told[c] = news(c))
          BY <2>4, <3>2 DEF Tell
        <4>2. \A c \in Contacts : told[c] = "in" <=> before[c] = "in"
          BY <2>3 DEF Agree, Differs
        <4>3. \A c \in Contacts : c \in changed <=> ~(before[c] = "in" <=> assigned[c] = "in")
          BY DEF Differs
        <4>4. \A c \in changed : c \in Contacts
          BY DEF Differs
        <4> HIDE DEF changed, before
        <4>5. ~\E c \in changed : told[c] = news(c)
          BY <4>2, <4>3, <4>4
        <4>6. repeated' = repeated
          BY <1>2, <4>1, <4>5, TypeParts
        <4>7. \A c \in Contacts : told'[c] = "in" <=> assigned[c] = "in"
          BY <4>1, <4>2, <4>3
        <4>8. QED
          BY <4>6, <4>7 DEF Agree, Differs
      <3>3. QED
        BY <3>1, <3>2
    <2>6. QED
      BY <1>2, <2>1, <2>2, <2>5
  <1>11. CASE Save
    <2>1. UNCHANGED <<assigned, told, repeated>> /\ work.pc = "save"
      BY <1>11 DEF Save, listeners, At
    <2>2. work'.pc = "record"
      BY <1>3, <1>11 DEF Save, GoesTo, Goes, Works
    <2>3. resolved' = [c \in Contacts |-> IF assigned[c] = "none" THEN resolved[c] ELSE assigned[c]]
      BY <1>11 DEF Save
    <2>4. \A c \in Contacts : told[c] = "in" <=> assigned[c] = "in"
      BY <1>2, <2>1 DEF Agree, Differs
    <2>5. \A c \in Contacts : resolved'[c] = "in" <=> assigned[c] = "in"
      BY <1>2, <2>3
    <2>6. Agree(told', resolved')
      BY <2>1, <2>4, <2>5 DEF Agree, Differs
    <2>7. \A c \in Contacts : assigned'[c] = "none" => resolved'[c] = "none"
      BY <1>2, <2>1, <2>3
    <2>8. QED
      BY <1>2, <2>1, <2>2, <2>6, <2>7
  <1>12. CASE Record
    <2>1. UNCHANGED <<assigned, resolved, told, repeated>> /\ work.pc = "record" /\ work' = Idle
      BY <1>12 DEF Record, listeners, At, Goes
    <2>2. QED
      BY <1>2, <1>3, <2>1
  <1>13. CASE Fail \/ ProcessDies
    <2>1. /\ UNCHANGED <<told, repeated>> /\ Partly /\ excuses \cup Lost \subseteq excuses'
          /\ work.pc # "idle"
      BY <1>13 DEF Fail, ProcessDies, listeners, At
    <2>2. /\ work.pc \notin {"save", "clean"}
          /\ work.before # Nobody => work.pc = "record"
      BY <2>1 DEF Lost, Quiet, At
    <2>3. UNCHANGED <<assigned, resolved>>
      BY <2>1, <2>2 DEF Partly, At
    <2>4. work'.pc \in {"idle", "record"}
      BY <1>3, <1>13 DEF Fail, ProcessDies, Goes, GoesTo, Works
    <2>5. Agree(told, resolved)
      <3>1. work.pc \in Phases
        BY <1>3 DEF Works
      <3>2. CASE work.pc \in {"prepare", "record"}
        BY <1>2, <3>2
      <3>3. CASE work.pc \in {"scan", "assign", "announce"}
        BY <1>2, <2>2, <3>3
      <3>4. QED
        BY <2>1, <2>2, <3>1, <3>2, <3>3 DEF Phases, Begun
    <2>6. QED
      BY <1>2, <2>1, <2>3, <2>4, <2>5
  <1>14. QED
    BY <1>4, <1>5, <1>6, <1>7, <1>8, <1>9, <1>10, <1>11, <1>12, <1>13
       DEF SegmentNext, Proceed, Ingest, CacheExpires, Edit, listeners, segmentVars

-------------------------------------------------------------------------------
(* The invariant.                                                            *)

LEMMA SegInit == ASSUME SegmentInit PROVE SegInv
  <1>1. /\ log = << >> /\ Len(log) = 0 /\ DOMAIN log = {}
        /\ definition \in Definitions /\ edited = FALSE /\ last = Never
        /\ state = NoStates /\ assigned = Nobody /\ resolved = Nobody /\ cached = {}
        /\ work = Idle /\ upto = Never /\ window = [i \in 1 .. MaxNodes |-> 0] /\ by = definition
        /\ told = Nobody /\ repeated = FALSE /\ excuses = {} /\ edits = 0 /\ mishaps = 0
    BY DEF SegmentInit
  <1>2. SegmentTypeOK
    <2>1. Nobody \in [Contacts -> Memberships]
      BY DEF Nobody, Memberships
    <2>2. NoStates \in [1 .. MaxNodes -> [Contacts -> [at : 0 .. Len(log), value : BOOLEAN]]]
      BY <1>1 DEF NoStates, NoRow
    <2>3. window \in [1 .. MaxNodes -> 0 .. Len(log)]
      BY <1>1
    <2>4. log \in Seq(SegmentEvents)
      BY <1>1
    <2>5. 0 \in 0 .. MaxEdits /\ 0 \in 0 .. MaxMishaps
      BY BoundsAssumption
    <2>6. QED
      BY <1>1, <2>1, <2>2, <2>3, <2>4, <2>5 DEF SegmentTypeOK
  <1>3. Idle \in Works /\ Idle.pc = "idle" /\ Idle.now = Never /\ Len(log) \in Nat
    BY <1>2, IdleWork
  <1>4. WorkInv
    <2>1. Gone = {}
      BY <1>1 DEF Gone, DeletedIn
    <2>2. QED
      BY <1>1, <1>3, <2>1 DEF WorkInv, At
  <1>5. RowsInv
    <2>1. Resumable(definition, last)
      BY <1>1, <1>3, NoRowsResume
    <2>2. QED
      BY <1>1, <1>3, <2>1 DEF RowsInv, At, Scanning, Begun
  <1>6. IncrementalIsExact /\ DeletedLeave
    BY <1>1 DEF IncrementalIsExact, DeletedLeave
  <1>7. ToldInv
    BY <1>1, <1>3 DEF ToldInv, At, Agree, Differs, Nobody
  <1>8. QED
    BY <1>2, <1>4, <1>5, <1>6, <1>7 DEF SegInv

LEMMA SegStep == SegInv /\ [SegmentNext]_segmentVars => SegInv'
  BY WorkStep, RowsStep, ExactStep, ToldStep DEF SegInv

LEMMA SegInvariant == SegmentSpec => []SegInv
  <1>1. SegmentInit => SegInv
    BY SegInit
  <1>2. QED
    BY <1>1, SegStep, PTL DEF SegmentSpec

\* Whatever is scanned, computed again, edited, cleaned up halfway or fails: the
\* assignments are what the definition says of all events until the last scan, and
\* deleted contacts are out of them, unless the code has forgotten an event or not
\* heard of a deletion, as excuses says.
THEOREM SegmentAssignmentsExact == SegmentSpec => []AssignmentsExact
  <1>1. SegInv => AssignmentsExact
    BY DEF SegInv, AssignmentsExact
  <1>2. QED
    BY <1>1, SegInvariant, PTL

\* Nobody is announced to enter or leave twice in a row, and what has been saved has
\* been announced, unless an earlier state was lost or could not be read.
THEOREM SegmentChangesAnnouncedOnce == SegmentSpec => []ChangesAnnouncedOnce
  <1>1. SegInv => ChangesAnnouncedOnce
    <2>1. ASSUME SegInv, ~Excused({"unannounced"})
          PROVE  ~repeated /\ (At("idle") => Agree(told, resolved))
      BY <2>1 DEF SegInv, ToldInv, At
    <2>2. QED
      BY <2>1 DEF ChangesAnnouncedOnce, SavedIsAnnounced, OneAnnouncementPerChange, Agree
  <1>2. QED
    BY <1>1, SegInvariant, PTL
===============================================================================

----------------------------- MODULE SegmentBuffers -----------------------------
(***************************************************************************)
(* The way of an event to the segments it may change when segments are     *)
(* computed in real time (modules/processing/services): the debouncer      *)
(* keeps one entry per contact for a while, its callback puts the entry    *)
(* into the buffer of every segment concerned, a timer or a full buffer    *)
(* flushes a buffer, and a flush evaluates the contacts in it.  What fails *)
(* is handed to a dead letter queue in memory, which sends it round again. *)
(*                                                                         *)
(* A flush evaluates a contact over all its stored events, so that it does *)
(* not matter which event of a contact arrives there, as long as one does: *)
(* events are their contacts.  One process runs all of this; its steps are *)
(* what runs between two awaits of input or output (Quiet).                *)
(*                                                                         *)
(* Left out: the limits on memory and on the number of buffers; the        *)
(* minutely flush of buffers older than five minutes, of which there are   *)
(* none (NothingElseLost); several dead letters of one contact; and the    *)
(* lastComputedAt that a flush writes (SegmentComputation's last).         *)
(***************************************************************************)
EXTENDS Naturals, Sequences, FiniteSets

CONSTANTS
    Contacts,
    NSegments,         \* the segments an event concerns are 1 .. NSegments
    MaxBuffer,         \* MAX_BUFFER_SIZE
    MaxMerged,         \* maxEvents of a debounced entry
    MaxJobs,           \* MAX_PROCESSING_JOBS
    FailureThreshold,  \* of the circuit breaker
    MaxCallbacks, MaxRuns,  \* callbacks and flushes at a time
    MaxArrivals, MaxFaults, \* bounds: events that arrive, calls that fail
    MaxHappenings           \* bound: of both together

ASSUME SizesAssumption ==
    /\ {NSegments, MaxBuffer, MaxMerged, MaxJobs, FailureThreshold, MaxCallbacks, MaxRuns}
         \subseteq Nat \ {0}
    /\ {MaxArrivals, MaxFaults, MaxHappenings} \subseteq Nat

Segments == 1 .. NSegments
Callbacks == 1 .. MaxCallbacks
Runs == 1 .. MaxRuns
NoContact == "none"

ASSUME ContactsAssumption == NoContact \notin Contacts

VARIABLES
    debounced,   \* the count of each contact's entry; 0: there is none
    windows,     \* contacts whose entry has a timer
    callbacks,   \* the debouncer's callbacks that run
    buffers, timers, \* what each segment has buffered, which buffers have a timer
    processing,  \* the segments marked as being processed
    runs,        \* the flushes that run
    empty,       \* segments recorded to have no contacts
    circuit, failures,
    dead,        \* dead letters: "timed" to be sent again, "stranded"
    resent,      \* contacts whose event was sent to Kafka again
    due,         \* contacts of accepted events not evaluated since
    lost,        \* contacts that a loss named below may leave unevaluated
    overlapped,  \* segments flushed while they were being processed
    arrivals, faults

bufferVars == <<debounced, windows, callbacks, buffers, timers, processing, runs, empty,
          circuit, failures, dead, resent, due, lost, overlapped, arrivals, faults>>
debouncer == <<debounced, windows>>
breaker == <<circuit, failures>>
letters == <<dead, resent>>
budgets == <<arrivals, faults>>

NoCallback == [contact |-> NoContact, direct |-> FALSE, at |-> 0, waits |-> FALSE]
NoRun == [segment |-> 0, contacts |-> {}, by |-> 0, evaluated |-> FALSE]
Content(s) == {buffers[s][i] : i \in DOMAIN buffers[s]}

NoEntries == [c \in Contacts |-> 0]
NoCallbacks == [k \in Callbacks |-> NoCallback]
NoBuffers == [s \in Segments |-> << >>]
NoRuns == [r \in Runs |-> NoRun]
NoLetters == [c \in Contacts |-> NoContact]

BufferInit ==
    /\ debounced = NoEntries /\ windows = {} /\ callbacks = NoCallbacks
    /\ buffers = NoBuffers /\ timers = {}
    /\ processing = {} /\ runs = NoRuns /\ overlapped = {}
    /\ circuit = "CLOSED" /\ failures = 0
    /\ dead = NoLetters /\ resent = {}
    /\ empty = {}
    /\ due = [s \in Segments |-> {}] /\ lost = [s \in Segments |-> {}]
    /\ arrivals = 0 /\ faults = 0

-------------------------------------------------------------------------------
Fault == faults < MaxFaults /\ faults' = faults + 1

(* No callback is between two awaits.                                        *)
Quiet == \A k \in Callbacks : callbacks[k].contact = NoContact \/ callbacks[k].waits

Everywhere(f, c) == [s \in Segments |-> f[s] \cup {c}]

(* recordFailure, recordSuccess.  A success while closed takes no failure    *)
(* back.                                                                     *)
Fails(n) ==
    LET total == failures + n IN
    /\ failures' = IF total > FailureThreshold THEN FailureThreshold ELSE total
    /\ circuit' = IF total >= FailureThreshold THEN "OPEN" ELSE circuit
Succeeds ==
    IF circuit = "HALF_OPEN" THEN circuit' = "CLOSED" /\ failures' = 0 ELSE UNCHANGED breaker

(* DeadLetterQueueService.handleFailedEvent, for the contacts in cs.         *)
Letters(cs) == [c \in Contacts |-> IF c \in cs THEN "timed" ELSE dead[c]]

(* A callback of the debouncer begins, of an entry, which stays until it has *)
(* ended, or of an event that bypasses the entries.                          *)
Calls(c, direct) ==
    \E k \in Callbacks :
        /\ callbacks[k] = NoCallback
        /\ \A j \in Callbacks : j < k => callbacks[j] /= NoCallback
        /\ callbacks' = [callbacks EXCEPT ![k] =
                           [contact |-> c, direct |-> direct, at |-> 1, waits |-> FALSE]]
InFlight(c) == \E k \in Callbacks : callbacks[k].contact = c /\ ~callbacks[k].direct

-------------------------------------------------------------------------------
(* queueEventForBatchSegmentProcessing.                                      *)

(* An event arrives for the first time, or again from Kafka.                 *)
Comes(c) ==
    \/ arrivals < MaxArrivals /\ arrivals' = arrivals + 1 /\ UNCHANGED resent
    \/ c \in resent /\ resent' = resent \ {c} /\ UNCHANGED arrivals

Refuse(c) ==
    /\ Quiet /\ Comes(c)
    /\ \/ circuit = "OPEN" /\ UNCHANGED breaker
       \/ Cardinality(processing) >= MaxJobs /\ Fails(1)
    /\ lost' = IF arrivals' = arrivals THEN Everywhere(lost, c) ELSE lost
    /\ UNCHANGED <<debouncer, callbacks, buffers, timers, processing, runs, empty, dead,
                   due, overlapped, faults>>

(* debounceEvent.  An event that joins, or makes, an entry while a callback  *)
(* of that contact runs is deleted with it when the callback ends.           *)
Debounce(c) ==
    /\ debounced' = [debounced EXCEPT ![c] = @ + 1]
    /\ IF debounced[c] = 0 THEN windows' = windows \cup {c} /\ UNCHANGED callbacks
       ELSE IF debounced[c] + 1 < MaxMerged THEN UNCHANGED <<windows, callbacks>>
       ELSE windows' = windows \ {c} /\ Calls(c, FALSE)
    /\ lost' = IF InFlight(c) THEN Everywhere(lost, c) ELSE lost

(* The circuit lets it pass, when open after a while; an event whose         *)
(* segments cannot be read becomes a dead letter.                            *)
Accept(c) ==
    /\ Quiet /\ Comes(c)
    /\ Cardinality(processing) < MaxJobs
    /\ due' = Everywhere(due, c)
    /\ \/ /\ \/ Debounce(c)
             \/ Calls(c, TRUE) /\ UNCHANGED <<debouncer, lost>>
          /\ circuit' = IF circuit = "OPEN" THEN "HALF_OPEN" ELSE circuit
          /\ UNCHANGED <<failures, dead, faults>>
       \/ /\ Fault /\ Fails(1) /\ dead' = Letters({c})
          /\ UNCHANGED <<debouncer, callbacks, lost>>
    /\ UNCHANGED <<buffers, timers, processing, runs, empty, overlapped>>

(* Mutant: the window of an entry does not end while the circuit is open.    *)
WindowEndsWhenClosed(c) ==
    /\ Quiet /\ c \in windows /\ circuit = "CLOSED"
    /\ windows' = windows \ {c}
    /\ IF debounced[c] = 0 THEN UNCHANGED callbacks ELSE Calls(c, FALSE)
    /\ UNCHANGED <<debounced, buffers, timers, processing, runs, empty, breaker, letters,
                   due, lost, overlapped, budgets>>

(* The window of an entry ends.  There may be no entry: the end of an        *)
(* earlier callback deletes the one that is there.                           *)
WindowEnds(c) ==
    /\ Quiet /\ c \in windows
    /\ windows' = windows \ {c}
    /\ IF debounced[c] = 0 THEN UNCHANGED callbacks ELSE Calls(c, FALSE)
    /\ UNCHANGED <<debounced, buffers, timers, processing, runs, empty, breaker, letters,
                   due, lost, overlapped, budgets>>

-------------------------------------------------------------------------------
(* flushSegmentBuffer of the events that content holds, for the callback by, *)
(* 0 when it is for none.  When the segment is being processed the events    *)
(* are dropped, and the mark with them.                                      *)
Begins(s, content, by) ==
    /\ buffers' = [buffers EXCEPT ![s] = << >>] /\ timers' = timers \ {s}
    /\ IF s \in processing
       THEN /\ lost' = [lost EXCEPT ![s] = @ \cup content]
            /\ overlapped' = overlapped \cup {s}
            /\ processing' = processing \ {s}
            /\ UNCHANGED runs
       ELSE /\ \E r \in Runs :
                 /\ runs[r] = NoRun /\ \A q \in Runs : q < r => runs[q] /= NoRun
                 /\ runs' = [runs EXCEPT ![r] = [segment |-> s, contacts |-> content,
                                                 by |-> by, evaluated |-> FALSE]]
            /\ processing' = processing \cup {s}
            /\ UNCHANGED <<lost, overlapped>>

(* A callback goes on to the next segment; after the last one it has ended   *)
(* and its entry is deleted.                                                 *)
GoesOn(k) ==
    LET me == callbacks[k] IN
    IF me.at < NSegments
    THEN /\ callbacks' = [callbacks EXCEPT ![k].at = @ + 1, ![k].waits = FALSE]
         /\ UNCHANGED debounced
    ELSE /\ callbacks' = [callbacks EXCEPT ![k] = NoCallback]
         /\ debounced' = IF me.direct THEN debounced ELSE [debounced EXCEPT ![me.contact] = 0]

(* Mutant: a buffer gets no timer.                                           *)
PutUntimed(k) ==
    LET me == callbacks[k]  s == me.at  new == Append(buffers[s], me.contact) IN
    /\ me.contact /= NoContact /\ ~me.waits
    /\ Len(new) < MaxBuffer
    /\ buffers' = [buffers EXCEPT ![s] = new]
    /\ GoesOn(k)
    /\ UNCHANGED <<windows, timers, processing, runs, empty, breaker, letters, due, lost,
                   overlapped, budgets>>

(* queueEventForSegment: into the buffer, which has a timer from then on.    *)
PutEvent(k) ==
    LET me == callbacks[k]  s == me.at  new == Append(buffers[s], me.contact) IN
    /\ me.contact /= NoContact /\ ~me.waits
    /\ Len(new) < MaxBuffer
    /\ buffers' = [buffers EXCEPT ![s] = new] /\ timers' = timers \cup {s}
    /\ GoesOn(k)
    /\ UNCHANGED <<windows, processing, runs, empty, breaker, letters, due, lost,
                   overlapped, budgets>>

(* The buffer is full: the callback waits for its flush, when there is one.  *)
PutLast(k) ==
    LET me == callbacks[k]  s == me.at IN
    /\ me.contact /= NoContact /\ ~me.waits
    /\ Len(buffers[s]) + 1 >= MaxBuffer
    /\ Begins(s, Content(s) \cup {me.contact}, k)
    /\ IF s \in processing THEN GoesOn(k)
       ELSE callbacks' = [callbacks EXCEPT ![k].waits = TRUE] /\ UNCHANGED debounced
    /\ UNCHANGED <<windows, empty, breaker, letters, due, budgets>>

TimerFires(s) ==
    /\ Quiet /\ s \in timers
    /\ Begins(s, Content(s), 0)
    /\ UNCHANGED <<debouncer, callbacks, empty, breaker, letters, due, budgets>>

-------------------------------------------------------------------------------
(* A flush that runs.                                                        *)

(* processBatchSegment evaluates the contacts, but as many batches of them   *)
(* as the segment has contacts: none when it is recorded to be empty.        *)
Evaluate(r) ==
    LET run == runs[r]  s == run.segment IN
    /\ Quiet /\ s /= 0 /\ ~run.evaluated
    /\ IF s \in empty
       THEN lost' = [lost EXCEPT ![s] = @ \cup run.contacts] /\ UNCHANGED due
       ELSE /\ due' = [due EXCEPT ![s] = @ \ run.contacts]
            /\ lost' = [lost EXCEPT ![s] = @ \ run.contacts]
    /\ runs' = [runs EXCEPT ![r].evaluated = TRUE]
    /\ UNCHANGED <<debouncer, callbacks, buffers, timers, processing, empty, breaker,
                   letters, overlapped, budgets>>

(* The flush ends: the mark is deleted, whose ever it is.                    *)
Ends(r) ==
    LET s == runs[r].segment IN
    /\ runs' = [runs EXCEPT ![r] = NoRun]
    /\ processing' = processing \ {s}
    /\ overlapped' = IF \E q \in Runs \ {r} : runs[q].segment = s THEN overlapped
                     ELSE overlapped \ {s}

(* The contacts are counted and the count recorded; one that fails counts    *)
(* none.  Too slow a flush is a failure to the circuit.                      *)
Finish(r) ==
    LET run == runs[r] IN
    /\ Quiet /\ run.evaluated
    /\ Ends(r)
    /\ \/ Succeeds /\ empty' = empty \ {run.segment} /\ UNCHANGED faults
       \/ Fault /\ Fails(1) /\ empty' = empty \ {run.segment}
       \/ Fault /\ Succeeds /\ empty' = empty \cup {run.segment}
    /\ IF run.by = 0 THEN UNCHANGED <<callbacks, debounced>> ELSE GoesOn(run.by)
    /\ UNCHANGED <<windows, buffers, timers, letters, due, lost, arrivals>>

(* Mutant: the mark of a segment stays when its flush fails.                 *)
FailMarked(r) ==
    LET run == runs[r]  s == run.segment  me == callbacks[run.by] IN
    /\ Quiet /\ s /= 0 /\ ~run.evaluated /\ run.by /= 0 /\ Fault
    /\ runs' = [runs EXCEPT ![r] = NoRun]
    /\ Fails(IF me.direct THEN 2 ELSE 1)
    /\ dead' = Letters(Content(s) \cup (IF me.direct THEN {me.contact} ELSE {}))
    /\ lost' = [lost EXCEPT ![s] = @ \cup run.contacts]
    /\ callbacks' = [callbacks EXCEPT ![run.by] = NoCallback]
    /\ UNCHANGED <<debouncer, buffers, timers, processing, empty, resent, due, overlapped,
                   arrivals>>

(* A flush fails.  What becomes dead letters is what the buffer holds by     *)
(* now.  The callback that waits for it ends, short of the segments that     *)
(* follow; that of an event of its own makes that a dead letter.             *)
Fail(r) ==
    LET run == runs[r]  s == run.segment  me == callbacks[run.by] IN
    /\ Quiet /\ s /= 0 /\ ~run.evaluated /\ run.by /= 0 /\ Fault
    /\ Ends(r)
    /\ Fails(IF me.direct THEN 2 ELSE 1)
    /\ dead' = Letters(Content(s) \cup (IF me.direct THEN {me.contact} ELSE {}))
    /\ lost' = [i \in Segments |->
                  lost[i] \cup (IF i = s THEN run.contacts ELSE {})
                          \cup (IF i >= s THEN {me.contact} ELSE {})]
    /\ callbacks' = [callbacks EXCEPT ![run.by] = NoCallback]
    /\ debounced' = IF me.direct THEN debounced ELSE [debounced EXCEPT ![me.contact] = 0]
    /\ UNCHANGED <<windows, buffers, timers, empty, resent, due, arrivals>>

(* The process ends: nothing that it had in memory is left.  One of its own  *)
(* doing: the failure of a flush that a timer began is caught by nobody.     *)
ProcessEnds ==
    /\ Fault
    /\ debounced' = NoEntries /\ windows' = {} /\ callbacks' = NoCallbacks
    /\ buffers' = NoBuffers /\ timers' = {}
    /\ processing' = {} /\ runs' = NoRuns /\ overlapped' = {}
    /\ circuit' = "CLOSED" /\ failures' = 0
    /\ dead' = NoLetters
    /\ lost' = due
    /\ UNCHANGED <<empty, resent, due, arrivals>>

-------------------------------------------------------------------------------
(* A dead letter is sent to Kafka again, from where it arrives as any other  *)
(* event; one that cannot be sent stays, and is not tried again.             *)
Retry(c) ==
    /\ Quiet /\ dead[c] = "timed"
    /\ \/ dead' = [dead EXCEPT ![c] = NoContact] /\ resent' = resent \cup {c}
          /\ UNCHANGED <<lost, faults>>
       \/ Fault /\ dead' = [dead EXCEPT ![c] = "stranded"] /\ lost' = Everywhere(lost, c)
          /\ UNCHANGED resent
    /\ UNCHANGED <<debouncer, callbacks, buffers, timers, processing, runs, empty, breaker,
                   due, overlapped, arrivals>>

Return(c) == c \in resent /\ (Accept(c) \/ Refuse(c))

Step ==
    \/ \E c \in Contacts : WindowEnds(c) \/ Retry(c) \/ Return(c)
    \/ \E k \in Callbacks : PutEvent(k) \/ PutLast(k)
    \/ \E s \in Segments : TimerFires(s)
    \/ \E r \in Runs : Evaluate(r) \/ Finish(r)

BufferNext ==
    \/ \E c \in Contacts : Accept(c) \/ Refuse(c) \/ WindowEnds(c) \/ Retry(c)
    \/ \E k \in Callbacks : PutEvent(k) \/ PutLast(k)
    \/ \E s \in Segments : TimerFires(s)
    \/ \E r \in Runs : Evaluate(r) \/ Finish(r) \/ Fail(r)
    \/ ProcessEnds

WithinBound == arrivals' + faults' <= MaxHappenings

BufferSpec == BufferInit /\ [][BufferNext /\ WithinBound]_bufferVars

(* Timers fire, calls return, and Kafka delivers.                            *)
FairBufferSpec == BufferSpec /\ WF_bufferVars(Step)

-------------------------------------------------------------------------------
BufferTypeOK ==
    /\ debounced \in [Contacts -> Nat] /\ windows \subseteq Contacts
    /\ callbacks \in [Callbacks -> {NoCallback} \cup
                        [contact : Contacts, direct : BOOLEAN, at : Segments, waits : BOOLEAN]]
    /\ buffers \in [Segments -> Seq(Contacts)] /\ timers \subseteq Segments
    /\ processing \subseteq Segments /\ overlapped \subseteq Segments /\ empty \subseteq Segments
    /\ runs \in [Runs -> {NoRun} \cup [segment : Segments, contacts : SUBSET Contacts,
                                       by : 0 .. MaxCallbacks, evaluated : BOOLEAN]]
    /\ circuit \in {"CLOSED", "OPEN", "HALF_OPEN"} /\ failures \in 0 .. FailureThreshold
    /\ dead \in [Contacts -> {NoContact, "timed", "stranded"}] /\ resent \subseteq Contacts
    /\ {due, lost} \subseteq [Segments -> SUBSET Contacts]
    /\ arrivals \in 0 .. MaxArrivals /\ faults \in 0 .. MaxFaults

(* Where an event of c is on its way to segment s, with something that will  *)
(* take it further.                                                          *)
OnItsWay(c, s) ==
    \/ debounced[c] > 0 /\ c \in windows
    \/ \E k \in Callbacks : callbacks[k].contact = c /\ callbacks[k].at <= s /\ ~callbacks[k].waits
    \/ \E k \in Callbacks : callbacks[k].contact = c /\ callbacks[k].at < s
    \/ c \in Content(s) /\ s \in timers
    \/ \E r \in Runs : runs[r].segment = s /\ c \in runs[r].contacts /\ ~runs[r].evaluated
    \/ dead[c] = "timed" \/ c \in resent

(* Between an accepted event and the evaluation of its contact nothing gets  *)
(* lost but what these do: an entry deleted by a callback that runs, a flush *)
(* while another of the segment runs, one that fails or finds the segment    *)
(* recorded as empty, a dead letter that cannot be sent or is refused, and   *)
(* the end of the process.                                                   *)
NothingElseLost ==
    \A s \in Segments : \A c \in due[s] \ lost[s] : OnItsWay(c, s)

(* A segment marked as being processed is, so that no mark is left to drop   *)
(* its events for good; and it is processed by one flush at a time, unless   *)
(* one that was refused has taken the mark away.                             *)
ProcessingMarks ==
    \A s \in Segments :
        LET mine == {r \in Runs : runs[r].segment = s} IN
        /\ s \in processing => mine /= {}
        /\ s \notin overlapped => /\ Cardinality(mine) <= 1
                                  /\ mine /= {} => s \in processing

(* No event waits in vain: not beside the buffers, and not behind a mark.    *)
BuffersKeepEvents == BufferTypeOK /\ NothingElseLost /\ ProcessingMarks

(* Once no more events arrive, every contact that is due is evaluated or     *)
(* among the lost.                                                           *)
EverythingEvaluated == <>[](\A s \in Segments : due[s] \subseteq lost[s])
===============================================================================
